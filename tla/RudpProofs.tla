----------------------------- MODULE RudpProofs -----------------------------
(***************************************************************************)
(* Theorems about Rudp, for every set of nodes, every list of sends, every *)
(* number of attempts, losses and errors and every size of the array of    *)
(* pending frames, whenever the timers run out.  In this order:            *)
(*                                                                         *)
(*   - the type, and what the pending frames say of the call a node is in; *)
(*   - for each direction from a node to another, the record Link of what  *)
(*     the two know of it, and the few steps (LinkStep) by which every     *)
(*     action of the transport changes it;                                 *)
(*   - messages are returned in order, from what Link says of the copies;  *)
(*   - what was acknowledged is there, and the bits agree, from what Link  *)
(*     says of the bits.                                                   *)
(*                                                                         *)
(* The last two need conditions on what a node holds.                      *)
(***************************************************************************)
EXTENDS Rudp, WellFoundedInduction, TLAPS

Entry == [from : Node, frame : Frame]

Table == [Slot -> Entry \cup {None}]

SendOp ==
    [at : {"waitAck"}, peer : Node, bit : 0 .. 1, msg : Msg, limit : Nat, tries : Nat]

RecvOp ==
    [at : {"waitAckAck"}, peer : Node, bit : 0 .. 1, msg : Msg, new : BOOLEAN,
     tries : 0 .. Attempts - 1]

Op == {Idle, Recv, Skip} \cup SendOp \cup RecvOp

-----------------------------------------------------------------------------
(* The array of pending frames.                                            *)

(* Min of a nonempty set of slots is in it.                                *)
LEMMA MinSlot ==
    ASSUME NEW S, S \subseteq Slot, S # {}
    PROVE  Min(S) \in S
<1>1. S \subseteq Nat
  BY RudpAssumption DEF Slot
<1>2. PICK x \in S : \A y \in S : ~(<<y, x>> \in OpToRel(<, Nat))
  BY <1>1, NatLessThanWellFounded, WFMin
<1>3. \A y \in S : x <= y
  <2>1. ASSUME NEW y \in S, y < x PROVE FALSE
    <3>1. <<y, x>> \in {p \in Nat \X Nat : p[1] < p[2]}
      BY <1>1, <2>1
    <3>2. OpToRel(<, Nat) = {p \in Nat \X Nat : p[1] < p[2]}
      BY Zenon DEF OpToRel
    <3> QED BY <1>2, <3>1, <3>2, Zenon
  <2> QED BY <1>1, <2>1
<1> QED BY <1>3 DEF Min

(* pending_store keeps the array an array of frames with their senders.    *)
LEMMA StoreType ==
    ASSUME NEW p \in Table, NEW a \in Node, NEW f \in Frame
    PROVE  PendingStore(p, a, f) \in Table
<1> DEFINE free == {i \in Slot : p[i] = None}
<1>1. [from |-> a, frame |-> f] \in Entry
  BY DEF Entry
<1>2. CASE free = {}
  BY <1>2 DEF PendingStore, Full
<1>3. CASE free # {}
  <2>1. Min(free) \in Slot
    BY <1>3, MinSlot
  <2> QED BY <1>1, <2>1 DEF PendingStore, Table
<1> QED BY <1>2, <1>3

LEMMA DropType ==
    ASSUME NEW p \in Table, NEW a, NEW types
    PROVE  PendingDrop(p, a, types) \in Table
BY DEF PendingDrop, Table

LEMMA ClearType ==
    ASSUME NEW p \in Table, NEW i \in Slot
    PROVE  [p EXCEPT ![i] = None] \in Table
BY DEF Table

(* The pending message that is taken next.                                 *)
LEMMA TakenMessage ==
    ASSUME NEW p \in Table, MessageSlots(p) # {}
    PROVE  LET i == Min(MessageSlots(p))
           IN  i \in Slot /\ p[i] \in Entry /\ p[i].frame.type = "MESSAGE"
<1>1. Min(MessageSlots(p)) \in MessageSlots(p)
  BY MinSlot DEF MessageSlots
<1> QED BY <1>1 DEF MessageSlots, Table

LEMMA MessageType ==
    ASSUME NEW f \in Frame
    PROVE  f.bit \in 0 .. 1 /\ (f.type = "MESSAGE" => f.msg \in Msg)
BY DEF Frame

LEMMA ControlType ==
    ASSUME NEW b \in 0 .. 1
    PROVE  Control("ACK", b) \in Frame /\ Control("ACK_ACK", b) \in Frame
BY DEF Control, Frame

-----------------------------------------------------------------------------
(* The channels.                                                           *)

Chans == [Node \X Node -> Seq(Frame)]

LEMMA TransmitType ==
    ASSUME NEW n \in Node, NEW b \in Node, NEW f \in Frame, NEW copies \in Nat,
           NEW c \in Chans, losses \in Nat, Transmit(n, b, f, copies, c)
    PROVE  chan' \in Chans /\ losses' \in Nat
<1>1. PICK k \in 0 .. copies :
         /\ losses' = losses + (copies - k)
         /\ chan' = [c EXCEPT ![<<n, b>>] = @ \o [i \in 1 .. k |-> f]]
  BY DEF Transmit
<1>2. [i \in 1 .. k |-> f] \in Seq(Frame)
  BY <1>1
<1>3. c[<<n, b>>] \o [i \in 1 .. k |-> f] \in Seq(Frame)
  BY <1>2 DEF Chans
<1> QED BY <1>1, <1>3 DEF Chans

LEMMA ReadType ==
    ASSUME chan \in Chans, NEW a \in Node, NEW n \in Node, Readable(a, n)
    PROVE  Head(chan[<<a, n>>]) \in Frame /\ ReadFrom(a, n) \in Chans
<1>1. chan[<<a, n>>] \in Seq(Frame) /\ chan[<<a, n>>] # << >>
  BY DEF Chans, Readable
<1>2. Head(chan[<<a, n>>]) \in Frame /\ Tail(chan[<<a, n>>]) \in Seq(Frame)
  BY <1>1
<1> QED BY <1>2 DEF ReadFrom, Chans

LEMMA FlippedBit ==
    ASSUME NEW s \in [Node \X Node -> 0 .. 1], NEW a \in Node, NEW b \in Node
    PROVE  /\ [s EXCEPT ![<<a, b>>] = 1 - @] \in [Node \X Node -> 0 .. 1]
           /\ [s EXCEPT ![<<a, b>>] = @] \in [Node \X Node -> 0 .. 1]
<1>1. 1 - s[<<a, b>>] \in 0 .. 1 /\ s[<<a, b>>] \in 0 .. 1
  OBVIOUS
<1> QED BY <1>1

-----------------------------------------------------------------------------
(* The calls.                                                              *)

(* The parts of TypeOK.                                                    *)
NetTyped == chan \in Chans /\ losses \in Nat

TableTyped == pend \in [Node -> Table]

SendTyped ==
    /\ sbit \in [Node \X Node -> 0 .. 1]
    /\ sent \in [Node -> Nat] /\ outcome \in [Node -> Seq({"ok", "failed"})] /\ errors \in Nat

RecvTyped == ebit \in [Node \X Node -> 0 .. 1] /\ got \in [Node -> Seq(Msg)]

OpTyped == op \in [Node -> Op]

Typed == NetTyped /\ TableTyped /\ SendTyped /\ RecvTyped /\ OpTyped

LEMMA TypedIsTypeOK == Typed <=> TypeOK
BY DEF Typed, NetTyped, TableTyped, SendTyped, RecvTyped, OpTyped, TypeOK, Chans, Table,
       Entry, Op, SendOp, RecvOp

(* Every call ends in the loop, at a read or in a wait.                    *)
LEMMA OpStep ==
    ASSUME OpTyped, NEW n \in Node, NEW x \in Op, op' = [op EXCEPT ![n] = x]
    PROVE  OpTyped'
BY DEF OpTyped

LEMMA AppendType ==
    ASSUME NEW S, NEW f \in [Node -> Seq(S)], NEW n \in Node, NEW x \in S
    PROVE  [f EXCEPT ![n] = Append(@, x)] \in [Node -> Seq(S)]
<1>1. Append(f[n], x) \in Seq(S)
  OBVIOUS
<1> QED BY <1>1

LEMMA SendErrorType ==
    ASSUME Typed, NEW n \in Node, SendError(n)
    PROVE  /\ outcome' \in [Node -> Seq({"ok", "failed"})] /\ errors' \in Nat
           /\ OpTyped'
<1>1. outcome' \in [Node -> Seq({"ok", "failed"})]
  BY AppendType DEF SendError, Typed, SendTyped
<1>2. OpTyped'
  BY OpStep DEF SendError, Typed, Op
<1> QED BY <1>1, <1>2 DEF SendError, Typed, SendTyped

LEMMA ElementType ==
    ASSUME NEW S, NEW s \in Seq(S), NEW i \in 1 .. Len(s)
    PROVE  s[i] \in S
OBVIOUS

(* The next message of a node, with its receiver.                          *)
LEMMA NextSend ==
    ASSUME Typed, NEW n \in Node, sent[n] < Len(Work[n])
    PROVE  /\ <<n, sent[n] + 1>> \in Msg /\ sent[n] + 1 \in 1 .. Len(Work[n])
           /\ Work[n][sent[n] + 1].to \in Node \ {n} /\ Work[n][sent[n] + 1].limit \in Nat
<1>1. sent[n] \in Nat /\ Work[n] \in Seq([to : Node \ {n}, limit : Nat])
  BY RudpAssumption DEF Typed, SendTyped
<1>2. sent[n] + 1 \in 1 .. Len(Work[n])
  BY <1>1
<1>3. Work[n][sent[n] + 1] \in [to : Node \ {n}, limit : Nat]
  BY <1>1, <1>2, ElementType, Zenon
<1> QED BY <1>2, <1>3 DEF Msg

LEMMA StartSendType ==
    ASSUME Typed, NEW n \in Node, StartSend(n)
    PROVE  Typed'
<1> DEFINE w == Work[n][sent[n] + 1]
           msg == <<n, sent[n] + 1>>
           bit == sbit[<<n, w.to>>]
           x == [at |-> "waitAck", peer |-> w.to, bit |-> bit, msg |-> msg,
                 limit |-> w.limit, tries |-> 0]
<1>1. msg \in Msg /\ w.to \in Node /\ w.limit \in Nat
  BY NextSend DEF StartSend
<1>2. bit \in 0 .. 1
  BY <1>1 DEF Typed, SendTyped
<1>3. /\ sent' = [sent EXCEPT ![n] = @ + 1]
      /\ pend' = [pend EXCEPT ![n] = PendingDrop(@, w.to, {"ACK", "ACK_ACK"})]
      /\ \/ /\ Transmit(n, w.to, Message(bit, msg), 1, chan)
            /\ op' = [op EXCEPT ![n] = x]
            /\ UNCHANGED <<outcome, errors>>
         \/ SendError(n) /\ UNCHANGED <<chan, losses>>
      /\ UNCHANGED <<sbit, ebit, got>>
  BY DEF StartSend
<1>4. x \in Op
  BY <1>1, <1>2 DEF Op, SendOp
<1>5. Message(bit, msg) \in Frame
  BY <1>1, <1>2 DEF Message, Frame
<1> HIDE DEF w, msg, bit, x
<1>6. TableTyped'
  <2>1. PendingDrop(pend[n], w.to, {"ACK", "ACK_ACK"}) \in Table
    BY DropType DEF Typed, TableTyped
  <2> QED BY <1>3, <2>1 DEF Typed, TableTyped
<1>7. NetTyped'
  BY <1>1, <1>3, <1>5, TransmitType DEF Typed, NetTyped
<1>8. SendTyped' /\ OpTyped'
  <2>0. SendTyped /\ OpTyped
    BY DEF Typed
  <2>1. CASE op' = [op EXCEPT ![n] = x] /\ UNCHANGED <<outcome, errors>>
    <3>1. OpTyped'
      BY <1>4, <2>0, <2>1, OpStep, Zenon
    <3>2. sent' \in [Node -> Nat]
      BY <1>3, <2>0 DEF SendTyped
    <3> QED BY <1>3, <2>0, <2>1, <3>1, <3>2 DEF SendTyped
  <2>2. CASE SendError(n)
    <3>1. sent' \in [Node -> Nat]
      BY <1>3, <2>0 DEF SendTyped
    <3>2. /\ outcome' \in [Node -> Seq({"ok", "failed"})] /\ errors' \in Nat
          /\ OpTyped'
      BY <2>2, SendErrorType, Zenon
    <3> QED BY <1>3, <2>0, <3>1, <3>2 DEF SendTyped
  <2> QED BY <1>3, <2>1, <2>2
<1> QED BY <1>3, <1>6, <1>7, <1>8 DEF Typed, RecvTyped

(* What a waiting node waits for.                                          *)
LEMMA WaitTypes ==
    ASSUME Typed, NEW n \in Node
    PROVE  /\ op[n].at = "waitAck" => op[n] \in SendOp
           /\ op[n].at = "waitAckAck" => op[n] \in RecvOp
<1>1. op[n] \in Op
  BY DEF Typed, OpTyped
<1> QED BY <1>1 DEF Op, SendOp, RecvOp, Idle, Recv, Skip

LEMMA FinishSendType ==
    ASSUME Typed, NEW n \in Node, op[n] \in SendOp, NEW c \in Chans, FinishSend(n, c), sent' = sent
    PROVE  Typed'
<1> DEFINE x == op[n]
<1>1. x.peer \in Node /\ Control("ACK_ACK", x.bit) \in Frame
  BY ControlType DEF SendOp
<1>2. /\ UNCHANGED <<pend, ebit, got>>
      /\ \/ /\ Transmit(n, x.peer, Control("ACK_ACK", x.bit), Attempts, c)
            /\ sbit' = [sbit EXCEPT ![<<n, x.peer>>] = 1 - @]
            /\ outcome' = [outcome EXCEPT ![n] = Append(@, "ok")]
            /\ op' = [op EXCEPT ![n] = Idle]
            /\ UNCHANGED errors
         \/ /\ \E k \in 0 .. Attempts - 1 : Transmit(n, x.peer, Control("ACK_ACK", x.bit), k, c)
            /\ sbit' = [sbit EXCEPT ![<<n, x.peer>>] = @]
            /\ SendError(n)
  BY DEF FinishSend, BitAfterError
<1>3. Attempts \in Nat /\ \A k \in 0 .. Attempts - 1 : k \in Nat
  BY RudpAssumption
<1> HIDE DEF x
<1>4. NetTyped'
  BY <1>1, <1>2, <1>3, TransmitType DEF Typed, NetTyped
<1>5. sbit' \in [Node \X Node -> 0 .. 1]
  <2>1. sbit \in [Node \X Node -> 0 .. 1]
    BY DEF Typed, SendTyped
  <2>2. CASE sbit' = [sbit EXCEPT ![<<n, x.peer>>] = 1 - @]
    BY <1>1, <2>1, <2>2, FlippedBit
  <2>3. CASE sbit' = [sbit EXCEPT ![<<n, x.peer>>] = @]
    BY <1>1, <2>1, <2>3, FlippedBit
  <2> QED BY <1>2, <2>2, <2>3, Zenon
<1>6. outcome' \in [Node -> Seq({"ok", "failed"})] /\ errors' \in Nat /\ OpTyped'
  <2>1. CASE /\ outcome' = [outcome EXCEPT ![n] = Append(@, "ok")]
             /\ op' = [op EXCEPT ![n] = Idle] /\ UNCHANGED errors
    <3>1. "ok" \in {"ok", "failed"} /\ Idle \in Op
      BY DEF Op
    <3> QED BY <2>1, <3>1, AppendType, OpStep DEF Typed, SendTyped
  <2>2. CASE SendError(n)
    BY <2>2, SendErrorType
  <2> QED BY <1>2, <2>1, <2>2
<1> QED BY <1>2, <1>4, <1>5, <1>6 DEF Typed, TableTyped, SendTyped, RecvTyped
-----------------------------------------------------------------------------
(* rudp_recvfrom.                                                          *)

LEMMA FinishRecvType ==
    ASSUME RecvTyped, OpTyped, NEW n \in Node, NEW x \in RecvOp, FinishRecv(n, x)
    PROVE  RecvTyped' /\ OpTyped'
<1>1. x.peer \in Node /\ x.msg \in Msg
  BY DEF RecvOp
<1>2. Idle \in Op /\ Skip \in Op
  BY DEF Op
<1>3. CASE x.new
  <2>1. /\ ebit' = [ebit EXCEPT ![<<x.peer, n>>] = 1 - @]
        /\ got' = [got EXCEPT ![n] = Append(@, x.msg)]
        /\ op' = [op EXCEPT ![n] = Idle]
    BY <1>3 DEF FinishRecv, NextExpected
  <2>2. ebit' \in [Node \X Node -> 0 .. 1]
    BY <1>1, <2>1, FlippedBit DEF RecvTyped
  <2>3. got' \in [Node -> Seq(Msg)]
    BY <1>1, <2>1, AppendType DEF RecvTyped
  <2>4. OpTyped'
    BY <1>2, <2>1, OpStep
  <2> QED BY <2>2, <2>3, <2>4 DEF RecvTyped
<1>4. CASE ~x.new
  <2>1. op' = [op EXCEPT ![n] = Skip] /\ UNCHANGED <<ebit, got>>
    BY <1>4 DEF FinishRecv
  <2>2. OpTyped'
    BY <1>2, <2>1, OpStep
  <2> QED BY <2>1, <2>2 DEF RecvTyped
<1> QED BY <1>3, <1>4

(* The exchange a MESSAGE begins.                                          *)
Exchange(n, a, f) ==
    [at |-> "waitAckAck", peer |-> a, bit |-> f.bit, msg |-> f.msg,
     new |-> IsNew(n, a, f), tries |-> 0]

LEMMA ExchangeType ==
    ASSUME NEW n \in Node, NEW a \in Node, NEW f \in Frame, f.type = "MESSAGE"
    PROVE  Exchange(n, a, f) \in RecvOp
<1>1. f.bit \in 0 .. 1 /\ f.msg \in Msg
  BY MessageType
<1>2. IsNew(n, a, f) \in BOOLEAN
  BY Zenon DEF IsNew
<1>3. 0 \in 0 .. Attempts - 1
  BY RudpAssumption
<1> QED BY <1>1, <1>2, <1>3, Zenon DEF Exchange, RecvOp

LEMMA BeginRecvType ==
    ASSUME Typed, NEW n \in Node, NEW a \in Node, NEW f \in Frame, f.type = "MESSAGE",
           NEW p \in Table, NEW c \in Chans, BeginRecv(n, a, f, p, c)
    PROVE  Typed'
<1> DEFINE x == Exchange(n, a, f)
           here == ControlSlots(p, a, Control("ACK_ACK", f.bit))
<1>1. /\ Transmit(n, a, Control("ACK", f.bit), 1, c)
      /\ \/ /\ here # {}
            /\ pend' = [pend EXCEPT ![n] = [p EXCEPT ![Min(here)] = None]]
            /\ FinishRecv(n, x)
         \/ /\ pend' = [pend EXCEPT ![n] = p]
            /\ op' = [op EXCEPT ![n] = x]
            /\ UNCHANGED <<ebit, got>>
      /\ UNCHANGED <<sbit, sent, outcome, errors>>
  BY DEF BeginRecv, Exchange
<1>2. x \in RecvOp
  BY ExchangeType
<1>3. here \subseteq Slot
  BY DEF ControlSlots
<1>4. Control("ACK", f.bit) \in Frame
  BY MessageType, ControlType
<1>5. TableTyped /\ SendTyped /\ RecvTyped /\ OpTyped /\ losses \in Nat
  BY DEF Typed, NetTyped
<1> HIDE DEF x, here
<1>6. NetTyped'
  BY <1>1, <1>4, <1>5, TransmitType DEF NetTyped
<1>7. SendTyped'
  BY <1>1, <1>5 DEF SendTyped
<1>8. TableTyped' /\ RecvTyped' /\ OpTyped'
  <2>1. CASE /\ here # {}
             /\ pend' = [pend EXCEPT ![n] = [p EXCEPT ![Min(here)] = None]]
             /\ FinishRecv(n, x)
    <3>1. Min(here) \in Slot
      BY <1>3, <2>1, MinSlot
    <3>2. [p EXCEPT ![Min(here)] = None] \in Table
      BY <3>1, ClearType
    <3> QED BY <1>2, <1>5, <2>1, <3>2, FinishRecvType DEF TableTyped
  <2>2. CASE /\ pend' = [pend EXCEPT ![n] = p]
             /\ op' = [op EXCEPT ![n] = x]
             /\ UNCHANGED <<ebit, got>>
    <3>1. OpTyped'
      BY <1>2, <1>5, <2>2, OpStep DEF Op
    <3> QED BY <1>5, <2>2, <3>1 DEF TableTyped, RecvTyped
  <2> QED BY <1>1, <2>1, <2>2
<1> QED BY <1>6, <1>7, <1>8 DEF Typed

LEMMA RecvPendingType ==
    ASSUME Typed, NEW n \in Node, RecvPending(n)
    PROVE  Typed'
<1> DEFINE i == Min(MessageSlots(pend[n]))
<1>1. pend[n] \in Table /\ chan \in Chans
  BY DEF Typed, TableTyped, NetTyped
<1>2. MessageSlots(pend[n]) # {}
  BY DEF RecvPending
<1>3. i \in Slot /\ pend[n][i] \in Entry /\ pend[n][i].frame.type = "MESSAGE"
  BY <1>1, <1>2, TakenMessage
<1>4. BeginRecv(n, pend[n][i].from, pend[n][i].frame, [pend[n] EXCEPT ![i] = None], chan)
  BY DEF RecvPending
<1> HIDE DEF i
<1>5. [pend[n] EXCEPT ![i] = None] \in Table
  BY <1>1, <1>3, ClearType
<1>6. pend[n][i].from \in Node /\ pend[n][i].frame \in Frame
  BY <1>3 DEF Entry
<1> QED BY <1>1, <1>3, <1>4, <1>5, <1>6, BeginRecvType

LEMMA RecvMessageType ==
    ASSUME Typed, NEW n \in Node, NEW a \in Node, RecvMessage(n, a)
    PROVE  Typed'
<1>1. pend[n] \in Table /\ chan \in Chans
  BY DEF Typed, TableTyped, NetTyped
<1>2. Head(chan[<<a, n>>]) \in Frame /\ ReadFrom(a, n) \in Chans
  BY <1>1, ReadType DEF RecvMessage
<1> QED BY <1>1, <1>2, BeginRecvType DEF RecvMessage

LEMMA RecvControlType ==
    ASSUME Typed, NEW n \in Node, NEW a \in Node, RecvControl(n, a)
    PROVE  Typed'
<1>1. pend[n] \in Table /\ chan \in Chans
  BY DEF Typed, TableTyped, NetTyped
<1>2. Head(chan[<<a, n>>]) \in Frame /\ ReadFrom(a, n) \in Chans
  BY <1>1, ReadType DEF RecvControl
<1>3. PendingStore(pend[n], a, Head(chan[<<a, n>>])) \in Table
  BY <1>1, <1>2, StoreType
<1>4. NetTyped'
  BY <1>2 DEF RecvControl, Typed, NetTyped
<1>5. TableTyped'
  BY <1>3 DEF RecvControl, Typed, TableTyped
<1> QED BY <1>4, <1>5 DEF RecvControl, Typed, SendTyped, RecvTyped, OpTyped

LEMMA SkipMessageType ==
    ASSUME Typed, NEW n \in Node, SkipMessage(n)
    PROVE  Typed'
<1>1. pend[n] \in Table /\ chan \in Chans
  BY DEF Typed, TableTyped, NetTyped
<1>2. OpTyped'
  <2>1. Recv \in Op
    BY DEF Op
  <2> QED BY <2>1, OpStep DEF SkipMessage, Typed
<1>3. NetTyped' /\ TableTyped'
  <2>1. CASE /\ MessageSlots(pend[n]) # {}
             /\ pend' = [pend EXCEPT ![n][Min(MessageSlots(pend[n]))] = None]
             /\ chan' = chan
    <3> DEFINE i == Min(MessageSlots(pend[n]))
    <3>1. i \in Slot
      BY <1>1, <2>1, TakenMessage
    <3>2. pend' = [pend EXCEPT ![n] = [pend[n] EXCEPT ![i] = None]]
      BY <2>1 DEF Typed, TableTyped
    <3> HIDE DEF i
    <3>3. [pend[n] EXCEPT ![i] = None] \in Table
      BY <1>1, <3>1, ClearType
    <3> QED BY <2>1, <3>2, <3>3 DEF SkipMessage, Typed, NetTyped, TableTyped
  <2>2. CASE /\ \E a \in Node : Readable(a, n) /\ chan' = ReadFrom(a, n)
             /\ pend' = pend
    <3>1. PICK a \in Node : Readable(a, n) /\ chan' = ReadFrom(a, n)
      BY <2>2
    <3>2. chan' \in Chans
      BY <1>1, <3>1, ReadType
    <3> QED BY <2>2, <3>2 DEF SkipMessage, Typed, NetTyped, TableTyped
  <2> QED BY <2>1, <2>2 DEF SkipMessage
<1> QED BY <1>2, <1>3 DEF SkipMessage, Typed, SendTyped, RecvTyped

LEMMA NothingToReadType ==
    ASSUME Typed, NEW n \in Node, NothingToRead(n)
    PROVE  Typed'
<1>1. OpTyped'
  <2>1. Idle \in Op
    BY DEF Op
  <2> QED BY <2>1, OpStep DEF NothingToRead, Typed
<1> QED BY <1>1 DEF NothingToRead, Typed, NetTyped, TableTyped, SendTyped, RecvTyped

-----------------------------------------------------------------------------
(* wait_for_frame.                                                         *)

LEMMA WaitMatchType ==
    ASSUME Typed, NEW n \in Node, NEW a \in Node, WaitMatch(n, a)
    PROVE  Typed'
<1>1. chan \in Chans /\ RecvTyped /\ OpTyped
  BY DEF Typed, NetTyped
<1>2. ReadFrom(a, n) \in Chans
  BY <1>1, ReadType DEF WaitMatch
<1>3. CASE op[n].at = "waitAck"
  <2>1. FinishSend(n, ReadFrom(a, n)) /\ UNCHANGED sent
    BY <1>3 DEF WaitMatch
  <2> QED BY <1>2, <1>3, <2>1, WaitTypes, FinishSendType
<1>4. CASE op[n].at = "waitAckAck"
  <2>1. /\ FinishRecv(n, op[n]) /\ chan' = ReadFrom(a, n)
        /\ UNCHANGED <<pend, sbit, sent, outcome, losses, errors>>
    BY <1>4 DEF WaitMatch
  <2>2. RecvTyped' /\ OpTyped'
    BY <1>1, <1>4, <2>1, WaitTypes, FinishRecvType
  <2> QED BY <1>2, <2>1, <2>2 DEF Typed, NetTyped, TableTyped, SendTyped
<1> QED BY <1>3, <1>4 DEF WaitMatch

LEMMA WaitStoreType ==
    ASSUME Typed, NEW n \in Node, NEW a \in Node, WaitStore(n, a)
    PROVE  Typed'
<1> DEFINE f == Head(chan[<<a, n>>])
<1>1. pend[n] \in Table /\ chan \in Chans /\ losses \in Nat
  BY DEF Typed, TableTyped, NetTyped
<1>2. f \in Frame /\ ReadFrom(a, n) \in Chans
  BY <1>1, ReadType DEF WaitStore
<1>3. /\ pend' = [pend EXCEPT ![n] = PendingStore(@, a, f)]
      /\ \/ Transmit(n, a, Control("ACK", f.bit), 1, ReadFrom(a, n))
         \/ chan' = ReadFrom(a, n) /\ UNCHANGED losses
      /\ UNCHANGED <<sbit, ebit, op, sent, outcome, got, errors>>
  BY DEF WaitStore
<1> HIDE DEF f
<1>4. NetTyped'
  <2>1. Control("ACK", f.bit) \in Frame
    BY <1>2, MessageType, ControlType
  <2> QED BY <1>1, <1>2, <1>3, <2>1, TransmitType DEF NetTyped
<1>5. TableTyped'
  <2>1. PendingStore(pend[n], a, f) \in Table
    BY <1>1, <1>2, StoreType
  <2> QED BY <1>3, <2>1 DEF Typed, TableTyped
<1> QED BY <1>3, <1>4, <1>5 DEF Typed, SendTyped, RecvTyped, OpTyped

(* The attempts of a send are counted where they are limited.              *)
LEMMA SendTimeoutType ==
    ASSUME Typed, NEW n \in Node, op[n] \in SendOp, SendTimeout(n)
    PROVE  Typed'
<1> DEFINE x == op[n]
           k == IF x.limit = 0 THEN 0 ELSE x.tries + 1
<1>1. /\ x.peer \in Node /\ Message(x.bit, x.msg) \in Frame
      /\ [x EXCEPT !.tries = k] \in SendOp
  <2>1. k \in Nat
    BY DEF SendOp
  <2>2. x.peer \in Node /\ Message(x.bit, x.msg) \in Frame
    BY DEF SendOp, Message, Frame
  <2> HIDE DEF k
  <2> QED BY <2>1, <2>2 DEF SendOp
<1>2. NetTyped /\ SendTyped /\ OpTyped /\ Idle \in Op
  BY DEF Typed, Op
<1>3. /\ UNCHANGED <<pend, sbit, ebit, sent, got>>
      /\ \/ /\ op' = [op EXCEPT ![n] = [x EXCEPT !.tries = k]]
            /\ Transmit(n, x.peer, Message(x.bit, x.msg), 1, chan)
            /\ UNCHANGED <<outcome, errors>>
         \/ SendError(n) /\ UNCHANGED <<chan, losses>>
         \/ /\ op' = [op EXCEPT ![n] = Idle]
            /\ outcome' = [outcome EXCEPT ![n] = Append(@, "failed")]
            /\ UNCHANGED <<chan, losses, errors>>
  BY <1>2 DEF SendTimeout, OpTyped
<1> HIDE DEF x, k
<1>4. NetTyped'
  BY <1>1, <1>2, <1>3, TransmitType DEF NetTyped
<1>5. outcome' \in [Node -> Seq({"ok", "failed"})] /\ errors' \in Nat /\ OpTyped'
  <2>1. CASE /\ op' = [op EXCEPT ![n] = [x EXCEPT !.tries = k]]
             /\ UNCHANGED <<outcome, errors>>
    <3>1. [x EXCEPT !.tries = k] \in Op
      BY <1>1 DEF Op
    <3>2. OpTyped'
      BY <1>2, <2>1, <3>1, OpStep
    <3> QED BY <1>2, <2>1, <3>2 DEF SendTyped
  <2>2. CASE SendError(n)
    BY <2>2, SendErrorType
  <2>3. CASE /\ op' = [op EXCEPT ![n] = Idle]
             /\ outcome' = [outcome EXCEPT ![n] = Append(@, "failed")]
             /\ UNCHANGED errors
    <3>1. OpTyped'
      BY <1>2, <2>3, OpStep
    <3>2. "failed" \in {"ok", "failed"}
      OBVIOUS
    <3> QED BY <1>2, <2>3, <3>1, <3>2, AppendType DEF SendTyped
  <2> QED BY <1>3, <2>1, <2>2, <2>3
<1> QED BY <1>3, <1>4, <1>5 DEF Typed, TableTyped, SendTyped, RecvTyped

(* An ACK is repeated while attempts are left, at most Attempts - 1 times. *)
LEMMA RecvTimeoutType ==
    ASSUME Typed, NEW n \in Node, op[n] \in RecvOp, RecvTimeout(n)
    PROVE  Typed'
<1> DEFINE x == op[n]
           y == [x EXCEPT !.tries = x.tries + 1]
<1>1. NetTyped /\ RecvTyped /\ OpTyped
  BY DEF Typed
<1>2. NetTyped' /\ RecvTyped' /\ OpTyped'
  <2>1. CASE AttemptsLeft(x)
    <3>1. x.tries \in 0 .. Attempts - 1 /\ x.tries + 1 < Attempts
      BY <2>1 DEF RecvOp, AttemptsLeft
    <3>2. x.tries + 1 \in 0 .. Attempts - 1
      BY <3>1, RudpAssumption
    <3>3. y \in RecvOp
      BY <3>2 DEF RecvOp
    <3>4. x.peer \in Node /\ Control("ACK", x.bit) \in Frame
      BY ControlType DEF RecvOp
    <3>5. /\ op' = [op EXCEPT ![n] = y]
          /\ Transmit(n, x.peer, Control("ACK", x.bit), 1, chan)
          /\ UNCHANGED <<ebit, got>>
      BY <1>1, <2>1 DEF RecvTimeout, OpTyped
    <3>6. OpTyped'
      <4>1. y \in Op
        BY <3>3, Zenon DEF Op
      <4> HIDE DEF y
      <4> QED BY <1>1, <3>5, <4>1, OpStep
    <3>7. NetTyped'
      BY <1>1, <3>4, <3>5, TransmitType DEF NetTyped
    <3> QED BY <1>1, <3>5, <3>6, <3>7 DEF RecvTyped
  <2>2. CASE ~AttemptsLeft(x)
    <3>1. FinishRecv(n, x) /\ UNCHANGED <<chan, losses>>
      BY <2>2 DEF RecvTimeout
    <3>2. RecvTyped' /\ OpTyped'
      BY <1>1, <3>1, FinishRecvType
    <3> QED BY <1>1, <3>1, <3>2 DEF NetTyped
  <2> QED BY <2>1, <2>2
<1> QED BY <1>2 DEF RecvTimeout, Typed, TableTyped, SendTyped

LEMMA TimeoutType ==
    ASSUME Typed, NEW n \in Node, Timeout(n)
    PROVE  Typed'
BY WaitTypes, SendTimeoutType, RecvTimeoutType DEF Timeout

-----------------------------------------------------------------------------

LEMMA InitTyped == Init => Typed
<1> SUFFICES ASSUME Init PROVE Typed
  OBVIOUS
<1>1. NetTyped
  BY DEF Init, NetTyped, Chans
<1>2. TableTyped
  BY DEF Init, TableTyped, Table
<1>3. SendTyped /\ RecvTyped
  BY DEF Init, SendTyped, RecvTyped
<1>4. OpTyped
  BY DEF Init, OpTyped, Op
<1> QED BY <1>1, <1>2, <1>3, <1>4 DEF Typed

LEMMA NextTyped ==
    ASSUME Typed, [Next]_vars
    PROVE  Typed'
<1>1. ASSUME NEW n \in Node, StartSend(n) PROVE Typed'
  BY <1>1, StartSendType
<1>2. ASSUME NEW n \in Node, Receive(n) PROVE Typed'
  BY <1>2, RecvPendingType, RecvMessageType, RecvControlType, SkipMessageType,
     NothingToReadType DEF Receive
<1>3. ASSUME NEW n \in Node, Wait(n) PROVE Typed'
  BY <1>3, WaitMatchType, WaitStoreType DEF Wait
<1>4. ASSUME NEW n \in Node, Timeout(n) PROVE Typed'
  BY <1>4, TimeoutType
<1>5. CASE UNCHANGED vars
  BY <1>5 DEF vars, Typed, NetTyped, TableTyped, SendTyped, RecvTyped, OpTyped
<1> QED BY <1>1, <1>2, <1>3, <1>4, <1>5 DEF Next

LEMMA TypedAlways == Spec => []Typed
BY InitTyped, NextTyped, PTL DEF Spec

(* Every frame under way and every frame kept in pending_frames is one the *)
(* three calls of rudp.c build, a node is in its loop, in a send that      *)
(* waits for an ACK, or in a receive that waits for an ACK_ACK and has     *)
(* repeated its ACK less than MAX_TRANSMISION_ATTEMPTS times.              *)
THEOREM RudpTypeCorrect == Spec => []TypeOK
BY TypedAlways, TypedIsTypeOK, PTL

-----------------------------------------------------------------------------
(* The control frames among the pending ones.                              *)

Once(p) ==
    \A i, k \in Slot :
        p[i] # None /\ p[i].frame.type # "MESSAGE" /\ p[i] = p[k] => i = k

(* The frame that a node in the call o waits for.                          *)
Awaited(o, a, f) ==
    /\ a = o.peer
    /\ f = Control(IF o.at = "waitAck" THEN "ACK" ELSE "ACK_ACK", o.bit)

NoneAwaited(o, p) ==
    o.at \in {"waitAck", "waitAckAck"} =>
        \A i \in Slot : p[i] # None => ~Awaited(o, p[i].from, p[i].frame)

PendInv == \A n \in Node : Once(pend[n]) /\ NoneAwaited(op[n], pend[n])

LEMMA PendInvIsBoth == PendInv <=> ControlKeptOnce /\ AwaitedNotPending
BY DEF PendInv, Once, NoneAwaited, Awaited, ControlKeptOnce, AwaitedNotPending, Waiting, Expected

(* q is p without some of its frames.                                      *)
Part(q, p) == \A i \in Slot : q[i] = p[i] \/ q[i] = None

LEMMA PartOnce ==
    ASSUME NEW p, NEW q, Once(p), Part(q, p)
    PROVE  Once(q)
BY DEF Once, Part

LEMMA ClearPart ==
    ASSUME NEW p \in Table, NEW i
    PROVE  Part([p EXCEPT ![i] = None], p)
BY DEF Part, Table

(* A control frame is stored only if it is not there.                      *)
LEMMA StoreOnce ==
    ASSUME NEW p \in Table, Once(p), NEW a \in Node, NEW f \in Frame
    PROVE  Once(PendingStore(p, a, f))
<1> DEFINE e == [from |-> a, frame |-> f]
           j == Min({i \in Slot : p[i] = None})
           q == [p EXCEPT ![j] = e]
<1>1. CASE (f.type # "MESSAGE" /\ \E i \in Slot : p[i] = e) \/ Full(p)
  BY <1>1 DEF PendingStore
<1>2. CASE ~((f.type # "MESSAGE" /\ \E i \in Slot : p[i] = e) \/ Full(p))
  <2>1. PendingStore(p, a, f) = q
    BY <1>2 DEF PendingStore
  <2>2. e.frame.type = f.type
    OBVIOUS
  <2>3. \A i \in Slot : q[i] = IF i = j THEN e ELSE p[i]
    BY DEF Table
  <2> HIDE DEF e, j, q
  <2>4. ASSUME NEW i \in Slot, NEW k \in Slot, q[i] # None, q[i].frame.type # "MESSAGE",
               q[i] = q[k], i # k
        PROVE  FALSE
    <3>1. CASE i = j
      BY <1>2, <2>2, <2>3, <2>4, <3>1
    <3>2. CASE k = j
      BY <1>2, <2>2, <2>3, <2>4, <3>2
    <3>3. CASE i # j /\ k # j
      BY <2>3, <2>4, <3>3 DEF Once
    <3> QED BY <3>1, <3>2, <3>3
  <2> QED BY <2>1, <2>4 DEF Once
<1> QED BY <1>1, <1>2

(* What is stored while a node waits is not what it waits for.             *)
LEMMA StoreNoneAwaited ==
    ASSUME NEW p \in Table, NEW a \in Node, NEW f \in Frame, NEW o,
           NoneAwaited(o, p), ~Awaited(o, a, f)
    PROVE  NoneAwaited(o, PendingStore(p, a, f))
<1> DEFINE e == [from |-> a, frame |-> f]
           j == Min({i \in Slot : p[i] = None})
           q == [p EXCEPT ![j] = e]
<1>1. CASE PendingStore(p, a, f) = p
  BY <1>1
<1>2. CASE PendingStore(p, a, f) = q
  <2>1. e.from = a /\ e.frame = f
    OBVIOUS
  <2>2. \A i \in Slot : q[i] = IF i = j THEN e ELSE p[i]
    BY DEF Table
  <2> HIDE DEF e, j, q
  <2> QED BY <1>2, <2>1, <2>2 DEF NoneAwaited
<1> QED BY <1>1, <1>2 DEF PendingStore

(* A step of one node.                                                     *)
LEMMA OneNode ==
    ASSUME Typed, PendInv, NEW n \in Node, NEW o, NEW q,
           op' = [op EXCEPT ![n] = o], pend' = [pend EXCEPT ![n] = q],
           Once(q), NoneAwaited(o, q)
    PROVE  PendInv'
<1>1. \A k \in Node : /\ op'[k] = IF k = n THEN o ELSE op[k]
                      /\ pend'[k] = IF k = n THEN q ELSE pend[k]
  BY DEF Typed, OpTyped, TableTyped
<1>2. \A k \in Node : Once(pend'[k]) /\ NoneAwaited(op'[k], pend'[k])
  BY <1>1 DEF PendInv
<1> QED BY <1>2 DEF PendInv, Once, NoneAwaited, Awaited

(* In the loop nothing is awaited.                                         *)
LEMMA RestingStep ==
    ASSUME Typed, PendInv, NEW n \in Node, NEW o \in {Idle, Recv, Skip}, NEW q, Once(q),
           op' = [op EXCEPT ![n] = o], pend' = [pend EXCEPT ![n] = q]
    PROVE  PendInv'
<1>1. NoneAwaited(o, q)
  BY DEF NoneAwaited, Idle, Recv, Skip
<1> QED BY <1>1, OneNode

(* A node goes on waiting for the same frame.                              *)
LEMMA WaitingStep ==
    ASSUME Typed, PendInv, NEW n \in Node, NEW k, op' = [op EXCEPT ![n].tries = k],
           op[n] \in SendOp \cup RecvOp, pend' = pend
    PROVE  PendInv'
<1> DEFINE o == [op[n] EXCEPT !.tries = k]
<1>1. op' = [op EXCEPT ![n] = o] /\ pend' = [pend EXCEPT ![n] = pend[n]]
  BY DEF Typed, OpTyped, TableTyped
<1>2. o.at = op[n].at /\ o.peer = op[n].peer /\ o.bit = op[n].bit
  BY DEF SendOp, RecvOp
<1> HIDE DEF o
<1>3. Once(pend[n]) /\ NoneAwaited(o, pend[n])
  BY <1>2 DEF PendInv, NoneAwaited, Awaited
<1> QED BY <1>1, <1>3, OneNode

LEMMA SamePend ==
    ASSUME Typed, NEW n \in Node
    PROVE  pend = [pend EXCEPT ![n] = pend[n]] /\ op = [op EXCEPT ![n] = op[n]]
BY DEF Typed, TableTyped, OpTyped

-----------------------------------------------------------------------------
(* The steps.                                                              *)

LEMMA FinishRecvPend ==
    ASSUME Typed, PendInv, NEW n \in Node, NEW x, FinishRecv(n, x),
           NEW q, Once(q), pend' = [pend EXCEPT ![n] = q]
    PROVE  PendInv'
<1>1. op' = [op EXCEPT ![n] = Idle] \/ op' = [op EXCEPT ![n] = Skip]
  BY DEF FinishRecv
<1> QED BY <1>1, RestingStep

(* rudp_sendto_with_limits drops the ACKs and ACK_ACKs of the receiver.    *)
LEMMA StartSendPend ==
    ASSUME Typed, PendInv, NEW n \in Node, StartSend(n)
    PROVE  PendInv'
<1> DEFINE w == Work[n][sent[n] + 1]
           msg == <<n, sent[n] + 1>>
           bit == sbit[<<n, w.to>>]
           x == [at |-> "waitAck", peer |-> w.to, bit |-> bit, msg |-> msg,
                 limit |-> w.limit, tries |-> 0]
           q == PendingDrop(pend[n], w.to, {"ACK", "ACK_ACK"})
<1>1. pend' = [pend EXCEPT ![n] = q] /\ (op' = [op EXCEPT ![n] = x] \/ op' = [op EXCEPT ![n] = Idle])
  BY DEF StartSend, SendError
<1>2. Part(q, pend[n])
  BY DEF Part, PendingDrop
<1>3. Once(q)
  BY <1>2, PartOnce DEF PendInv
<1>4. NoneAwaited(x, q)
  <2>1. ASSUME NEW i \in Slot, q[i] # None
        PROVE  ~(q[i].from = w.to /\ q[i].frame.type \in {"ACK", "ACK_ACK"})
    BY <2>1 DEF PendingDrop
  <2>2. x.peer = w.to /\ x.at = "waitAck" /\ Control("ACK", x.bit).type = "ACK"
    BY DEF Control
  <2> HIDE DEF x, q, w
  <2> QED BY <2>1, <2>2 DEF NoneAwaited, Awaited
<1> HIDE DEF x, q
<1> QED BY <1>1, <1>3, <1>4, OneNode, RestingStep

(* wait_for_frame looks for the ACK_ACK in pending_frames first.           *)
LEMMA BeginRecvPend ==
    ASSUME Typed, PendInv, NEW n \in Node, NEW a \in Node, NEW f \in Frame,
           NEW p \in Table, Once(p), NEW c, BeginRecv(n, a, f, p, c)
    PROVE  PendInv'
<1> DEFINE x == Exchange(n, a, f)
           g == Control("ACK_ACK", f.bit)
           here == ControlSlots(p, a, g)
<1>1. CASE here # {}
  <2>1. Once([p EXCEPT ![Min(here)] = None])
    BY ClearPart, PartOnce
  <2>2. /\ pend' = [pend EXCEPT ![n] = [p EXCEPT ![Min(here)] = None]]
        /\ FinishRecv(n, x)
    BY <1>1 DEF BeginRecv, Exchange
  <2> HIDE DEF x, here
  <2> QED BY <2>1, <2>2, FinishRecvPend
<1>2. CASE here = {}
  <2>1. pend' = [pend EXCEPT ![n] = p] /\ op' = [op EXCEPT ![n] = x]
    BY <1>2 DEF BeginRecv, Exchange
  <2>2. x.at = "waitAckAck" /\ x.peer = a /\ x.bit = f.bit
    BY DEF Exchange
  <2>3. \A i \in Slot : p[i] # None => ~(p[i].from = a /\ p[i].frame = g)
    <3>1. ASSUME NEW i \in Slot, p[i] # None, p[i].from = a, p[i].frame = g
          PROVE  p[i] = [from |-> a, frame |-> g]
      BY <3>1 DEF Table, Entry
    <3> QED BY <1>2, <3>1 DEF ControlSlots
  <2> HIDE DEF x
  <2>4. NoneAwaited(x, p)
    BY <2>2, <2>3 DEF NoneAwaited, Awaited
  <2> QED BY <2>1, <2>4, OneNode
<1> QED BY <1>1, <1>2

LEMMA ReceivePend ==
    ASSUME Typed, PendInv, NEW n \in Node, Receive(n)
    PROVE  PendInv'
<1>1. pend[n] \in Table /\ chan \in Chans /\ Once(pend[n])
  BY DEF Typed, TableTyped, NetTyped, PendInv
<1>2. CASE RecvPending(n)
  <2> DEFINE i == Min(MessageSlots(pend[n]))
             p == [pend[n] EXCEPT ![i] = None]
  <2>1. BeginRecv(n, pend[n][i].from, pend[n][i].frame, p, chan)
    BY <1>2 DEF RecvPending
  <2>2. i \in Slot /\ pend[n][i] \in Entry
    BY <1>1, <1>2, TakenMessage DEF RecvPending
  <2> HIDE DEF i
  <2>3. p \in Table /\ Once(p)
    BY <1>1, <2>2, ClearType, ClearPart, PartOnce
  <2> HIDE DEF p
  <2>4. pend[n][i].from \in Node /\ pend[n][i].frame \in Frame
    BY <2>2 DEF Entry
  <2> QED BY <2>1, <2>3, <2>4, BeginRecvPend
<1>3. ASSUME NEW a \in Node, RecvMessage(n, a) PROVE PendInv'
  <2>1. Head(chan[<<a, n>>]) \in Frame
    BY <1>1, <1>3, ReadType DEF RecvMessage
  <2> QED BY <1>1, <1>3, <2>1, BeginRecvPend DEF RecvMessage
<1>4. ASSUME NEW a \in Node, RecvControl(n, a) PROVE PendInv'
  <2>1. Head(chan[<<a, n>>]) \in Frame
    BY <1>1, <1>4, ReadType DEF RecvControl
  <2>2. Once(PendingStore(pend[n], a, Head(chan[<<a, n>>])))
    BY <1>1, <2>1, StoreOnce
  <2>3. /\ pend' = [pend EXCEPT ![n] = PendingStore(pend[n], a, Head(chan[<<a, n>>]))]
        /\ op' = [op EXCEPT ![n] = op[n]] /\ op[n] \in {Idle, Recv, Skip}
    BY <1>4, SamePend DEF RecvControl
  <2> QED BY <2>2, <2>3, RestingStep
<1>5. CASE SkipMessage(n)
  <2>1. op' = [op EXCEPT ![n] = Recv]
    BY <1>5 DEF SkipMessage
  <2>2. CASE pend' = [pend EXCEPT ![n][Min(MessageSlots(pend[n]))] = None]
    <3> DEFINE i == Min(MessageSlots(pend[n]))
               q == [pend[n] EXCEPT ![i] = None]
    <3>1. pend' = [pend EXCEPT ![n] = q]
      BY <2>2 DEF Typed, TableTyped
    <3>2. Once(q)
      BY <1>1, ClearPart, PartOnce
    <3> HIDE DEF q
    <3> QED BY <2>1, <3>1, <3>2, RestingStep
  <2>3. CASE pend' = pend
    <3>1. pend' = [pend EXCEPT ![n] = pend[n]]
      BY <2>3, SamePend
    <3> QED BY <1>1, <2>1, <3>1, RestingStep
  <2> QED BY <1>5, <2>2, <2>3 DEF SkipMessage
<1>6. CASE NothingToRead(n)
  <2>1. op' = [op EXCEPT ![n] = Idle] /\ pend' = [pend EXCEPT ![n] = pend[n]]
    BY <1>6, SamePend DEF NothingToRead
  <2> QED BY <1>1, <2>1, RestingStep
<1> QED BY <1>2, <1>3, <1>4, <1>5, <1>6 DEF Receive

LEMMA WaitPend ==
    ASSUME Typed, PendInv, NEW n \in Node, Wait(n)
    PROVE  PendInv'
<1>1. pend[n] \in Table /\ chan \in Chans /\ Once(pend[n]) /\ NoneAwaited(op[n], pend[n])
  BY DEF Typed, TableTyped, NetTyped, PendInv
<1>2. ASSUME NEW a \in Node, WaitMatch(n, a) PROVE PendInv'
  <2>1. UNCHANGED pend
    BY <1>2 DEF WaitMatch, FinishSend
  <2>2. pend' = [pend EXCEPT ![n] = pend[n]]
    BY <2>1, SamePend
  <2>3. CASE FinishSend(n, ReadFrom(a, n))
    <3>1. op' = [op EXCEPT ![n] = Idle]
      BY <2>3 DEF FinishSend, SendError
    <3> QED BY <1>1, <2>2, <3>1, RestingStep
  <2>4. CASE FinishRecv(n, op[n])
    BY <1>1, <2>2, <2>4, FinishRecvPend
  <2> QED BY <1>2, <2>3, <2>4 DEF WaitMatch
<1>3. ASSUME NEW a \in Node, WaitStore(n, a) PROVE PendInv'
  <2> DEFINE f == Head(chan[<<a, n>>])
             q == PendingStore(pend[n], a, f)
  <2>1. f \in Frame
    BY <1>1, <1>3, ReadType DEF WaitStore
  <2>2. ~Awaited(op[n], a, f)
    BY <1>3 DEF WaitStore, Expected, Awaited
  <2>3. pend' = [pend EXCEPT ![n] = q] /\ op' = [op EXCEPT ![n] = op[n]]
    BY <1>3, SamePend DEF WaitStore
  <2> HIDE DEF f
  <2>4. Once(q) /\ NoneAwaited(op[n], q)
    BY <1>1, <2>1, <2>2, StoreOnce, StoreNoneAwaited
  <2> HIDE DEF q
  <2> QED BY <2>3, <2>4, OneNode
<1> QED BY <1>2, <1>3 DEF Wait

LEMMA TimeoutPend ==
    ASSUME Typed, PendInv, NEW n \in Node, Timeout(n)
    PROVE  PendInv'
<1>1. UNCHANGED pend /\ Once(pend[n])
  BY DEF Timeout, SendTimeout, RecvTimeout, PendInv
<1>2. pend' = [pend EXCEPT ![n] = pend[n]]
  BY <1>1, SamePend
<1>3. CASE op[n].at = "waitAck" /\ SendTimeout(n)
  <2> DEFINE k == IF op[n].limit = 0 THEN 0 ELSE op[n].tries + 1
  <2>1. \/ op' = [op EXCEPT ![n].tries = k]
        \/ op' = [op EXCEPT ![n] = Idle]
    BY <1>3 DEF SendTimeout, SendError, Typed, OpTyped
  <2>2. op[n] \in SendOp
    BY <1>3, WaitTypes
  <2> HIDE DEF k
  <2> QED BY <1>1, <1>2, <2>1, <2>2, RestingStep, WaitingStep
<1>4. CASE op[n].at = "waitAckAck" /\ RecvTimeout(n)
  <2>1. \/ op' = [op EXCEPT ![n].tries = op[n].tries + 1]
        \/ FinishRecv(n, op[n])
    BY <1>4 DEF RecvTimeout, Typed, OpTyped
  <2>2. op[n] \in RecvOp
    BY <1>4, WaitTypes
  <2> QED BY <1>1, <1>2, <2>1, <2>2, FinishRecvPend, WaitingStep
<1> QED BY <1>3, <1>4 DEF Timeout

LEMMA InitPend == Init => PendInv
<1> SUFFICES ASSUME Init PROVE PendInv
  OBVIOUS
<1>1. \A n \in Node : op[n] = Idle /\ \A i \in Slot : pend[n][i] = None
  BY DEF Init
<1> QED BY <1>1 DEF PendInv, Once, NoneAwaited, Idle

LEMMA NextPend ==
    ASSUME Typed, PendInv, [Next]_vars
    PROVE  PendInv'
<1>1. CASE Next
  BY <1>1, StartSendPend, ReceivePend, WaitPend, TimeoutPend DEF Next
<1>2. CASE UNCHANGED vars
  BY <1>2 DEF vars, PendInv, Once, NoneAwaited, Awaited
<1> QED BY <1>1, <1>2

LEMMA PendAlways == Spec => []PendInv
<1>1. Typed /\ PendInv /\ [Next]_vars => PendInv'
  BY NextPend
<1> QED BY <1>1, InitPend, TypedAlways, PTL DEF Spec

(* pending_store_frame and the repeated ACKs and ACK_ACKs: whatever is     *)
(* sent, repeated and lost, and however early timers run out, an array of  *)
(* any size has each control frame of a peer once.                         *)
THEOREM ControlAlwaysOnce == Spec => []ControlKeptOnce
BY PendAlways, PendInvIsBoth, PTL

(* wait_for_frame, pending_take_frame and the two calls of                 *)
(* pending_drop_peer_frames: no wait, the first or a repeated one, is for  *)
(* a frame that has been put aside already, and no ACK of an earlier       *)
(* exchange is kept for the message being sent.                            *)
THEOREM NothingAwaitedPending == Spec => []AwaitedNotPending
BY PendAlways, PendInvIsBoth, PTL

-----------------------------------------------------------------------------
(* The steps of a node and its channels.                                   *)

(* r is the queue q with frames of F after it.                             *)
Grows(q, r, F) ==
    /\ Len(q) <= Len(r)
    /\ \A i \in 1 .. Len(q) : r[i] = q[i]
    /\ \A i \in Len(q) + 1 .. Len(r) : r[i] \in F

(* r is the queue q without its first frame.                               *)
Drops(q, r) == q # << >> /\ r = Tail(q)

(* The channels d are c after n has sent frames of F to b.                 *)
SentTo(n, b, F, c, d) ==
    \A x, y \in Node :
        IF x = n /\ y = b THEN Grows(c[<<x, y>>], d[<<x, y>>], F)
                          ELSE d[<<x, y>>] = c[<<x, y>>]

(* The channels d are c after n has read a frame of a.                     *)
TakenFrom(a, n, c, d) ==
    \A x, y \in Node :
        IF x = a /\ y = n THEN Drops(c[<<x, y>>], d[<<x, y>>])
                          ELSE d[<<x, y>>] = c[<<x, y>>]

LEMMA TransmitSends ==
    ASSUME NEW n \in Node, NEW b \in Node, NEW f \in Frame, NEW copies \in Nat,
           NEW c \in Chans, Transmit(n, b, f, copies, c)
    PROVE  SentTo(n, b, {f}, c, chan')
<1>1. PICK k \in 0 .. copies : chan' = [c EXCEPT ![<<n, b>>] = @ \o [i \in 1 .. k |-> f]]
  BY DEF Transmit
<1> DEFINE q == c[<<n, b>>]
           w == [i \in 1 .. k |-> f]
<1>2. q \in Seq(Frame) /\ w \in Seq(Frame) /\ Len(w) = k /\ \A i \in 1 .. k : w[i] = f
  BY DEF Chans
<1> HIDE DEF w, q
<1>3. Grows(q, q \o w, {f})
  BY <1>2 DEF Grows
<1>4. ASSUME NEW x \in Node, NEW y \in Node
      PROVE  IF x = n /\ y = b THEN Grows(c[<<x, y>>], chan'[<<x, y>>], {f})
                               ELSE chan'[<<x, y>>] = c[<<x, y>>]
  <2>1. CASE x = n /\ y = b
    <3>1. chan'[<<x, y>>] = q \o w
      BY <1>1, <2>1 DEF Chans, q, w
    <3> QED BY <1>3, <2>1, <3>1 DEF q
  <2>2. CASE ~(x = n /\ y = b)
    BY <1>1, <2>2 DEF Chans
  <2> QED BY <2>1, <2>2
<1> QED BY <1>4 DEF SentTo

LEMMA ReadTakes ==
    ASSUME NEW a \in Node, NEW n \in Node, chan \in Chans, Readable(a, n)
    PROVE  TakenFrom(a, n, chan, ReadFrom(a, n))
BY DEF TakenFrom, Drops, Readable, ReadFrom, Chans

(* What a step of n leaves alone: the other nodes, the bits they keep and  *)
(* the channels between them.                                              *)
OthersSame(n) ==
    /\ \A k \in Node \ {n} : /\ op'[k] = op[k] /\ pend'[k] = pend[k] /\ sent'[k] = sent[k]
                             /\ outcome'[k] = outcome[k] /\ got'[k] = got[k]
    /\ \A x, y \in Node : /\ x # n => sbit'[<<x, y>>] = sbit[<<x, y>>]
                          /\ y # n => ebit'[<<x, y>>] = ebit[<<x, y>>]

LEMMA FinishRecvOthers ==
    ASSUME Typed, NEW n \in Node, NEW x \in RecvOp, FinishRecv(n, x),
           pend' = [pend EXCEPT ![n] = pend'[n]], UNCHANGED <<sbit, sent, outcome>>
    PROVE  OthersSame(n)
BY DEF FinishRecv, OthersSame, Typed, OpTyped, TableTyped, RecvTyped, RecvOp

LEMMA FinishSendOthers ==
    ASSUME Typed, NEW n \in Node, op[n] \in SendOp, NEW c, FinishSend(n, c), UNCHANGED sent
    PROVE  OthersSame(n)
BY DEF FinishSend, SendError, OthersSame, Typed, OpTyped, SendTyped, SendOp

LEMMA BeginRecvOthers ==
    ASSUME Typed, NEW n \in Node, NEW a \in Node, NEW f \in Frame, f.type = "MESSAGE",
           NEW p, NEW c, BeginRecv(n, a, f, p, c)
    PROVE  OthersSame(n)
<1>1. CASE pend' = [pend EXCEPT ![n] = p] /\ op' = [op EXCEPT ![n] = Exchange(n, a, f)]
           /\ UNCHANGED <<ebit, got>>
  BY <1>1 DEF BeginRecv, OthersSame, Typed, OpTyped, TableTyped
<1>2. CASE FinishRecv(n, Exchange(n, a, f))
  <2>1. PICK q : pend' = [pend EXCEPT ![n] = q]
    BY DEF BeginRecv
  <2>2. pend' = [pend EXCEPT ![n] = pend'[n]]
    BY <2>1 DEF Typed, TableTyped
  <2> QED BY <1>2, <2>2, ExchangeType, FinishRecvOthers DEF BeginRecv
<1> QED BY <1>1, <1>2 DEF BeginRecv, Exchange

LEMMA StepOthers ==
    ASSUME Typed, NEW n \in Node, StartSend(n) \/ Receive(n) \/ Wait(n) \/ Timeout(n)
    PROVE  OthersSame(n)
<1>1. CASE StartSend(n)
  BY <1>1 DEF StartSend, SendError, OthersSame, Typed, OpTyped, TableTyped, SendTyped
<1>2. CASE RecvPending(n)
  <2>1. LET i == Min(MessageSlots(pend[n]))
        IN  i \in Slot /\ pend[n][i] \in Entry /\ pend[n][i].frame.type = "MESSAGE"
    BY <1>2, TakenMessage DEF RecvPending, Typed, TableTyped
  <2> QED BY <1>2, <2>1, BeginRecvOthers DEF RecvPending, Entry
<1>3. ASSUME NEW a \in Node, RecvMessage(n, a) PROVE OthersSame(n)
  BY <1>3, ReadType, BeginRecvOthers DEF RecvMessage, Typed, NetTyped
<1>4. ASSUME NEW a \in Node, RecvControl(n, a) PROVE OthersSame(n)
  BY <1>4 DEF RecvControl, OthersSame, Typed, TableTyped
<1>5. CASE SkipMessage(n) \/ NothingToRead(n)
  BY <1>5 DEF SkipMessage, NothingToRead, OthersSame, Typed, OpTyped, TableTyped
<1>6. ASSUME NEW a \in Node, WaitMatch(n, a) PROVE OthersSame(n)
  <2>1. CASE op[n].at = "waitAck" /\ FinishSend(n, ReadFrom(a, n)) /\ UNCHANGED sent
    BY <2>1, WaitTypes, FinishSendOthers
  <2>2. CASE /\ op[n].at = "waitAckAck" /\ FinishRecv(n, op[n])
             /\ UNCHANGED <<pend, sbit, sent, outcome>>
    BY <2>2, WaitTypes, SamePend, FinishRecvOthers
  <2> QED BY <1>6, <2>1, <2>2 DEF WaitMatch
<1>7. ASSUME NEW a \in Node, WaitStore(n, a) PROVE OthersSame(n)
  BY <1>7 DEF WaitStore, OthersSame, Typed, TableTyped
<1>8. CASE op[n].at = "waitAck" /\ SendTimeout(n)
  BY <1>8 DEF SendTimeout, SendError, OthersSame, Typed, OpTyped, SendTyped
<1>9. CASE op[n].at = "waitAckAck" /\ RecvTimeout(n)
  <2>1. CASE AttemptsLeft(op[n])
    BY <1>9, <2>1 DEF RecvTimeout, OthersSame, Typed, OpTyped
  <2>2. CASE ~AttemptsLeft(op[n])
    BY <1>9, <2>2, WaitTypes, SamePend, FinishRecvOthers DEF RecvTimeout
  <2> QED BY <2>1, <2>2
<1> QED BY <1>1, <1>2, <1>3, <1>4, <1>5, <1>6, <1>7, <1>8, <1>9 DEF Receive, Wait, Timeout

-----------------------------------------------------------------------------
(* The sends of a node.                                                    *)

(* A node in a send is in the last one it has started, with the bit of its *)
(* peer; all the others have returned.                                     *)
Called(n) ==
    /\ sent[n] <= Len(Work[n])
    /\ op[n].at # "waitAck" => Len(outcome[n]) = sent[n]
    /\ op[n].at = "waitAck" =>
        /\ sent[n] > 0 /\ Len(outcome[n]) = sent[n] - 1
        /\ op[n].msg = <<n, sent[n]>> /\ op[n].peer = Work[n][sent[n]].to
        /\ op[n].peer # n /\ op[n].bit = sbit[<<n, op[n].peer>>]

CallInv == \A n \in Node : Called(n)

(* What a send has returned is not changed any more.                       *)
LEMMA AppendOutcome ==
    ASSUME SendTyped, NEW n \in Node, NEW v,
           outcome' = [outcome EXCEPT ![n] = Append(@, v)]
    PROVE  /\ Len(outcome'[n]) = Len(outcome[n]) + 1
           /\ \A i \in 1 .. Len(outcome[n]) : outcome'[n][i] = outcome[n][i]
           /\ outcome'[n][Len(outcome[n]) + 1] = v
<1>1. outcome'[n] = Append(outcome[n], v) /\ outcome[n] \in Seq({"ok", "failed"})
  BY DEF SendTyped
<1> QED BY <1>1

(* Returning from a send.                                                  *)
LEMMA ReturnCalled ==
    ASSUME Typed, NEW n \in Node, sent[n] <= Len(Work[n]), Len(outcome[n]) = sent[n] - 1,
           NEW v, outcome' = [outcome EXCEPT ![n] = Append(@, v)],
           op' = [op EXCEPT ![n] = Idle], sent'[n] = sent[n]
    PROVE  Called(n)'
<1>1. Len(outcome'[n]) = Len(outcome[n]) + 1
  BY AppendOutcome DEF Typed
<1>2. op'[n] = Idle /\ sent[n] \in Nat /\ Len(outcome[n]) \in Nat
  BY DEF Typed, OpTyped, SendTyped
<1> QED BY <1>1, <1>2 DEF Called, Idle

(* A step in which a node neither starts a send nor returns from one.      *)
LEMMA SameCalled ==
    ASSUME NEW n \in Node, Called(n), UNCHANGED <<sent, outcome, sbit>>,
           \/ op[n].at # "waitAck" /\ op'[n].at # "waitAck"
           \/ /\ op'[n].at = op[n].at /\ op'[n].msg = op[n].msg
              /\ op'[n].peer = op[n].peer /\ op'[n].bit = op[n].bit
    PROVE  Called(n)'
BY DEF Called

LEMMA StartSendCalled ==
    ASSUME Typed, NEW n \in Node, Called(n), StartSend(n)
    PROVE  Called(n)'
<1> DEFINE w == Work[n][sent[n] + 1]
           msg == <<n, sent[n] + 1>>
           bit == sbit[<<n, w.to>>]
           x == [at |-> "waitAck", peer |-> w.to, bit |-> bit, msg |-> msg,
                 limit |-> w.limit, tries |-> 0]
<1>1. /\ op[n] = Idle /\ sent[n] < Len(Work[n]) /\ sent' = [sent EXCEPT ![n] = @ + 1]
      /\ \/ op' = [op EXCEPT ![n] = x] /\ UNCHANGED outcome
         \/ /\ op' = [op EXCEPT ![n] = Idle]
            /\ outcome' = [outcome EXCEPT ![n] = Append(@, "failed")]
      /\ UNCHANGED sbit
  BY DEF StartSend, SendError
<1>2. /\ sent[n] \in Nat /\ sent'[n] = sent[n] + 1 /\ sent[n] + 1 <= Len(Work[n])
      /\ Len(outcome[n]) = sent[n] /\ w.to # n
  <2>1. sent[n] \in Nat /\ sent'[n] = sent[n] + 1
    BY <1>1 DEF Typed, SendTyped
  <2>2. sent[n] + 1 <= Len(Work[n]) /\ w.to # n
    <3>1. sent[n] + 1 \in 1 .. Len(Work[n]) /\ w.to \in Node \ {n}
      BY <1>1, NextSend, Zenon
    <3>2. Len(Work[n]) \in Nat
      BY RudpAssumption
    <3> HIDE DEF w
    <3> QED BY <3>1, <3>2
  <2>3. Len(outcome[n]) = sent[n]
    BY <1>1 DEF Called, Idle
  <2> QED BY <2>1, <2>2, <2>3
<1>3. CASE op' = [op EXCEPT ![n] = x] /\ UNCHANGED outcome
  <2>1. op'[n] = x
    BY <1>3 DEF Typed, OpTyped
  <2>2. /\ x.at = "waitAck" /\ x.msg = <<n, sent'[n]>> /\ x.peer = Work[n][sent'[n]].to
        /\ x.bit = sbit'[<<n, x.peer>>] /\ x.peer # n
    BY <1>1, <1>2
  <2> HIDE DEF x
  <2> QED BY <1>1, <1>2, <1>3, <2>1, <2>2 DEF Called
<1>4. CASE op' = [op EXCEPT ![n] = Idle] /\ outcome' = [outcome EXCEPT ![n] = Append(@, "failed")]
  <2>1. op'[n] = Idle /\ Len(outcome'[n]) = Len(outcome[n]) + 1
    BY <1>4, AppendOutcome DEF Typed, OpTyped
  <2> QED BY <1>1, <1>2, <2>1 DEF Called, Idle
<1> QED BY <1>1, <1>3, <1>4

LEMMA FinishSendCalled ==
    ASSUME Typed, NEW n \in Node, Called(n), op[n].at = "waitAck", NEW c, FinishSend(n, c),
           UNCHANGED sent
    PROVE  Called(n)'
<1>1. \E v : op' = [op EXCEPT ![n] = Idle] /\ outcome' = [outcome EXCEPT ![n] = Append(@, v)]
  BY DEF FinishSend, SendError
<1>2. sent[n] <= Len(Work[n]) /\ Len(outcome[n]) = sent[n] - 1 /\ sent'[n] = sent[n]
  BY DEF Called
<1> QED BY <1>1, <1>2, ReturnCalled

LEMMA SendTimeoutCalled ==
    ASSUME Typed, NEW n \in Node, Called(n), op[n].at = "waitAck", SendTimeout(n)
    PROVE  Called(n)'
<1>1. CASE UNCHANGED outcome
  <2>1. PICK k : op' = [op EXCEPT ![n].tries = k]
    BY <1>1, AppendOutcome DEF SendTimeout, SendError, Typed
  <2>2. /\ op'[n].at = op[n].at /\ op'[n].msg = op[n].msg
        /\ op'[n].peer = op[n].peer /\ op'[n].bit = op[n].bit
    BY <2>1, WaitTypes DEF Typed, OpTyped, SendOp
  <2> QED BY <1>1, <2>2, SameCalled DEF SendTimeout
<1>2. CASE ~UNCHANGED outcome
  <2>1. \E v : op' = [op EXCEPT ![n] = Idle] /\ outcome' = [outcome EXCEPT ![n] = Append(@, v)]
    BY <1>2 DEF SendTimeout, SendError
  <2>2. sent[n] <= Len(Work[n]) /\ Len(outcome[n]) = sent[n] - 1 /\ sent'[n] = sent[n]
    BY DEF Called, SendTimeout
  <2> QED BY <2>1, <2>2, ReturnCalled
<1> QED BY <1>1, <1>2

LEMMA ReceiveWhere ==
    ASSUME NEW n, Receive(n)
    PROVE  op[n] \in {Idle, Recv, Skip}
BY DEF Receive, RecvPending, RecvMessage, RecvControl, SkipMessage, NothingToRead

(* A receive neither starts a send nor returns from one.                   *)
LEMMA ReceiveRests ==
    ASSUME Typed, NEW n \in Node, Receive(n)
    PROVE  /\ UNCHANGED <<sent, outcome, sbit>>
           /\ op[n].at # "waitAck" /\ op'[n].at # "waitAck"
<1>1. UNCHANGED <<sent, outcome, sbit>>
  BY DEF Receive, RecvPending, RecvMessage, RecvControl, SkipMessage, NothingToRead, BeginRecv
<1>2. op[n].at # "waitAck"
  BY ReceiveWhere DEF Idle, Recv, Skip
<1>3. op'[n].at # "waitAck"
  <2>1. ASSUME NEW a, NEW f, NEW p, NEW c, BeginRecv(n, a, f, p, c) PROVE op'[n].at # "waitAck"
    BY <2>1 DEF BeginRecv, FinishRecv, Typed, OpTyped, Idle, Skip
  <2>2. CASE UNCHANGED op
    BY <1>2, <2>2
  <2>3. CASE SkipMessage(n) \/ NothingToRead(n)
    BY <2>3 DEF SkipMessage, NothingToRead, Typed, OpTyped, Idle, Recv
  <2> QED BY <2>1, <2>2, <2>3 DEF Receive, RecvPending, RecvMessage, RecvControl
<1> QED BY <1>1, <1>2, <1>3

LEMMA ReceiveCalled ==
    ASSUME Typed, NEW n \in Node, Called(n), Receive(n)
    PROVE  Called(n)'
BY ReceiveRests, SameCalled

LEMMA WaitCalled ==
    ASSUME Typed, NEW n \in Node, Called(n), Wait(n) \/ Timeout(n)
    PROVE  Called(n)'
<1>1. ASSUME NEW x, FinishRecv(n, x), op[n].at = "waitAckAck", UNCHANGED <<sent, outcome, sbit>>
      PROVE  Called(n)'
  <2>1. op'[n].at # "waitAck"
    BY <1>1 DEF FinishRecv, Typed, OpTyped, Idle, Skip
  <2> QED BY <1>1, <2>1, SameCalled
<1>2. ASSUME NEW a \in Node, WaitMatch(n, a) PROVE Called(n)'
  BY <1>1, <1>2, FinishSendCalled DEF WaitMatch
<1>3. ASSUME NEW a \in Node, WaitStore(n, a) PROVE Called(n)'
  BY <1>3, SameCalled DEF WaitStore
<1>4. CASE op[n].at = "waitAck" /\ SendTimeout(n)
  BY <1>4, SendTimeoutCalled
<1>5. CASE op[n].at = "waitAckAck" /\ RecvTimeout(n)
  <2>1. CASE AttemptsLeft(op[n])
    <3>1. op'[n].at = op[n].at
      BY <1>5, <2>1, WaitTypes DEF RecvTimeout, Typed, OpTyped, RecvOp
    <3> QED BY <1>5, <2>1, <3>1, SameCalled DEF RecvTimeout
  <2>2. CASE ~AttemptsLeft(op[n])
    BY <1>1, <1>5, <2>2 DEF RecvTimeout
  <2> QED BY <2>1, <2>2
<1> QED BY <1>2, <1>3, <1>4, <1>5 DEF Wait, Timeout

LEMMA OthersCalled ==
    ASSUME Typed, NEW n \in Node, OthersSame(n), NEW k \in Node \ {n}, Called(k)
    PROVE  Called(k)'
<1>1. op'[k] = op[k] /\ sent'[k] = sent[k] /\ outcome'[k] = outcome[k]
  BY DEF OthersSame
<1>2. op[k].at = "waitAck" => sbit'[<<k, op[k].peer>>] = sbit[<<k, op[k].peer>>]
  BY WaitTypes DEF OthersSame, SendOp
<1> QED BY <1>1, <1>2 DEF Called

LEMMA NextCall ==
    ASSUME Typed, CallInv, [Next]_vars
    PROVE  CallInv'
<1>1. ASSUME NEW n \in Node, StartSend(n) \/ Receive(n) \/ Wait(n) \/ Timeout(n)
      PROVE  CallInv'
  <2>1. Called(n)'
    BY <1>1, StartSendCalled, ReceiveCalled, WaitCalled DEF CallInv
  <2>2. OthersSame(n)
    BY <1>1, StepOthers
  <2>3. \A k \in Node : Called(k)'
    BY <2>1, <2>2, OthersCalled DEF CallInv
  <2> QED BY <2>3 DEF CallInv
<1>2. CASE UNCHANGED vars
  BY <1>2 DEF vars, CallInv, Called
<1> QED BY <1>1, <1>2 DEF Next

LEMMA InitCall == Init => CallInv
<1> SUFFICES ASSUME Init PROVE CallInv
  OBVIOUS
<1>1. ASSUME NEW n \in Node PROVE Called(n)
  <2>1. Work[n] \in Seq([to : Node \ {n}, limit : Nat])
    BY RudpAssumption
  <2> QED BY <2>1 DEF Init, Called, Idle
<1> QED BY <1>1 DEF CallInv

LEMMA CallAlways == Spec => []CallInv
BY InitCall, NextCall, TypedAlways, PTL DEF Spec

-----------------------------------------------------------------------------
(* Where a message comes from.                                             *)

(* No node has a channel to itself, and a message is from its sender.      *)
ChanLabels(c) ==
    \A x, y \in Node : \A i \in 1 .. Len(c[<<x, y>>]) :
        x # y /\ (c[<<x, y>>][i].type = "MESSAGE" => c[<<x, y>>][i].msg[1] = x)

PendLabels(n, p) ==
    \A i \in Slot : p[i] # None =>
        p[i].from # n /\ (p[i].frame.type = "MESSAGE" => p[i].frame.msg[1] = p[i].from)

OpLabels(n, o) == o.at = "waitAckAck" => o.peer # n /\ o.msg[1] = o.peer

GotLabels(n, g) == \A i \in 1 .. Len(g) : g[i][1] # n

NodeLabels(n) == PendLabels(n, pend[n]) /\ OpLabels(n, op[n]) /\ GotLabels(n, got[n])

LabelInv == ChanLabels(chan) /\ \A n \in Node : NodeLabels(n)

LEMMA TakenLabels ==
    ASSUME NEW c \in Chans, ChanLabels(c), NEW a \in Node, NEW n \in Node, NEW d \in Chans,
           TakenFrom(a, n, c, d)
    PROVE  ChanLabels(d)
<1>1. ASSUME NEW x \in Node, NEW y \in Node, NEW i \in 1 .. Len(d[<<x, y>>])
      PROVE  /\ x # y
             /\ d[<<x, y>>][i].type = "MESSAGE" => d[<<x, y>>][i].msg[1] = x
  <2>0. c[<<x, y>>] \in Seq(Frame)
    BY DEF Chans
  <2>1. CASE d[<<x, y>>] = c[<<x, y>>]
    BY <1>1, <2>1 DEF ChanLabels
  <2>2. CASE Drops(c[<<x, y>>], d[<<x, y>>])
    <3>1. i + 1 \in 1 .. Len(c[<<x, y>>]) /\ d[<<x, y>>][i] = c[<<x, y>>][i + 1]
      BY <2>0, <2>2 DEF Drops
    <3> QED BY <3>1 DEF ChanLabels
  <2> QED BY <2>1, <2>2 DEF TakenFrom
<1> QED BY <1>1 DEF ChanLabels

LEMMA SentLabels ==
    ASSUME NEW c \in Chans, ChanLabels(c), NEW n \in Node, NEW b \in Node \ {n}, NEW F,
           NEW d \in Chans, SentTo(n, b, F, c, d),
           \A f \in F : f.type = "MESSAGE" => f.msg[1] = n
    PROVE  ChanLabels(d)
<1>1. ASSUME NEW x \in Node, NEW y \in Node, NEW i \in 1 .. Len(d[<<x, y>>])
      PROVE  /\ x # y
             /\ d[<<x, y>>][i].type = "MESSAGE" => d[<<x, y>>][i].msg[1] = x
  <2>0. c[<<x, y>>] \in Seq(Frame) /\ d[<<x, y>>] \in Seq(Frame)
    BY DEF Chans
  <2>1. CASE d[<<x, y>>] = c[<<x, y>>]
    BY <1>1, <2>1 DEF ChanLabels
  <2>2. CASE x = n /\ y = b /\ Grows(c[<<x, y>>], d[<<x, y>>], F)
    <3>1. CASE i \in 1 .. Len(c[<<x, y>>])
      <4>1. d[<<x, y>>][i] = c[<<x, y>>][i]
        BY <2>2, <3>1 DEF Grows
      <4> QED BY <3>1, <4>1 DEF ChanLabels
    <3>2. CASE i \in Len(c[<<x, y>>]) + 1 .. Len(d[<<x, y>>])
      BY <2>2, <3>2 DEF Grows
    <3>3. i \in 1 .. Len(c[<<x, y>>]) \/ i \in Len(c[<<x, y>>]) + 1 .. Len(d[<<x, y>>])
      BY <2>0
    <3> QED BY <3>1, <3>2, <3>3
  <2> QED BY <2>1, <2>2 DEF SentTo
<1> QED BY <1>1 DEF ChanLabels

(* What is read is from the peer.                                          *)
LEMMA ReadLabels ==
    ASSUME chan \in Chans, ChanLabels(chan), NEW a \in Node, NEW n \in Node, Readable(a, n)
    PROVE  /\ a # n /\ ChanLabels(ReadFrom(a, n))
           /\ Head(chan[<<a, n>>]).type = "MESSAGE" => Head(chan[<<a, n>>]).msg[1] = a
<1>1. chan[<<a, n>>] \in Seq(Frame) /\ chan[<<a, n>>] # << >>
  BY DEF Chans, Readable
<1>2. 1 \in 1 .. Len(chan[<<a, n>>]) /\ Head(chan[<<a, n>>]) = chan[<<a, n>>][1]
  BY <1>1
<1>3. ReadFrom(a, n) \in Chans /\ TakenFrom(a, n, chan, ReadFrom(a, n))
  BY ReadType, ReadTakes
<1> QED BY <1>2, <1>3, TakenLabels DEF ChanLabels

(* What pending_store leaves in the array.                                 *)
LEMMA StoreSlots ==
    ASSUME NEW p \in Table, NEW a \in Node, NEW f \in Frame
    PROVE  LET q == PendingStore(p, a, f)
               e == [from |-> a, frame |-> f]
           IN  /\ \A i \in Slot : q[i] = p[i] \/ (p[i] = None /\ q[i] = e)
               /\ f.type = "MESSAGE" =>
                    IF Full(p) THEN q = p ELSE \E i \in Slot : p[i] = None /\ q[i] = e
<1> DEFINE e == [from |-> a, frame |-> f]
           free == {i \in Slot : p[i] = None}
           j == Min(free)
<1>1. CASE free = {}
  BY <1>1 DEF PendingStore, Full
<1>2. CASE free # {}
  <2>1. j \in free
    BY <1>2, MinSlot
  <2>2. \A i \in Slot : [p EXCEPT ![j] = e][i] = IF i = j THEN e ELSE p[i]
    BY DEF Table
  <2>3. PendingStore(p, a, f) \in {p, [p EXCEPT ![j] = e]}
    BY DEF PendingStore
  <2>4. f.type = "MESSAGE" => PendingStore(p, a, f) = [p EXCEPT ![j] = e]
    BY <1>2 DEF PendingStore, Full
  <2>5. j \in Slot /\ p[j] = None /\ ~Full(p)
    BY <2>1 DEF Full
  <2> HIDE DEF j, e, free
  <2> QED BY <2>2, <2>3, <2>4, <2>5 DEF e
<1> QED BY <1>1, <1>2

LEMMA StoreLabels ==
    ASSUME NEW n \in Node, NEW p \in Table, PendLabels(n, p), NEW a \in Node \ {n},
           NEW f \in Frame, f.type = "MESSAGE" => f.msg[1] = a
    PROVE  PendLabels(n, PendingStore(p, a, f))
<1> DEFINE q == PendingStore(p, a, f)
           e == [from |-> a, frame |-> f]
<1>1. \A i \in Slot : q[i] = p[i] \/ q[i] = e
  BY StoreSlots
<1>2. e.from = a /\ e.frame = f
  OBVIOUS
<1> HIDE DEF q, e
<1>3. PendLabels(n, q)
  BY <1>1, <1>2 DEF PendLabels
<1> QED BY <1>3 DEF q

LEMMA PartLabels ==
    ASSUME NEW n, NEW p, NEW q, PendLabels(n, p), Part(q, p)
    PROVE  PendLabels(n, q)
BY DEF PendLabels, Part

LEMMA ChanTyped ==
    ASSUME Typed
    PROVE  chan \in Chans /\ \A n \in Node : pend[n] \in Table
BY DEF Typed, NetTyped, TableTyped

LEMMA FinishRecvLabels ==
    ASSUME Typed, NEW n \in Node, OpLabels(n, op[n]), GotLabels(n, got[n]), NEW x \in RecvOp,
           OpLabels(n, x), FinishRecv(n, x)
    PROVE  OpLabels(n, op'[n]) /\ GotLabels(n, got'[n])
<1>1. OpLabels(n, op'[n])
  BY DEF FinishRecv, Typed, OpTyped, OpLabels, Idle, Skip
<1>2. x.peer # n /\ x.msg[1] = x.peer
  BY DEF OpLabels, RecvOp
<1>3. CASE got' = [got EXCEPT ![n] = Append(@, x.msg)]
  <2>1. got'[n] = Append(got[n], x.msg) /\ got[n] \in Seq(Msg)
    BY <1>3 DEF Typed, RecvTyped
  <2>2. GotLabels(n, got'[n])
    BY <1>2, <2>1 DEF GotLabels
  <2> QED BY <1>1, <2>2
<1>4. CASE UNCHANGED got
  BY <1>1, <1>4
<1> QED BY <1>3, <1>4 DEF FinishRecv

LEMMA LabelsNext ==
    ASSUME NEW n \in Node, PendLabels(n, pend'[n]), OpLabels(n, op'[n]), GotLabels(n, got'[n])
    PROVE  NodeLabels(n)'
BY DEF NodeLabels, PendLabels, OpLabels, GotLabels

LEMMA BeginRecvLabels ==
    ASSUME Typed, NEW n \in Node, NodeLabels(n), NEW a \in Node \ {n}, NEW f \in Frame,
           f.type = "MESSAGE", f.msg[1] = a, NEW p \in Table, PendLabels(n, p),
           NEW c \in Chans, ChanLabels(c), BeginRecv(n, a, f, p, c), chan' \in Chans
    PROVE  ChanLabels(chan') /\ NodeLabels(n)'
<1> DEFINE x == Exchange(n, a, f)
           here == ControlSlots(p, a, Control("ACK_ACK", f.bit))
<1>1. ChanLabels(chan')
  <2>1. Control("ACK", f.bit) \in Frame
    BY MessageType, ControlType
  <2>2. SentTo(n, a, {Control("ACK", f.bit)}, c, chan')
    BY <2>1, TransmitSends DEF BeginRecv
  <2> QED BY <2>2, SentLabels DEF Control
<1>2. x \in RecvOp /\ OpLabels(n, x)
  BY ExchangeType DEF OpLabels, Exchange
<1>3. /\ \/ /\ pend' = [pend EXCEPT ![n] = [p EXCEPT ![Min(here)] = None]]
            /\ FinishRecv(n, x)
         \/ /\ pend' = [pend EXCEPT ![n] = p]
            /\ op' = [op EXCEPT ![n] = x]
            /\ UNCHANGED got
  BY DEF BeginRecv, Exchange
<1> HIDE DEF x, here
<1>4. CASE pend' = [pend EXCEPT ![n] = [p EXCEPT ![Min(here)] = None]] /\ FinishRecv(n, x)
  <2>1. OpLabels(n, op'[n]) /\ GotLabels(n, got'[n])
    BY <1>2, <1>4, FinishRecvLabels DEF NodeLabels
  <2>2. PendLabels(n, [p EXCEPT ![Min(here)] = None])
    BY ClearPart, PartLabels
  <2>3. pend'[n] = [p EXCEPT ![Min(here)] = None]
    BY <1>4 DEF Typed, TableTyped
  <2> QED BY <1>1, <2>1, <2>2, <2>3, LabelsNext
<1>5. CASE pend' = [pend EXCEPT ![n] = p] /\ op' = [op EXCEPT ![n] = x] /\ UNCHANGED got
  <2>1. pend'[n] = p /\ op'[n] = x /\ got'[n] = got[n]
    BY <1>5 DEF Typed, TableTyped, OpTyped
  <2> QED BY <1>1, <1>2, <2>1, LabelsNext DEF NodeLabels
<1> QED BY <1>3, <1>4, <1>5

LEMMA StartSendLabels ==
    ASSUME Typed, Typed', LabelInv, NEW n \in Node, StartSend(n)
    PROVE  ChanLabels(chan') /\ NodeLabels(n)'
<1> DEFINE w == Work[n][sent[n] + 1]
           f == Message(sbit[<<n, w.to>>], <<n, sent[n] + 1>>)
           q == PendingDrop(pend[n], w.to, {"ACK", "ACK_ACK"})
<1>1. w.to \in Node \ {n} /\ <<n, sent[n] + 1>> \in Msg
  BY NextSend DEF StartSend
<1>2. f \in Frame /\ f.msg[1] = n
  BY <1>1 DEF Message, Frame, Typed, SendTyped
<1>3. ChanLabels(chan')
  <2>1. Transmit(n, w.to, f, 1, chan) \/ chan' = chan
    BY DEF StartSend
  <2> HIDE DEF w, f
  <2>2. CASE Transmit(n, w.to, f, 1, chan)
    <3>1. SentTo(n, w.to, {f}, chan, chan')
      BY <1>1, <1>2, <2>2, ChanTyped, TransmitSends
    <3>2. chan \in Chans /\ chan' \in Chans /\ ChanLabels(chan)
      BY DEF Typed, NetTyped, LabelInv
    <3> QED BY <1>1, <1>2, <3>1, <3>2, SentLabels
  <2> QED BY <2>1, <2>2 DEF LabelInv
<1>4. PendLabels(n, pend'[n])
  <2>1. pend'[n] = q
    BY DEF StartSend, Typed, TableTyped
  <2>2. Part(q, pend[n])
    BY DEF Part, PendingDrop
  <2> QED BY <2>1, <2>2, PartLabels DEF LabelInv, NodeLabels
<1>5. op'[n].at # "waitAckAck" /\ got'[n] = got[n]
  BY DEF StartSend, SendError, Typed, OpTyped, Idle
<1>6. OpLabels(n, op'[n]) /\ GotLabels(n, got'[n])
  BY <1>5 DEF LabelInv, NodeLabels, OpLabels
<1> QED BY <1>3, <1>4, <1>6, LabelsNext

LEMMA ReceiveLabels ==
    ASSUME Typed, Typed', LabelInv, NEW n \in Node, Receive(n)
    PROVE  ChanLabels(chan') /\ NodeLabels(n)'
<1>1. /\ pend[n] \in Table /\ chan \in Chans /\ chan' \in Chans /\ ChanLabels(chan)
      /\ NodeLabels(n) /\ PendLabels(n, pend[n]) /\ GotLabels(n, got[n])
  BY DEF Typed, TableTyped, NetTyped, LabelInv, NodeLabels
<1>2. CASE RecvPending(n)
  <2> DEFINE i == Min(MessageSlots(pend[n]))
             p == [pend[n] EXCEPT ![i] = None]
  <2>1. BeginRecv(n, pend[n][i].from, pend[n][i].frame, p, chan)
    BY <1>2 DEF RecvPending
  <2>2. i \in Slot /\ pend[n][i] \in Entry /\ pend[n][i].frame.type = "MESSAGE"
    BY <1>1, <1>2, TakenMessage DEF RecvPending
  <2> HIDE DEF i
  <2>3. p \in Table /\ PendLabels(n, p)
    BY <1>1, <2>2, ClearType, ClearPart, PartLabels
  <2>4. /\ pend[n][i].from \in Node \ {n} /\ pend[n][i].frame \in Frame
        /\ pend[n][i].frame.msg[1] = pend[n][i].from
    <3>1. pend[n][i] # None
      BY <2>2, RudpAssumption DEF Entry
    <3> QED BY <1>1, <2>2, <3>1 DEF Entry, PendLabels
  <2> HIDE DEF p
  <2> QED BY <1>1, <2>1, <2>2, <2>3, <2>4, BeginRecvLabels
<1>3. ASSUME NEW a \in Node, Readable(a, n), Head(chan[<<a, n>>]).type = "MESSAGE",
             BeginRecv(n, a, Head(chan[<<a, n>>]), pend[n], ReadFrom(a, n))
      PROVE  ChanLabels(chan') /\ NodeLabels(n)'
  <2>1. Head(chan[<<a, n>>]) \in Frame /\ ReadFrom(a, n) \in Chans
    BY <1>1, <1>3, ReadType
  <2>2. a # n /\ ChanLabels(ReadFrom(a, n)) /\ Head(chan[<<a, n>>]).msg[1] = a
    BY <1>1, <1>3, ReadLabels
  <2> QED BY <1>1, <1>3, <2>1, <2>2, BeginRecvLabels
<1>4. ASSUME NEW a \in Node, RecvControl(n, a)
      PROVE  ChanLabels(chan') /\ NodeLabels(n)'
  <2>1. Head(chan[<<a, n>>]) \in Frame
    BY <1>1, <1>4, ReadType DEF RecvControl
  <2>2. /\ a # n /\ ChanLabels(ReadFrom(a, n)) /\ chan' = ReadFrom(a, n)
        /\ Head(chan[<<a, n>>]).type # "MESSAGE"
    BY <1>1, <1>4, ReadLabels DEF RecvControl
  <2>3. PendLabels(n, PendingStore(pend[n], a, Head(chan[<<a, n>>])))
    BY <1>1, <2>1, <2>2, StoreLabels
  <2>4. PendLabels(n, pend'[n])
    BY <1>4, <2>3 DEF RecvControl, Typed, TableTyped
  <2>5. OpLabels(n, op'[n]) /\ GotLabels(n, got'[n])
    BY <1>1, <1>4 DEF RecvControl, NodeLabels
  <2> QED BY <2>2, <2>4, <2>5, LabelsNext
<1>5. CASE SkipMessage(n) \/ NothingToRead(n)
  <2>1. ChanLabels(chan')
    BY <1>1, <1>5, ReadLabels DEF SkipMessage, NothingToRead
  <2>2. Part(pend'[n], pend[n])
    BY <1>1, <1>5 DEF SkipMessage, NothingToRead, Typed, TableTyped, Table, Part
  <2>3. PendLabels(n, pend'[n])
    BY <1>1, <2>2, PartLabels
  <2>4. OpLabels(n, op'[n]) /\ GotLabels(n, got'[n])
    BY <1>1, <1>5 DEF SkipMessage, NothingToRead, Typed, OpTyped, OpLabels, Idle, Recv
  <2> QED BY <2>1, <2>3, <2>4, LabelsNext
<1> QED BY <1>2, <1>3, <1>4, <1>5 DEF Receive, RecvMessage

(* A step of n that may give it another call but leaves the rest.          *)
LEMMA SameLabels ==
    ASSUME NEW n \in Node, NodeLabels(n), pend'[n] = pend[n], got'[n] = got[n],
           OpLabels(n, op'[n])
    PROVE  NodeLabels(n)'
BY LabelsNext DEF NodeLabels

LEMMA FinishSendLabels ==
    ASSUME Typed, Typed', LabelInv, NEW n \in Node, op[n] \in SendOp, NEW c \in Chans,
           ChanLabels(c), op[n].peer # n, FinishSend(n, c)
    PROVE  ChanLabels(chan') /\ NodeLabels(n)'
<1>1. op[n].peer \in Node \ {n} /\ Control("ACK_ACK", op[n].bit) \in Frame
  BY ControlType DEF SendOp
<1>2. PICK k \in Nat : Transmit(n, op[n].peer, Control("ACK_ACK", op[n].bit), k, c)
  <2>1. Attempts \in Nat /\ \A k \in 0 .. Attempts - 1 : k \in Nat
    BY RudpAssumption
  <2> QED BY <2>1 DEF FinishSend
<1>3. ChanLabels(chan')
  <2>1. SentTo(n, op[n].peer, {Control("ACK_ACK", op[n].bit)}, c, chan')
    BY <1>1, <1>2, TransmitSends
  <2>2. chan' \in Chans
    BY DEF Typed, NetTyped
  <2> QED BY <1>1, <2>1, <2>2, SentLabels DEF Control
<1>4. op'[n] = Idle /\ UNCHANGED <<pend, got>>
  BY DEF FinishSend, SendError, Typed, OpTyped
<1>5. NodeLabels(n)'
  BY <1>4, SameLabels DEF LabelInv, OpLabels, Idle
<1> QED BY <1>3, <1>5

LEMMA WaitLabels ==
    ASSUME Typed, Typed', LabelInv, CallInv, NEW n \in Node, Wait(n)
    PROVE  ChanLabels(chan') /\ NodeLabels(n)'
<1>1. /\ pend[n] \in Table /\ chan \in Chans /\ chan' \in Chans /\ ChanLabels(chan)
      /\ NodeLabels(n) /\ PendLabels(n, pend[n]) /\ GotLabels(n, got[n]) /\ OpLabels(n, op[n])
  BY DEF Typed, TableTyped, NetTyped, LabelInv, NodeLabels
<1>2. ASSUME NEW a \in Node, Readable(a, n), op[n].at = "waitAck", FinishSend(n, ReadFrom(a, n))
      PROVE  ChanLabels(chan') /\ NodeLabels(n)'
  <2>1. op[n] \in SendOp /\ ReadFrom(a, n) \in Chans /\ ChanLabels(ReadFrom(a, n))
    BY <1>1, <1>2, WaitTypes, ReadType, ReadLabels
  <2>2. op[n].peer # n
    BY <1>2 DEF CallInv, Called
  <2> QED BY <1>2, <2>1, <2>2, FinishSendLabels
<1>3. ASSUME NEW a \in Node, Readable(a, n), op[n].at = "waitAckAck", FinishRecv(n, op[n]),
             chan' = ReadFrom(a, n), UNCHANGED pend
      PROVE  ChanLabels(chan') /\ NodeLabels(n)'
  <2>1. ChanLabels(chan')
    BY <1>1, <1>3, ReadLabels
  <2>2. OpLabels(n, op'[n]) /\ GotLabels(n, got'[n])
    BY <1>1, <1>3, WaitTypes, FinishRecvLabels
  <2> QED BY <1>1, <1>3, <2>1, <2>2, LabelsNext
<1>4. ASSUME NEW a \in Node, WaitStore(n, a)
      PROVE  ChanLabels(chan') /\ NodeLabels(n)'
  <2> DEFINE f == Head(chan[<<a, n>>])
  <2>1. f \in Frame /\ ReadFrom(a, n) \in Chans
    BY <1>1, <1>4, ReadType DEF WaitStore
  <2>2. a # n /\ ChanLabels(ReadFrom(a, n)) /\ (f.type = "MESSAGE" => f.msg[1] = a)
    BY <1>1, <1>4, ReadLabels DEF WaitStore
  <2>3. PendLabels(n, PendingStore(pend[n], a, f))
    BY <1>1, <2>1, <2>2, StoreLabels
  <2>4. PendLabels(n, pend'[n]) /\ OpLabels(n, op'[n]) /\ GotLabels(n, got'[n])
    BY <1>1, <1>4, <2>3 DEF WaitStore, Typed, TableTyped
  <2>5. \/ Transmit(n, a, Control("ACK", f.bit), 1, ReadFrom(a, n))
        \/ chan' = ReadFrom(a, n)
    BY <1>4 DEF WaitStore
  <2>6. Control("ACK", f.bit) \in Frame
    BY <2>1, MessageType, ControlType
  <2> HIDE DEF f
  <2>7. CASE Transmit(n, a, Control("ACK", f.bit), 1, ReadFrom(a, n))
    <3>1. SentTo(n, a, {Control("ACK", f.bit)}, ReadFrom(a, n), chan')
      BY <2>1, <2>6, <2>7, TransmitSends
    <3>2. ChanLabels(chan')
      BY <1>1, <2>1, <2>2, <3>1, SentLabels DEF Control
    <3> QED BY <2>4, <3>2, LabelsNext
  <2> QED BY <2>2, <2>4, <2>5, <2>7, LabelsNext
<1> QED BY <1>2, <1>3, <1>4 DEF Wait, WaitMatch

LEMMA TimeoutLabels ==
    ASSUME Typed, Typed', LabelInv, CallInv, NEW n \in Node, Timeout(n)
    PROVE  ChanLabels(chan') /\ NodeLabels(n)'
<1>1. /\ chan \in Chans /\ chan' \in Chans /\ ChanLabels(chan)
      /\ NodeLabels(n) /\ GotLabels(n, got[n]) /\ OpLabels(n, op[n])
  BY DEF Typed, NetTyped, LabelInv, NodeLabels
<1>2. CASE op[n].at = "waitAck" /\ SendTimeout(n)
  <2> DEFINE f == Message(op[n].bit, op[n].msg)
  <2>1. op[n] \in SendOp
    BY <1>2, WaitTypes
  <2>2. /\ op[n].peer \in Node \ {n} /\ f \in Frame /\ f.msg[1] = n
    <3>1. op[n].peer # n /\ op[n].msg = <<n, sent[n]>>
      BY <1>2 DEF CallInv, Called
    <3>2. op[n].peer \in Node /\ op[n].bit \in 0 .. 1 /\ op[n].msg \in Msg
      BY <2>1 DEF SendOp
    <3> QED BY <3>1, <3>2 DEF Message, Frame
  <2>3. Transmit(n, op[n].peer, f, 1, chan) \/ chan' = chan
    BY <1>2 DEF SendTimeout
  <2> HIDE DEF f
  <2>4. ASSUME Transmit(n, op[n].peer, f, 1, chan) PROVE ChanLabels(chan')
    <3>1. SentTo(n, op[n].peer, {f}, chan, chan')
      BY <1>1, <2>2, <2>4, TransmitSends
    <3> QED BY <1>1, <2>2, <3>1, SentLabels
  <2>5. UNCHANGED <<pend, got>> /\ OpLabels(n, op'[n])
    <3>1. op'[n].at \in {"waitAck", "idle"}
      BY <1>2, <2>1 DEF SendTimeout, SendError, Typed, OpTyped, SendOp, Idle
    <3> QED BY <1>2, <3>1 DEF SendTimeout, OpLabels
  <2>6. NodeLabels(n)'
    BY <1>1, <2>5, SameLabels
  <2>7. ChanLabels(chan')
    BY <1>1, <2>3, <2>4
  <2> QED BY <2>6, <2>7
<1>3. CASE op[n].at = "waitAckAck" /\ RecvTimeout(n)
  <2>1. op[n] \in RecvOp
    BY <1>3, WaitTypes
  <2>2. CASE AttemptsLeft(op[n])
    <3>1. op[n].peer \in Node \ {n} /\ Control("ACK", op[n].bit) \in Frame
      BY <1>1, <1>3, <2>1, ControlType DEF RecvOp, OpLabels
    <3>2. Transmit(n, op[n].peer, Control("ACK", op[n].bit), 1, chan)
      BY <1>3, <2>2 DEF RecvTimeout
    <3>3. SentTo(n, op[n].peer, {Control("ACK", op[n].bit)}, chan, chan')
      BY <1>1, <3>1, <3>2, TransmitSends
    <3>4. ChanLabels(chan')
      BY <1>1, <3>1, <3>3, SentLabels DEF Control
    <3>5. op'[n].peer = op[n].peer /\ op'[n].msg = op[n].msg
      BY <1>3, <2>1, <2>2 DEF RecvTimeout, Typed, OpTyped, RecvOp
    <3>6. UNCHANGED <<pend, got>> /\ OpLabels(n, op'[n])
      BY <1>1, <1>3, <2>2, <3>5 DEF RecvTimeout, OpLabels
    <3> QED BY <1>1, <3>4, <3>6, SameLabels
  <2>3. CASE ~AttemptsLeft(op[n])
    <3>1. FinishRecv(n, op[n]) /\ UNCHANGED <<chan, pend>>
      BY <1>3, <2>3 DEF RecvTimeout
    <3>2. OpLabels(n, op'[n]) /\ GotLabels(n, got'[n])
      BY <1>1, <2>1, <3>1, FinishRecvLabels
    <3>3. PendLabels(n, pend'[n])
      BY <1>1, <3>1 DEF NodeLabels
    <3> QED BY <1>1, <3>1, <3>2, <3>3, LabelsNext
  <2> QED BY <2>2, <2>3
<1> QED BY <1>2, <1>3 DEF Timeout

LEMMA NextLabel ==
    ASSUME Typed, Typed', CallInv, LabelInv, [Next]_vars
    PROVE  LabelInv'
<1>1. ASSUME NEW n \in Node, StartSend(n) \/ Receive(n) \/ Wait(n) \/ Timeout(n)
      PROVE  LabelInv'
  <2>1. ChanLabels(chan') /\ NodeLabels(n)'
    BY <1>1, StartSendLabels, ReceiveLabels, WaitLabels, TimeoutLabels
  <2>2. OthersSame(n)
    BY <1>1, StepOthers
  <2>3. ASSUME NEW k \in Node \ {n} PROVE NodeLabels(k)'
    BY <2>2, <2>3 DEF LabelInv, OthersSame, NodeLabels, PendLabels, OpLabels, GotLabels
  <2> QED BY <2>1, <2>3 DEF LabelInv, ChanLabels
<1>2. CASE UNCHANGED vars
  BY <1>2 DEF vars, LabelInv, ChanLabels, NodeLabels, PendLabels, OpLabels, GotLabels
<1> QED BY <1>1, <1>2 DEF Next

LEMMA InitLabel == Init => LabelInv
<1> SUFFICES ASSUME Init PROVE LabelInv
  OBVIOUS
<1>1. ChanLabels(chan)
  BY DEF Init, ChanLabels
<1>2. \A n \in Node : NodeLabels(n)
  BY DEF Init, NodeLabels, PendLabels, OpLabels, GotLabels, Idle
<1> QED BY <1>1, <1>2 DEF LabelInv

LEMMA LabelAlways == Spec => []LabelInv
BY InitLabel, NextLabel, TypedAlways, CallAlways, PTL DEF Spec

-----------------------------------------------------------------------------
(* One direction between two nodes: a sends messages to b.                 *)

Messages == [type : {"MESSAGE"}, bit : 0 .. 1, msg : Msg]

Plain == {f \in Frame : f.type # "MESSAGE"}

NoAcks == {f \in Frame : f.type # "ACK"}

Ack(bit) == Control("ACK", bit)

(* The message a is sending to b.                                          *)
Sending(a, b) ==
    IF op[a].at = "waitAck" /\ op[a].peer = b THEN {Message(op[a].bit, op[a].msg)} ELSE {}

(* Those of a's sends to b that returned 0.                                *)
Confirmed(a, b) == {i \in 1 .. Len(outcome[a]) : outcome[a][i] = "ok" /\ Work[a][i].to = b}

(* The messages of a among the pending frames p, and the one of them that  *)
(* is taken next; the message of a that a node in the call o has in hand,  *)
(* and whether it is a new one.                                            *)
SlotsOf(p, a) == {i \in MessageSlots(p) : p[i].from = a}

Kept(p, a) == {p[i].frame : i \in SlotsOf(p, a)}

First(p, a) == {p[i].frame : i \in {j \in SlotsOf(p, a) : j = Min(MessageSlots(p))}}

InHand(o, a) ==
    IF o.at = "waitAckAck" /\ o.peer = a THEN {Message(o.bit, o.msg)} ELSE {}

Fresh(o, a) == {f \in InHand(o, a) : o.new}

(* What the two nodes know of the direction from a to b.                   *)
Link(a, b) ==
    [c |-> chan[<<a, b>>], k |-> chan[<<b, a>>],
     cur |-> Sending(a, b), s |-> sbit[<<a, b>>], n |-> sent[a], ok |-> Confirmed(a, b),
     kept |-> Kept(pend[b], a), first |-> First(pend[b], a),
     hand |-> InHand(op[b], a), fresh |-> Fresh(op[b], a),
     e |-> ebit[<<a, b>>], got |-> got[b], at |-> op[b].at]

LinkTyped(l) ==
    /\ l.c \in Seq(Frame) /\ l.k \in Seq(Frame)
    /\ l.cur \subseteq Messages /\ l.s \in 0 .. 1 /\ l.n \in Nat /\ l.ok \subseteq Nat
    /\ l.kept \subseteq Messages /\ l.first \subseteq l.kept
    /\ l.hand \subseteq Messages /\ l.fresh \subseteq l.hand
    /\ l.e \in 0 .. 1 /\ l.got \in Seq(Msg)

SameSource(l, m) == m.cur = l.cur /\ m.s = l.s /\ m.n = l.n /\ m.ok = l.ok

SameTarget(l, m) ==
    /\ m.kept = l.kept /\ m.first = l.first /\ m.hand = l.hand /\ m.fresh = l.fresh
    /\ m.e = l.e /\ m.got = l.got /\ m.at = l.at

(* The steps of the sender: one that may repeat the message, give it up or *)
(* send to somebody else; the start of a send to b; and its success.       *)
SourceQuiet(l, m) ==
    /\ m.cur \subseteq l.cur /\ m.s = l.s /\ m.ok = l.ok
    /\ m.n = l.n \/ (l.cur = {} /\ m.n = l.n + 1)
    /\ Grows(l.c, m.c, Plain \cup l.cur)
    /\ m.k = l.k \/ Drops(l.k, m.k)

SourceStart(a, b, l, m) ==
    LET f == Message(l.s, <<a, l.n + 1>>)
    IN  /\ l.cur = {} /\ l.n < Len(Work[a]) /\ Work[a][l.n + 1].to = b
        /\ m.cur \subseteq {f} /\ m.n = l.n + 1 /\ m.s = l.s /\ m.ok = l.ok
        /\ Grows(l.c, m.c, {f}) /\ m.k = l.k

SourceOk(l, m) ==
    /\ l.cur # {} /\ m.cur = {} /\ m.n = l.n
    /\ m.s = 1 - l.s /\ m.ok = l.ok \cup {l.n}
    /\ Grows(l.c, m.c, Plain)
    /\ Drops(l.k, m.k) /\ Head(l.k) = Ack(l.s)

(* The steps of the receiver: one that may repeat the ACK, handle another  *)
(* sender or send itself; a message put aside; the beginning of an         *)
(* exchange and its end.                                                   *)
TargetQuiet(a, l, m) ==
    /\ m.hand = l.hand /\ m.fresh = l.fresh /\ m.e = l.e
    /\ m.kept = l.kept
       \/ (l.at = "skip" /\ m.kept \subseteq l.kept /\ l.kept \ l.first \subseteq m.kept)
    /\ m.got = l.got \/ \E g \in Msg : g[1] # a /\ m.got = Append(l.got, g)
    /\ m.c = l.c \/ Drops(l.c, m.c)
    /\ Grows(l.k, m.k, NoAcks \cup {Ack(f.bit) : f \in l.hand})

TargetStore(l, m) ==
    LET f == Head(l.c)
    IN  /\ Drops(l.c, m.c) /\ f.type = "MESSAGE" /\ m.kept = l.kept \cup {f}
        /\ m.hand = l.hand /\ m.fresh = l.fresh /\ m.e = l.e /\ m.got = l.got
        /\ Grows(l.k, m.k, {Ack(f.bit)})

TargetBegin(l, m) ==
    \E f \in Messages :
        /\ l.hand = {}
        /\ \/ Drops(l.c, m.c) /\ f = Head(l.c) /\ l.kept = {} /\ m.kept = {}
           \/ /\ f \in l.first /\ l.at \in {"idle", "recv"} /\ m.c = l.c
              /\ m.kept \subseteq l.kept /\ l.kept \ {f} \subseteq m.kept
        /\ m.hand = {f} /\ m.fresh = {g \in {f} : g.bit = l.e}
        /\ m.e = l.e /\ m.got = l.got
        /\ Grows(l.k, m.k, {Ack(f.bit)})

TargetEnd(l, m) ==
    \E f \in Messages :
        /\ l.hand = {f} /\ m.hand = {} /\ m.fresh = {} /\ m.kept = l.kept
        /\ m.c = l.c \/ Drops(l.c, m.c)
        /\ m.k = l.k
        /\ IF f \in l.fresh THEN m.e = 1 - l.e /\ m.got = Append(l.got, f.msg)
                            ELSE m.e = l.e /\ m.got = l.got

SourceStep(a, b, l, m) ==
    SameTarget(l, m) /\ (SourceQuiet(l, m) \/ SourceStart(a, b, l, m) \/ SourceOk(l, m))

TargetStep(a, l, m) ==
    /\ SameSource(l, m)
    /\ \/ TargetQuiet(a, l, m) \/ TargetStore(l, m) \/ TargetBegin(l, m) \/ TargetEnd(l, m)
       \/ \E h : /\ LinkTyped(h) /\ SameSource(l, h) /\ TargetBegin(l, h)
                 /\ SameSource(h, m) /\ TargetEnd(h, m)

LEMMA IsMessage ==
    ASSUME NEW f
    PROVE  f \in Messages <=> f \in Frame /\ f.type = "MESSAGE"
BY DEF Messages, Frame

LEMMA KeptType ==
    ASSUME NEW p \in Table, NEW a
    PROVE  Kept(p, a) \subseteq Messages /\ First(p, a) \subseteq Kept(p, a)
<1>1. ASSUME NEW i \in SlotsOf(p, a) PROVE p[i].frame \in Messages
  <2>1. i \in Slot /\ p[i] \in Entry /\ p[i].frame.type = "MESSAGE"
    BY DEF SlotsOf, MessageSlots, Table
  <2> QED BY <2>1, IsMessage DEF Entry
<1> QED BY <1>1 DEF Kept, First

LEMMA LinkType ==
    ASSUME Typed, NEW a \in Node, NEW b \in Node
    PROVE  LinkTyped(Link(a, b))
<1>1. Sending(a, b) \subseteq Messages
  BY WaitTypes DEF Sending, SendOp, Message, Messages
<1>2. InHand(op[b], a) \subseteq Messages /\ Fresh(op[b], a) \subseteq InHand(op[b], a)
  BY WaitTypes DEF InHand, Fresh, RecvOp, Message, Messages
<1>3. Confirmed(a, b) \subseteq Nat
  BY DEF Confirmed
<1>4. /\ chan[<<a, b>>] \in Seq(Frame) /\ chan[<<b, a>>] \in Seq(Frame)
      /\ sbit[<<a, b>>] \in 0 .. 1 /\ ebit[<<a, b>>] \in 0 .. 1 /\ sent[a] \in Nat
      /\ got[b] \in Seq(Msg)
  BY DEF Typed, NetTyped, Chans, SendTyped, RecvTyped
<1> QED BY <1>1, <1>2, <1>3, <1>4, KeptType, ChanTyped DEF LinkTyped, Link

(* What a step of n does to its channels: it reads at most one frame, then *)
(* sends frames of F to at most one node.                                  *)
NetStep(n, F) ==
    \E c \in Chans :
        /\ c = chan \/ \E x \in Node : TakenFrom(x, n, chan, c)
        /\ chan' = c \/ \E y \in Node : SentTo(n, y, F, c, chan')

LEMMA GrowsNot ==
    ASSUME NEW q, Len(q) \in Int, NEW F
    PROVE  Grows(q, q, F)
BY DEF Grows

LEMMA NetSource ==
    ASSUME Typed, NEW n \in Node, NEW F, NetStep(n, F), NEW b \in Node \ {n}
    PROVE  /\ Grows(chan[<<n, b>>], chan'[<<n, b>>], F)
           /\ chan'[<<b, n>>] = chan[<<b, n>>] \/ Drops(chan[<<b, n>>], chan'[<<b, n>>])
<1>1. PICK c \in Chans :
        /\ c = chan \/ \E x \in Node : TakenFrom(x, n, chan, c)
        /\ chan' = c \/ \E y \in Node : SentTo(n, y, F, c, chan')
  BY DEF NetStep
<1>2. c[<<n, b>>] = chan[<<n, b>>]
  BY <1>1 DEF TakenFrom
<1>3. c[<<b, n>>] = chan[<<b, n>>] \/ Drops(chan[<<b, n>>], c[<<b, n>>])
  BY <1>1 DEF TakenFrom
<1>4. chan'[<<b, n>>] = c[<<b, n>>]
  BY <1>1 DEF SentTo
<1>5. Len(c[<<n, b>>]) \in Int
  BY DEF Chans
<1>6. Grows(c[<<n, b>>], chan'[<<n, b>>], F)
  BY <1>1, <1>5, GrowsNot DEF SentTo
<1>7. Grows(chan[<<n, b>>], chan'[<<n, b>>], F)
  BY <1>2, <1>6, Zenon
<1>8. chan'[<<b, n>>] = chan[<<b, n>>] \/ Drops(chan[<<b, n>>], chan'[<<b, n>>])
  BY <1>3, <1>4, Zenon
<1> QED BY <1>7, <1>8, Zenon

LEMMA SourceElsewhere ==
    ASSUME Typed, NEW n \in Node, OthersSame(n), NEW a \in Node \ {n}, NEW b \in Node
    PROVE  SameSource(Link(a, b), Link(a, b)')
<1>1. op'[a] = op[a] /\ sent'[a] = sent[a] /\ outcome'[a] = outcome[a]
      /\ sbit'[<<a, b>>] = sbit[<<a, b>>]
  BY DEF OthersSame
<1> QED BY <1>1 DEF SameSource, Link, Sending, Confirmed

LEMMA TargetElsewhere ==
    ASSUME Typed, NEW n \in Node, OthersSame(n), NEW a \in Node, NEW b \in Node \ {n}
    PROVE  SameTarget(Link(a, b), Link(a, b)')
<1>1. op'[b] = op[b] /\ pend'[b] = pend[b] /\ got'[b] = got[b]
      /\ ebit'[<<a, b>>] = ebit[<<a, b>>]
  BY DEF OthersSame
<1> QED BY <1>1 DEF SameTarget, Link

-----------------------------------------------------------------------------
(* The sender's steps.                                                     *)

LEMMA GrowsMore ==
    ASSUME NEW q, NEW r, NEW F, NEW G, Grows(q, r, F), F \subseteq G
    PROVE  Grows(q, r, G)
BY DEF Grows

(* A step of n that is not one of its sends, or gives its send up.         *)
LEMMA SourceRests ==
    ASSUME NEW n \in Node, NEW b \in Node,
           Grows(chan[<<n, b>>], chan'[<<n, b>>], Plain \cup Sending(n, b)),
           chan'[<<b, n>>] = chan[<<b, n>>] \/ Drops(chan[<<b, n>>], chan'[<<b, n>>]),
           UNCHANGED <<sent, sbit>>, Confirmed(n, b)' = Confirmed(n, b),
           Sending(n, b)' \subseteq Sending(n, b)
    PROVE  SourceQuiet(Link(n, b), Link(n, b)')
BY DEF SourceQuiet, Link

LEMMA PlainRests ==
    ASSUME Typed, NEW n \in Node, NEW b \in Node \ {n}, NetStep(n, Plain),
           UNCHANGED <<sent, sbit>>, Confirmed(n, b)' = Confirmed(n, b),
           Sending(n, b)' \subseteq Sending(n, b)
    PROVE  SourceQuiet(Link(n, b), Link(n, b)')
<1>1. Grows(chan[<<n, b>>], chan'[<<n, b>>], Plain \cup Sending(n, b))
  BY NetSource, GrowsMore
<1>2. chan'[<<b, n>>] = chan[<<b, n>>] \/ Drops(chan[<<b, n>>], chan'[<<b, n>>])
  BY NetSource
<1> QED BY <1>1, <1>2, SourceRests

LEMMA AckIsPlain ==
    ASSUME NEW bit \in 0 .. 1
    PROVE  Ack(bit) \in Plain /\ Control("ACK_ACK", bit) \in Plain
BY DEF Ack, Control, Plain, Frame

(* Sending frames of F, after a read or without one.                       *)
LEMMA SendNet ==
    ASSUME Typed', NEW n \in Node, NEW y \in Node, NEW F, NEW f \in Frame, f \in F,
           NEW copies \in Nat, NEW c \in Chans, Transmit(n, y, f, copies, c),
           c = chan \/ \E x \in Node : TakenFrom(x, n, chan, c)
    PROVE  NetStep(n, F)
<1>1. SentTo(n, y, {f}, c, chan')
  BY TransmitSends
<1>2. SentTo(n, y, F, c, chan')
  <2>1. ASSUME NEW u \in Node, NEW v \in Node
        PROVE  IF u = n /\ v = y THEN Grows(c[<<u, v>>], chan'[<<u, v>>], F)
                                 ELSE chan'[<<u, v>>] = c[<<u, v>>]
    BY <1>1, GrowsMore DEF SentTo
  <2> QED BY <2>1 DEF SentTo
<1> QED BY <1>2 DEF NetStep

LEMMA ReadNet ==
    ASSUME Typed, NEW n \in Node, NEW x \in Node, NEW F, Readable(x, n),
           chan' = ReadFrom(x, n)
    PROVE  NetStep(n, F)
BY ReadTakes, ReadType, ChanTyped DEF NetStep

LEMMA SameNet ==
    ASSUME Typed, NEW n \in Node, NEW F, UNCHANGED chan
    PROVE  NetStep(n, F)
BY ChanTyped DEF NetStep

LEMMA BeginRecvNet ==
    ASSUME Typed', NEW n \in Node, NEW a \in Node, NEW f \in Frame, NEW p, NEW c \in Chans,
           BeginRecv(n, a, f, p, c), c = chan \/ \E x \in Node : TakenFrom(x, n, chan, c)
    PROVE  NetStep(n, Plain)
<1>1. Control("ACK", f.bit) \in Plain /\ Control("ACK", f.bit) \in Frame
  BY MessageType, AckIsPlain, ControlType DEF Ack
<1> QED BY <1>1, SendNet DEF BeginRecv

LEMMA ReceiveNet ==
    ASSUME Typed, Typed', NEW n \in Node, Receive(n)
    PROVE  NetStep(n, Plain)
<1>1. CASE RecvPending(n)
  <2> DEFINE i == Min(MessageSlots(pend[n]))
  <2>1. BeginRecv(n, pend[n][i].from, pend[n][i].frame, [pend[n] EXCEPT ![i] = None], chan)
    BY <1>1 DEF RecvPending
  <2>2. pend[n][i] \in Entry
    BY <1>1, TakenMessage, ChanTyped DEF RecvPending
  <2> HIDE DEF i
  <2>3. pend[n][i].from \in Node /\ pend[n][i].frame \in Frame
    BY <2>2 DEF Entry
  <2> QED BY <2>1, <2>3, BeginRecvNet, ChanTyped
<1>2. ASSUME NEW a \in Node, RecvMessage(n, a) PROVE NetStep(n, Plain)
  <2>1. /\ Head(chan[<<a, n>>]) \in Frame /\ ReadFrom(a, n) \in Chans
        /\ TakenFrom(a, n, chan, ReadFrom(a, n))
    BY <1>2, ReadType, ReadTakes, ChanTyped DEF RecvMessage
  <2> QED BY <1>2, <2>1, BeginRecvNet DEF RecvMessage
<1>3. ASSUME NEW a \in Node, RecvControl(n, a) PROVE NetStep(n, Plain)
  BY <1>3, ReadNet DEF RecvControl
<1>4. CASE SkipMessage(n) \/ NothingToRead(n)
  BY <1>4, ReadNet, SameNet DEF SkipMessage, NothingToRead
<1> QED BY <1>1, <1>2, <1>3, <1>4 DEF Receive

LEMMA WaitStoreNet ==
    ASSUME Typed, Typed', NEW n \in Node, NEW a \in Node, WaitStore(n, a)
    PROVE  NetStep(n, Plain)
<1> DEFINE f == Head(chan[<<a, n>>])
<1>1. f \in Frame /\ ReadFrom(a, n) \in Chans /\ TakenFrom(a, n, chan, ReadFrom(a, n))
  BY ReadType, ReadTakes, ChanTyped DEF WaitStore
<1>2. Control("ACK", f.bit) \in Plain /\ Control("ACK", f.bit) \in Frame
  BY <1>1, MessageType, AckIsPlain, ControlType DEF Ack
<1>3. \/ Transmit(n, a, Control("ACK", f.bit), 1, ReadFrom(a, n))
      \/ chan' = ReadFrom(a, n)
  BY DEF WaitStore
<1> HIDE DEF f
<1>4. Readable(a, n)
  BY DEF WaitStore
<1> QED BY <1>1, <1>2, <1>3, <1>4, SendNet, ReadNet

LEMMA ConfirmedAppend ==
    ASSUME SendTyped, NEW n \in Node, NEW b, NEW v,
           outcome' = [outcome EXCEPT ![n] = Append(@, v)]
    PROVE  Confirmed(n, b)' =
             IF v = "ok" /\ Work[n][Len(outcome[n]) + 1].to = b
             THEN Confirmed(n, b) \cup {Len(outcome[n]) + 1} ELSE Confirmed(n, b)
<1>1. /\ Len(outcome'[n]) = Len(outcome[n]) + 1 /\ Len(outcome[n]) \in Nat
      /\ \A i \in 1 .. Len(outcome[n]) : outcome'[n][i] = outcome[n][i]
      /\ outcome'[n][Len(outcome[n]) + 1] = v
  BY AppendOutcome DEF SendTyped
<1>2. 1 .. Len(outcome'[n]) = (1 .. Len(outcome[n])) \cup {Len(outcome[n]) + 1}
  BY <1>1
<1>3. Confirmed(n, b)' = {i \in 1 .. Len(outcome'[n]) : outcome'[n][i] = "ok" /\ Work[n][i].to = b}
  BY DEF Confirmed
<1> QED BY <1>1, <1>2, <1>3 DEF Confirmed

LEMMA FailedAppend ==
    ASSUME SendTyped, NEW n \in Node, NEW b \in Node,
           outcome' = [outcome EXCEPT ![n] = Append(@, "failed")]
    PROVE  Confirmed(n, b)' = Confirmed(n, b)
<1>1. Confirmed(n, b)' =
        IF "failed" = "ok" /\ Work[n][Len(outcome[n]) + 1].to = b
        THEN Confirmed(n, b) \cup {Len(outcome[n]) + 1} ELSE Confirmed(n, b)
  BY ConfirmedAppend, Zenon
<1> QED BY <1>1

LEMMA ReceiveSource ==
    ASSUME Typed, Typed', NEW n \in Node, NEW b \in Node \ {n}, Receive(n)
    PROVE  SourceQuiet(Link(n, b), Link(n, b)')
<1>1. UNCHANGED <<sent, outcome, sbit>> /\ op'[n].at # "waitAck"
  BY ReceiveRests
<1>2. Confirmed(n, b)' = Confirmed(n, b) /\ Sending(n, b)' = {}
  BY <1>1 DEF Confirmed, Sending
<1> QED BY <1>1, <1>2, ReceiveNet, PlainRests

LEMMA StartSendSource ==
    ASSUME Typed, Typed', CallInv, NEW n \in Node, NEW b \in Node \ {n}, StartSend(n)
    PROVE  SourceQuiet(Link(n, b), Link(n, b)') \/ SourceStart(n, b, Link(n, b), Link(n, b)')
<1> DEFINE w == Work[n][sent[n] + 1]
           f == Message(sbit[<<n, w.to>>], <<n, sent[n] + 1>>)
<1>1. w.to \in Node \ {n} /\ f \in Frame
  BY NextSend DEF StartSend, Message, Frame, Typed, SendTyped
<1>2. /\ Sending(n, b) = {} /\ sent'[n] = sent[n] + 1 /\ UNCHANGED sbit
      /\ sent[n] < Len(Work[n])
  BY DEF StartSend, Sending, Idle, Typed, SendTyped
<1>3. Confirmed(n, b)' = Confirmed(n, b)
  <2>1. CASE UNCHANGED outcome
    BY <2>1 DEF Confirmed
  <2>2. CASE outcome' = [outcome EXCEPT ![n] = Append(@, "failed")]
    BY <2>2, FailedAppend DEF Typed
  <2> QED BY <2>1, <2>2 DEF StartSend, SendError
<1>4. Sending(n, b)' \subseteq IF w.to = b THEN {f} ELSE {}
  BY DEF StartSend, SendError, Sending, Typed, OpTyped, Message, Idle
<1>5. Transmit(n, w.to, f, 1, chan) \/ chan' = chan
  BY DEF StartSend
<1> HIDE DEF f
<1>6. NetStep(n, {f})
  BY <1>1, <1>5, SendNet, SameNet, ChanTyped
<1>7. Grows(chan[<<n, b>>], chan'[<<n, b>>], {f}) /\ chan'[<<b, n>>] = chan[<<b, n>>]
  <2>1. SentTo(n, w.to, {f}, chan, chan') \/ chan' = chan
    BY <1>1, <1>5, TransmitSends, ChanTyped
  <2> QED BY <1>6, <2>1, NetSource DEF SentTo
<1>8. CASE w.to = b
  <2>1. f = Message(sbit[<<n, b>>], <<n, sent[n] + 1>>)
    BY <1>8 DEF f
  <2> QED BY <1>2, <1>3, <1>4, <1>7, <1>8, <2>1 DEF SourceStart, Link
<1>9. CASE w.to # b
  <2>1. chan'[<<n, b>>] = chan[<<n, b>>]
    <3>1. SentTo(n, w.to, {f}, chan, chan') \/ chan' = chan
      BY <1>1, <1>5, TransmitSends, ChanTyped
    <3> QED BY <1>1, <1>9, <3>1 DEF SentTo
  <2>2. Grows(chan[<<n, b>>], chan'[<<n, b>>], Plain \cup Sending(n, b))
    BY <2>1, GrowsNot DEF Typed, NetTyped, Chans
  <2> QED BY <1>2, <1>3, <1>4, <1>7, <1>9, <2>2 DEF SourceQuiet, Link
<1> QED BY <1>8, <1>9

(* Returning from a send as failed: the sender rests.                      *)
LEMMA FailSource ==
    ASSUME Typed, NEW n \in Node, NEW b \in Node \ {n}, NetStep(n, Plain), UNCHANGED <<sent, sbit>>,
           outcome' = [outcome EXCEPT ![n] = Append(@, "failed")], op' = [op EXCEPT ![n] = Idle]
    PROVE  SourceQuiet(Link(n, b), Link(n, b)')
<1>1. Confirmed(n, b)' = Confirmed(n, b)
  BY FailedAppend DEF Typed
<1>2. Sending(n, b)' = {}
  BY DEF Sending, Typed, OpTyped, Idle
<1> QED BY <1>1, <1>2, PlainRests

LEMMA FinishSendNet ==
    ASSUME Typed, Typed', NEW n \in Node, op[n] \in SendOp, NEW c \in Chans, FinishSend(n, c),
           NEW a \in Node, TakenFrom(a, n, chan, c)
    PROVE  NetStep(n, Plain) /\ NetStep(n, NoAcks)
<1>1. PICK k \in Nat : Transmit(n, op[n].peer, Control("ACK_ACK", op[n].bit), k, c)
  <2>1. Attempts \in Nat /\ \A k \in 0 .. Attempts - 1 : k \in Nat
    BY RudpAssumption
  <2> QED BY <2>1 DEF FinishSend
<1>2. /\ Control("ACK_ACK", op[n].bit) \in Plain /\ Control("ACK_ACK", op[n].bit) \in Frame
      /\ Control("ACK_ACK", op[n].bit) \in NoAcks /\ op[n].peer \in Node
  BY AckIsPlain, ControlType DEF SendOp, NoAcks, Control
<1> QED BY <1>1, <1>2, SendNet

LEMMA FinishSendSource ==
    ASSUME Typed, Typed', CallInv, NEW n \in Node, NEW b \in Node \ {n}, op[n].at = "waitAck",
           NEW a \in Node, Readable(a, n), Expected(n, a, Head(chan[<<a, n>>])),
           FinishSend(n, ReadFrom(a, n)), UNCHANGED sent
    PROVE  SourceQuiet(Link(n, b), Link(n, b)') \/ SourceOk(Link(n, b), Link(n, b)')
<1>1. op[n] \in SendOp /\ ReadFrom(a, n) \in Chans /\ TakenFrom(a, n, chan, ReadFrom(a, n))
  BY WaitTypes, ReadType, ReadTakes, ChanTyped
<1>2. NetStep(n, Plain)
  BY <1>1, FinishSendNet
<1>3. /\ a = op[n].peer /\ Head(chan[<<a, n>>]) = Ack(op[n].bit)
      /\ op[n].bit = sbit[<<n, a>>] /\ Work[n][sent[n]].to = a
      /\ Len(outcome[n]) + 1 = sent[n]
  <2>1. a = op[n].peer /\ Head(chan[<<a, n>>]) = Ack(op[n].bit)
    BY DEF Expected, Ack
  <2>2. /\ op[n].bit = sbit[<<n, op[n].peer>>] /\ op[n].peer = Work[n][sent[n]].to
        /\ Len(outcome[n]) = sent[n] - 1
    BY DEF CallInv, Called
  <2>3. sent[n] \in Nat
    BY DEF Typed, SendTyped
  <2> QED BY <2>1, <2>2, <2>3
<1>4. CASE SendError(n) /\ sbit' = [sbit EXCEPT ![<<n, op[n].peer>>] = @]
  <2>1. UNCHANGED sbit
    BY <1>4 DEF Typed, SendTyped
  <2> QED BY <1>2, <1>4, <2>1, FailSource DEF SendError
<1>5. CASE /\ sbit' = [sbit EXCEPT ![<<n, op[n].peer>>] = 1 - @]
           /\ outcome' = [outcome EXCEPT ![n] = Append(@, "ok")]
           /\ op' = [op EXCEPT ![n] = Idle]
  <2>1. Confirmed(n, b)' = IF a = b THEN Confirmed(n, b) \cup {sent[n]} ELSE Confirmed(n, b)
    BY <1>3, <1>5, ConfirmedAppend DEF Typed
  <2>2. Sending(n, b)' = {}
    BY <1>5 DEF Sending, Typed, OpTyped, Idle
  <2>3. sbit'[<<n, b>>] = IF a = b THEN 1 - sbit[<<n, b>>] ELSE sbit[<<n, b>>]
    BY <1>3, <1>5 DEF Typed, SendTyped
  <2>4. CASE a = b
    <3>1. Grows(chan[<<n, b>>], chan'[<<n, b>>], Plain)
      BY <1>2, NetSource
    <3>2. Sending(n, b) # {}
      BY <1>3, <2>4 DEF Sending
    <3>3. Drops(chan[<<b, n>>], chan'[<<b, n>>])
      <4>1. chan'[<<b, n>>] = ReadFrom(a, n)[<<b, n>>]
        <5>1. PICK k \in Nat : Transmit(n, op[n].peer, Control("ACK_ACK", op[n].bit), k, ReadFrom(a, n))
          <6>1. Attempts \in Nat /\ \A k \in 0 .. Attempts - 1 : k \in Nat
            BY RudpAssumption
          <6> QED BY <6>1 DEF FinishSend
        <5>2. op[n].peer \in Node /\ Control("ACK_ACK", op[n].bit) \in Frame
          BY <1>1, ControlType DEF SendOp
        <5>3. SentTo(n, op[n].peer, {Control("ACK_ACK", op[n].bit)}, ReadFrom(a, n), chan')
          BY <1>1, <5>1, <5>2, TransmitSends
        <5> QED BY <5>3 DEF SentTo
      <4> QED BY <1>1, <2>4, <4>1 DEF TakenFrom
    <3> QED BY <1>3, <1>5, <2>1, <2>2, <2>3, <2>4, <3>1, <3>2, <3>3 DEF SourceOk, Link
  <2>5. CASE a # b
    <3>1. Grows(chan[<<n, b>>], chan'[<<n, b>>], Plain \cup Sending(n, b))
      BY <1>2, NetSource, GrowsMore
    <3>2. chan'[<<b, n>>] = chan[<<b, n>>] \/ Drops(chan[<<b, n>>], chan'[<<b, n>>])
      BY <1>2, NetSource
    <3> QED BY <2>1, <2>2, <2>3, <2>5, <3>1, <3>2 DEF SourceQuiet, Link
  <2> QED BY <2>4, <2>5
<1> QED BY <1>4, <1>5 DEF FinishSend, BitAfterError

LEMMA SendTimeoutSource ==
    ASSUME Typed, Typed', CallInv, NEW n \in Node, NEW b \in Node \ {n}, op[n].at = "waitAck",
           SendTimeout(n)
    PROVE  SourceQuiet(Link(n, b), Link(n, b)')
<1> DEFINE f == Message(op[n].bit, op[n].msg)
<1>1. op[n] \in SendOp /\ f \in Frame /\ op[n].peer \in Node \ {n}
  <2>1. op[n] \in SendOp /\ op[n].peer # n
    BY WaitTypes DEF CallInv, Called
  <2> QED BY <2>1 DEF SendOp, Message, Frame
<1>2. UNCHANGED <<sent, sbit>>
  BY DEF SendTimeout
<1>3. CASE UNCHANGED chan /\ outcome' = [outcome EXCEPT ![n] = Append(@, "failed")]
           /\ op' = [op EXCEPT ![n] = Idle]
  BY <1>2, <1>3, SameNet, FailSource
<1>4. ASSUME NEW k, op' = [op EXCEPT ![n].tries = k], Transmit(n, op[n].peer, f, 1, chan),
             UNCHANGED outcome
      PROVE  SourceQuiet(Link(n, b), Link(n, b)')
  <2>1. SentTo(n, op[n].peer, {f}, chan, chan')
    BY <1>1, <1>4, ChanTyped, TransmitSends
  <2>2. chan'[<<b, n>>] = chan[<<b, n>>]
    BY <1>1, <2>1 DEF SentTo
  <2>3. Grows(chan[<<n, b>>], chan'[<<n, b>>], Plain \cup Sending(n, b))
    <3>1. CASE op[n].peer = b
      <4>1. {f} \subseteq Plain \cup Sending(n, b)
        BY <3>1 DEF Sending
      <4>2. Grows(chan[<<n, b>>], chan'[<<n, b>>], {f})
        BY <1>1, <2>1, <3>1 DEF SentTo
      <4> HIDE DEF f
      <4> QED BY <4>1, <4>2, GrowsMore
    <3>2. CASE op[n].peer # b
      <4>1. chan'[<<n, b>>] = chan[<<n, b>>]
        BY <1>1, <2>1, <3>2 DEF SentTo
      <4> QED BY <4>1, GrowsNot DEF Typed, NetTyped, Chans
    <3> QED BY <3>1, <3>2
  <2>4. Confirmed(n, b)' = Confirmed(n, b)
    BY <1>4 DEF Confirmed
  <2>5. Sending(n, b)' = Sending(n, b)
    <3>1. /\ op'[n].at = op[n].at /\ op'[n].peer = op[n].peer /\ op'[n].bit = op[n].bit
          /\ op'[n].msg = op[n].msg
      BY <1>1, <1>4 DEF Typed, OpTyped, SendOp
    <3> QED BY <3>1 DEF Sending
  <2> QED BY <1>2, <2>2, <2>3, <2>4, <2>5, SourceRests
<1> QED BY <1>3, <1>4 DEF SendTimeout, SendError

(* The ends of receive calls.                                              *)
LEMMA OtherSource ==
    ASSUME Typed, NEW n \in Node, NEW b \in Node \ {n}, NetStep(n, Plain),
           UNCHANGED <<sent, sbit, outcome>>, op'[n].at # "waitAck" \/ op'[n] = op[n]
    PROVE  SourceQuiet(Link(n, b), Link(n, b)')
<1>1. Confirmed(n, b)' = Confirmed(n, b) /\ Sending(n, b)' \subseteq Sending(n, b)
  BY DEF Confirmed, Sending
<1> QED BY <1>1, PlainRests

LEMMA WaitSource ==
    ASSUME Typed, Typed', CallInv, NEW n \in Node, NEW b \in Node \ {n}, Wait(n)
    PROVE  SourceQuiet(Link(n, b), Link(n, b)') \/ SourceOk(Link(n, b), Link(n, b)')
<1>1. ASSUME NEW a \in Node, Readable(a, n), FinishRecv(n, op[n]), chan' = ReadFrom(a, n),
             UNCHANGED <<pend, sbit, sent, outcome, losses, errors>>
      PROVE  SourceQuiet(Link(n, b), Link(n, b)')
  <2>1. op'[n].at # "waitAck"
    BY <1>1 DEF FinishRecv, Typed, OpTyped, Idle, Skip
  <2> QED BY <1>1, <2>1, ReadNet, OtherSource
<1>2. ASSUME NEW a \in Node, WaitMatch(n, a)
      PROVE  SourceQuiet(Link(n, b), Link(n, b)') \/ SourceOk(Link(n, b), Link(n, b)')
  BY <1>1, <1>2, FinishSendSource DEF WaitMatch
<1>3. ASSUME NEW a \in Node, WaitStore(n, a)
      PROVE  SourceQuiet(Link(n, b), Link(n, b)')
  <2>1. UNCHANGED <<sent, sbit, outcome, op>>
    BY <1>3 DEF WaitStore
  <2> QED BY <1>3, <2>1, WaitStoreNet, OtherSource
<1> QED BY <1>2, <1>3 DEF Wait

LEMMA TimeoutSource ==
    ASSUME Typed, Typed', CallInv, NEW n \in Node, NEW b \in Node \ {n}, Timeout(n)
    PROVE  SourceQuiet(Link(n, b), Link(n, b)')
<1>1. CASE op[n].at = "waitAckAck" /\ RecvTimeout(n)
  <2>1. op[n] \in RecvOp
    BY <1>1, WaitTypes
  <2>2. NetStep(n, Plain)
    <3>1. /\ Control("ACK", op[n].bit) \in Plain /\ Control("ACK", op[n].bit) \in Frame
          /\ op[n].peer \in Node
      BY <2>1, AckIsPlain, ControlType DEF RecvOp, Ack
    <3>2. Transmit(n, op[n].peer, Control("ACK", op[n].bit), 1, chan) \/ UNCHANGED chan
      BY <1>1 DEF RecvTimeout
    <3> QED BY <3>1, <3>2, SendNet, SameNet, ChanTyped
  <2>3. op'[n].at # "waitAck"
    BY <1>1, <2>1 DEF RecvTimeout, FinishRecv, Typed, OpTyped, RecvOp, Idle, Skip
  <2> QED BY <1>1, <2>2, <2>3, OtherSource DEF RecvTimeout
<1> QED BY <1>1, SendTimeoutSource DEF Timeout

(* Every step of the sender is one of the three.                           *)
LEMMA SenderStep ==
    ASSUME Typed, Typed', CallInv, NEW a \in Node, NEW b \in Node \ {a},
           StartSend(a) \/ Receive(a) \/ Wait(a) \/ Timeout(a)
    PROVE  SourceStep(a, b, Link(a, b), Link(a, b)')
<1>1. SameTarget(Link(a, b), Link(a, b)')
  BY StepOthers, TargetElsewhere
<1> QED BY <1>1, StartSendSource, ReceiveSource, WaitSource, TimeoutSource DEF SourceStep

-----------------------------------------------------------------------------
(* The receiver's steps.                                                   *)

(* Two arrays with the same messages of a.                                 *)
LEMMA KeptSame ==
    ASSUME NEW p, NEW q, NEW a,
           \A i \in Slot : i \in SlotsOf(p, a) \/ i \in SlotsOf(q, a) => q[i] = p[i]
    PROVE  Kept(q, a) = Kept(p, a)
<1>1. \A i \in Slot : i \in SlotsOf(q, a) <=> i \in SlotsOf(p, a)
  BY DEF SlotsOf, MessageSlots
<1>2. SlotsOf(q, a) \subseteq Slot /\ SlotsOf(p, a) \subseteq Slot
  BY DEF SlotsOf, MessageSlots
<1> QED BY <1>1, <1>2 DEF Kept

LEMMA KeptClear ==
    ASSUME NEW p \in Table, NEW a, NEW i \in Slot
    PROVE  LET q == [p EXCEPT ![i] = None]
           IN  /\ Kept(q, a) \subseteq Kept(p, a) /\ Kept(p, a) \ {p[i].frame} \subseteq Kept(q, a)
               /\ i \notin SlotsOf(p, a) => Kept(q, a) = Kept(p, a)
<1> DEFINE q == [p EXCEPT ![i] = None]
<1>1. \A k \in Slot : q[k] = IF k = i THEN None ELSE p[k]
  BY DEF Table
<1> HIDE DEF q
<1>2. SlotsOf(q, a) = SlotsOf(p, a) \ {i}
  BY <1>1 DEF SlotsOf, MessageSlots
<1>3. \A k \in SlotsOf(q, a) : q[k] = p[k]
  BY <1>1, <1>2 DEF SlotsOf, MessageSlots
<1>4. Kept(q, a) \subseteq Kept(p, a) /\ Kept(p, a) \ {p[i].frame} \subseteq Kept(q, a)
  BY <1>2, <1>3 DEF Kept
<1>5. i \notin SlotsOf(p, a) => Kept(q, a) = Kept(p, a)
  BY <1>2, <1>3 DEF Kept
<1> QED BY <1>4, <1>5 DEF q

LEMMA KeptDrop ==
    ASSUME NEW p \in Table, NEW a, NEW x
    PROVE  Kept(PendingDrop(p, x, {"ACK", "ACK_ACK"}), a) = Kept(p, a)
<1> DEFINE q == PendingDrop(p, x, {"ACK", "ACK_ACK"})
<1>1. ASSUME NEW i \in Slot, i \in SlotsOf(p, a) \/ i \in SlotsOf(q, a) PROVE q[i] = p[i]
  BY <1>1 DEF PendingDrop, SlotsOf, MessageSlots
<1> HIDE DEF q
<1>2. Kept(q, a) = Kept(p, a)
  BY <1>1, KeptSame
<1> QED BY <1>2 DEF q

LEMMA KeptStore ==
    ASSUME NEW p \in Table, NEW a \in Node, NEW x \in Node, NEW f \in Frame
    PROVE  Kept(PendingStore(p, x, f), a) =
             IF f.type = "MESSAGE" /\ ~Full(p) /\ x = a THEN Kept(p, a) \cup {f} ELSE Kept(p, a)
<1> DEFINE q == PendingStore(p, x, f)
           e == [from |-> x, frame |-> f]
<1>1. /\ \A i \in Slot : q[i] = p[i] \/ (p[i] = None /\ q[i] = e)
      /\ f.type = "MESSAGE" => IF Full(p) THEN q = p ELSE \E i \in Slot : p[i] = None /\ q[i] = e
  BY StoreSlots
<1>2. e.from = x /\ e.frame = f /\ e # None
  BY RudpAssumption
<1> HIDE DEF q, e
<1>3. CASE f.type = "MESSAGE" /\ ~Full(p) /\ x = a
  <2>1. PICK k \in Slot : p[k] = None /\ q[k] = e
    BY <1>1, <1>3
  <2>2. \A i \in SlotsOf(p, a) : i \in SlotsOf(q, a) /\ q[i] = p[i]
    BY <1>1 DEF SlotsOf, MessageSlots
  <2>3. \A i \in SlotsOf(q, a) : (i \in SlotsOf(p, a) /\ q[i] = p[i]) \/ q[i] = e
    BY <1>1 DEF SlotsOf, MessageSlots
  <2>4. k \in SlotsOf(q, a)
    BY <1>2, <1>3, <2>1 DEF SlotsOf, MessageSlots
  <2>5. Kept(q, a) = Kept(p, a) \cup {f}
    BY <1>2, <2>1, <2>2, <2>3, <2>4 DEF Kept
  <2> QED BY <1>3, <2>5 DEF q
<1>4. CASE ~(f.type = "MESSAGE" /\ ~Full(p) /\ x = a)
  <2>1. ASSUME NEW i \in Slot, i \in SlotsOf(p, a) \/ i \in SlotsOf(q, a) PROVE q[i] = p[i]
    BY <1>1, <1>2, <1>4, <2>1 DEF SlotsOf, MessageSlots
  <2>2. Kept(q, a) = Kept(p, a)
    BY <2>1, KeptSame
  <2> QED BY <1>4, <2>2 DEF q
<1> QED BY <1>3, <1>4

(* A step of n that leaves the exchange with a alone.                      *)
LEMMA TargetRests ==
    ASSUME NEW n \in Node, NEW a \in Node,
           Kept(pend'[n], a) = Kept(pend[n], a)
              \/ (/\ op[n].at = "skip" /\ Kept(pend'[n], a) \subseteq Kept(pend[n], a)
                  /\ Kept(pend[n], a) \ First(pend[n], a) \subseteq Kept(pend'[n], a)),
           InHand(op'[n], a) = InHand(op[n], a), Fresh(op'[n], a) = Fresh(op[n], a),
           ebit'[<<a, n>>] = ebit[<<a, n>>],
           got'[n] = got[n] \/ \E g \in Msg : g[1] # a /\ got'[n] = Append(got[n], g),
           chan'[<<a, n>>] = chan[<<a, n>>] \/ Drops(chan[<<a, n>>], chan'[<<a, n>>]),
           Grows(chan[<<n, a>>], chan'[<<n, a>>],
                 NoAcks \cup {Ack(f.bit) : f \in InHand(op[n], a)})
    PROVE  TargetQuiet(a, Link(a, n), Link(a, n)')
BY DEF TargetQuiet, Link

(* A step that sends nothing to a.                                         *)
LEMMA NetElsewhere ==
    ASSUME Typed, NEW n \in Node, NEW a \in Node \ {n}, NEW y \in Node \ {a}, NEW F, NEW G,
           NEW c, c = chan \/ \E x \in Node : TakenFrom(x, n, chan, c),
           chan' = c \/ SentTo(n, y, F, c, chan')
    PROVE  /\ chan'[<<a, n>>] = chan[<<a, n>>] \/ Drops(chan[<<a, n>>], chan'[<<a, n>>])
           /\ Grows(chan[<<n, a>>], chan'[<<n, a>>], G)
<1>1. c[<<n, a>>] = chan[<<n, a>>]
  BY DEF TakenFrom
<1>2. c[<<a, n>>] = chan[<<a, n>>] \/ Drops(chan[<<a, n>>], c[<<a, n>>])
  BY DEF TakenFrom
<1>3. chan'[<<n, a>>] = c[<<n, a>>] /\ chan'[<<a, n>>] = c[<<a, n>>]
  BY DEF SentTo
<1>4. Grows(chan[<<n, a>>], chan[<<n, a>>], G)
  BY GrowsNot DEF Typed, NetTyped, Chans
<1> QED BY <1>1, <1>2, <1>3, <1>4

LEMMA RestingHand ==
    ASSUME NEW o, NEW a, o.at # "waitAckAck" \/ o.peer # a
    PROVE  InHand(o, a) = {} /\ Fresh(o, a) = {}
BY DEF InHand, Fresh

LEMMA FinishRecvElsewhere ==
    ASSUME Typed, NEW n \in Node, NEW a \in Node, NEW x \in RecvOp, x.peer # a, OpLabels(n, x),
           FinishRecv(n, x)
    PROVE  /\ InHand(op'[n], a) = {} /\ Fresh(op'[n], a) = {}
           /\ ebit'[<<a, n>>] = ebit[<<a, n>>]
           /\ got'[n] = got[n] \/ \E g \in Msg : g[1] # a /\ got'[n] = Append(got[n], g)
<1>1. op'[n].at # "waitAckAck"
  BY DEF FinishRecv, Typed, OpTyped, Idle, Skip
<1>2. ebit'[<<a, n>>] = ebit[<<a, n>>]
  BY DEF FinishRecv, Typed, RecvTyped, RecvOp
<1>3. x.msg \in Msg /\ x.msg[1] # a
  BY DEF RecvOp, OpLabels
<1>4. got'[n] = got[n] \/ got'[n] = Append(got[n], x.msg)
  BY DEF FinishRecv, Typed, RecvTyped
<1> QED BY <1>1, <1>2, <1>3, <1>4, RestingHand

LEMMA FinishRecvEnd ==
    ASSUME Typed, NEW n \in Node, NEW x \in RecvOp, FinishRecv(n, x)
    PROVE  /\ InHand(op'[n], x.peer) = {} /\ Fresh(op'[n], x.peer) = {}
           /\ IF x.new THEN /\ ebit'[<<x.peer, n>>] = 1 - ebit[<<x.peer, n>>]
                            /\ got'[n] = Append(got[n], x.msg)
                       ELSE /\ ebit'[<<x.peer, n>>] = ebit[<<x.peer, n>>]
                            /\ got'[n] = got[n]
<1>1. op'[n].at # "waitAckAck"
  BY DEF FinishRecv, Typed, OpTyped, Idle, Skip
<1>2. x.peer \in Node
  BY DEF RecvOp
<1> QED BY <1>1, <1>2, RestingHand DEF FinishRecv, NextExpected, Typed, RecvTyped

(* The exchange with another node begins, and may end at once.             *)
LEMMA BeginElsewhere ==
    ASSUME Typed, Typed', NEW n \in Node, NEW a \in Node \ {n}, NEW x \in Node \ {a, n},
           NEW f \in Frame, f.type = "MESSAGE", f.msg[1] = x, NEW p \in Table,
           Kept(p, a) = Kept(pend[n], a), op[n].at # "waitAckAck",
           NEW c \in Chans, c = chan \/ \E y \in Node : TakenFrom(y, n, chan, c),
           BeginRecv(n, x, f, p, c)
    PROVE  TargetQuiet(a, Link(a, n), Link(a, n)')
<1> DEFINE o == Exchange(n, x, f)
           here == ControlSlots(p, x, Control("ACK_ACK", f.bit))
<1>1. o \in RecvOp /\ o.peer = x /\ OpLabels(n, o)
  BY ExchangeType DEF Exchange, OpLabels
<1>2. /\ chan'[<<a, n>>] = chan[<<a, n>>] \/ Drops(chan[<<a, n>>], chan'[<<a, n>>])
      /\ Grows(chan[<<n, a>>], chan'[<<n, a>>],
               NoAcks \cup {Ack(g.bit) : g \in InHand(op[n], a)})
  <2>1. Control("ACK", f.bit) \in Frame
    BY MessageType, ControlType
  <2>2. SentTo(n, x, {Control("ACK", f.bit)}, c, chan')
    BY <2>1, TransmitSends DEF BeginRecv
  <2> QED BY <2>2, NetElsewhere
<1>3. InHand(op[n], a) = {} /\ Fresh(op[n], a) = {}
  BY RestingHand
<1>4. \/ /\ here # {}
         /\ pend' = [pend EXCEPT ![n] = [p EXCEPT ![Min(here)] = None]]
         /\ FinishRecv(n, o)
      \/ /\ pend' = [pend EXCEPT ![n] = p]
         /\ op' = [op EXCEPT ![n] = o]
         /\ UNCHANGED <<ebit, got>>
  BY DEF BeginRecv, Exchange
<1>5. here \subseteq Slot /\ \A i \in here : p[i].frame.type = "ACK_ACK"
  BY DEF ControlSlots, Control
<1> HIDE DEF o, here
<1>6. CASE /\ here # {}
           /\ pend' = [pend EXCEPT ![n] = [p EXCEPT ![Min(here)] = None]]
           /\ FinishRecv(n, o)
  <2>1. Min(here) \in here
    BY <1>5, <1>6, MinSlot
  <2>2. Min(here) \in Slot /\ Min(here) \notin SlotsOf(p, a)
    BY <1>5, <2>1 DEF SlotsOf, MessageSlots
  <2>3. Kept([p EXCEPT ![Min(here)] = None], a) = Kept(p, a)
    BY <2>2, KeptClear
  <2>4. Kept(pend'[n], a) = Kept(pend[n], a)
    BY <1>6, <2>3 DEF Typed, TableTyped
  <2>5. /\ InHand(op'[n], a) = {} /\ Fresh(op'[n], a) = {}
        /\ ebit'[<<a, n>>] = ebit[<<a, n>>]
        /\ got'[n] = got[n] \/ \E g \in Msg : g[1] # a /\ got'[n] = Append(got[n], g)
    BY <1>1, <1>6, FinishRecvElsewhere
  <2> QED BY <1>2, <1>3, <2>4, <2>5, TargetRests
<1>7. CASE /\ pend' = [pend EXCEPT ![n] = p]
           /\ op' = [op EXCEPT ![n] = o]
           /\ UNCHANGED <<ebit, got>>
  <2>1. pend'[n] = p /\ op'[n] = o
    BY <1>7 DEF Typed, TableTyped, OpTyped
  <2>2. InHand(op'[n], a) = {} /\ Fresh(op'[n], a) = {}
    BY <1>1, <2>1, RestingHand
  <2> QED BY <1>2, <1>3, <1>7, <2>1, <2>2, TargetRests
<1> QED BY <1>4, <1>6, <1>7

(* The exchange with a begins: its message comes from the pending frames,  *)
(* or from the channel when there is none.                                 *)
LEMMA BeginHere ==
    ASSUME Typed, Typed', NEW n \in Node, NEW a \in Node \ {n}, NEW f \in Messages,
           NEW p \in Table, op[n].at \in {"idle", "recv"},
           NEW c \in Chans, c = chan \/ TakenFrom(a, n, chan, c),
           \/ /\ Drops(chan[<<a, n>>], c[<<a, n>>]) /\ f = Head(chan[<<a, n>>])
              /\ Kept(pend[n], a) = {} /\ Kept(p, a) = {}
           \/ /\ f \in First(pend[n], a) /\ c[<<a, n>>] = chan[<<a, n>>]
              /\ Kept(p, a) \subseteq Kept(pend[n], a)
              /\ Kept(pend[n], a) \ {f} \subseteq Kept(p, a),
           BeginRecv(n, a, f, p, c)
    PROVE  TargetStep(a, Link(a, n), Link(a, n)')
<1> DEFINE o == Exchange(n, a, f)
           here == ControlSlots(p, a, Control("ACK_ACK", f.bit))
           h == [c |-> chan'[<<a, n>>], k |-> chan'[<<n, a>>],
                 cur |-> Sending(a, n), s |-> sbit[<<a, n>>], n |-> sent[a], ok |-> Confirmed(a, n),
                 kept |-> Kept(pend'[n], a), first |-> {}, hand |-> {f},
                 fresh |-> {g \in {f} : g.bit = ebit[<<a, n>>]},
                 e |-> ebit[<<a, n>>], got |-> got[n], at |-> "waitAckAck"]
<1>1. /\ f \in Frame /\ f.type = "MESSAGE" /\ f.bit \in 0 .. 1 /\ f.msg \in Msg
      /\ Message(f.bit, f.msg) = f
  BY DEF Messages, Frame, Message
<1>2. o \in RecvOp /\ o.peer = a /\ o.at = "waitAckAck" /\ o.msg = f.msg
      /\ (o.new <=> f.bit = ebit[<<a, n>>])
  BY <1>1, ExchangeType DEF Exchange, IsNew
<1>3. SameSource(Link(a, n), Link(a, n)')
  <2>1. OthersSame(n)
    BY <1>1, BeginRecvOthers
  <2> QED BY <2>1, SourceElsewhere
<1>4. /\ chan'[<<a, n>>] = c[<<a, n>>]
      /\ Grows(chan[<<n, a>>], chan'[<<n, a>>], {Ack(f.bit)})
  <2>1. Ack(f.bit) \in Frame
    BY <1>1, ControlType DEF Ack
  <2>2. SentTo(n, a, {Ack(f.bit)}, c, chan')
    BY <2>1, TransmitSends DEF BeginRecv, Ack
  <2>3. c[<<n, a>>] = chan[<<n, a>>]
    BY DEF TakenFrom
  <2> QED BY <2>2, <2>3 DEF SentTo
<1>5. InHand(op[n], a) = {}
  BY RestingHand
<1>6. \/ /\ here # {}
         /\ pend' = [pend EXCEPT ![n] = [p EXCEPT ![Min(here)] = None]]
         /\ FinishRecv(n, o)
      \/ /\ pend' = [pend EXCEPT ![n] = p]
         /\ op' = [op EXCEPT ![n] = o]
         /\ UNCHANGED <<ebit, got>>
  BY DEF BeginRecv, Exchange
<1>7. here \subseteq Slot /\ \A i \in here : p[i].frame.type = "ACK_ACK"
  BY DEF ControlSlots, Control
<1>8. Kept(pend'[n], a) = Kept(p, a)
  <2>1. CASE here # {} /\ pend' = [pend EXCEPT ![n] = [p EXCEPT ![Min(here)] = None]]
    <3>1. Min(here) \in here
      BY <1>7, <2>1, MinSlot
    <3>2. Min(here) \in Slot /\ Min(here) \notin SlotsOf(p, a)
      BY <1>7, <3>1 DEF SlotsOf, MessageSlots
    <3>3. Kept([p EXCEPT ![Min(here)] = None], a) = Kept(p, a)
      BY <3>2, KeptClear
    <3> HIDE DEF here
    <3> QED BY <2>1, <3>3 DEF Typed, TableTyped
  <2>2. CASE pend' = [pend EXCEPT ![n] = p]
    BY <2>2 DEF Typed, TableTyped
  <2> QED BY <1>6, <2>1, <2>2
<1>9. TargetBegin(Link(a, n), h) /\ SameSource(Link(a, n), h)
  BY <1>4, <1>5, <1>8 DEF TargetBegin, SameSource, Link
<1> HIDE DEF o, here
<1>10. CASE FinishRecv(n, o)
  <2>1. /\ InHand(op'[n], a) = {} /\ Fresh(op'[n], a) = {}
        /\ IF f.bit = ebit[<<a, n>>]
           THEN ebit'[<<a, n>>] = 1 - ebit[<<a, n>>] /\ got'[n] = Append(got[n], f.msg)
           ELSE ebit'[<<a, n>>] = ebit[<<a, n>>] /\ got'[n] = got[n]
    BY <1>2, <1>10, FinishRecvEnd
  <2>2. TargetEnd(h, Link(a, n)') /\ SameSource(h, Link(a, n)')
    <3>1. f \in h.fresh <=> f.bit = ebit[<<a, n>>]
      OBVIOUS
    <3>2. SameSource(h, Link(a, n)')
      BY <1>3 DEF SameSource, Link
    <3>3. TargetEnd(h, Link(a, n)')
      BY <2>1, <3>1 DEF TargetEnd, Link
    <3> QED BY <3>2, <3>3
  <2>3. LinkTyped(h)
    <3>1. LinkTyped(Link(a, n)) /\ chan' \in Chans /\ pend'[n] \in Table
      BY LinkType DEF Typed, NetTyped, TableTyped
    <3>2. Kept(pend'[n], a) \subseteq Messages
      BY <3>1, KeptType
    <3> QED BY <3>1, <3>2 DEF LinkTyped, Link, Chans
  <2> HIDE DEF h
  <2> QED BY <1>3, <1>9, <2>2, <2>3 DEF TargetStep
<1>11. CASE /\ pend' = [pend EXCEPT ![n] = p]
            /\ op' = [op EXCEPT ![n] = o]
            /\ UNCHANGED <<ebit, got>>
  <2>1. op'[n] = o
    BY <1>11 DEF Typed, OpTyped
  <2>2. InHand(op'[n], a) = {f} /\ Fresh(op'[n], a) = {g \in {f} : g.bit = ebit[<<a, n>>]}
    <3>1. o.bit = f.bit
      BY DEF o, Exchange
    <3> QED BY <1>1, <1>2, <2>1, <3>1 DEF InHand, Fresh
  <2>3. TargetBegin(Link(a, n), Link(a, n)')
    BY <1>4, <1>5, <1>8, <1>11, <2>2 DEF TargetBegin, Link
  <2> QED BY <1>3, <2>3 DEF TargetStep
<1> QED BY <1>6, <1>10, <1>11

LEMMA RecvPendingTarget ==
    ASSUME Typed, Typed', LabelInv, NEW n \in Node, NEW a \in Node \ {n}, RecvPending(n)
    PROVE  TargetStep(a, Link(a, n), Link(a, n)')
<1> DEFINE i == Min(MessageSlots(pend[n]))
           x == pend[n][i].from
           f == pend[n][i].frame
           p == [pend[n] EXCEPT ![i] = None]
<1>1. BeginRecv(n, x, f, p, chan) /\ op[n] \in {Idle, Recv}
  BY DEF RecvPending
<1>2. i \in MessageSlots(pend[n]) /\ pend[n] \in Table /\ chan \in Chans
  BY MinSlot, ChanTyped DEF RecvPending, MessageSlots
<1>3. i \in Slot /\ pend[n][i] \in Entry /\ f.type = "MESSAGE" /\ pend[n][i] # None
  BY <1>2 DEF MessageSlots, Table
<1>4. op[n].at \in {"idle", "recv"}
  BY <1>1 DEF Idle, Recv
<1>5. x \in Node \ {n} /\ f \in Frame /\ f \in Messages /\ f.msg[1] = x
  <2>1. x # n /\ f.msg[1] = x
    BY <1>3 DEF LabelInv, NodeLabels, PendLabels
  <2> HIDE DEF i
  <2> QED BY <1>3, <2>1, IsMessage DEF Entry
<1>6. x = a => f \in First(pend[n], a)
  BY <1>2 DEF First, SlotsOf
<1>7. x # a => i \notin SlotsOf(pend[n], a)
  BY DEF SlotsOf
<1> HIDE DEF i
<1>8. /\ p \in Table
      /\ Kept(p, a) \subseteq Kept(pend[n], a) /\ Kept(pend[n], a) \ {f} \subseteq Kept(p, a)
      /\ x # a => Kept(p, a) = Kept(pend[n], a)
  BY <1>2, <1>3, <1>7, ClearType, KeptClear
<1> HIDE DEF x, f, p
<1>9. CASE x = a
  BY <1>1, <1>2, <1>4, <1>5, <1>6, <1>8, <1>9, BeginHere
<1>10. CASE x # a
  <2>1. TargetQuiet(a, Link(a, n), Link(a, n)')
    BY <1>1, <1>2, <1>3, <1>4, <1>5, <1>8, <1>10, BeginElsewhere DEF f
  <2>2. OthersSame(n)
    BY StepOthers DEF Receive
  <2> QED BY <2>1, <2>2, SourceElsewhere DEF TargetStep
<1> QED BY <1>9, <1>10

LEMMA RecvMessageTarget ==
    ASSUME Typed, Typed', LabelInv, NEW n \in Node, NEW a \in Node \ {n}, NEW x \in Node,
           RecvMessage(n, x)
    PROVE  TargetStep(a, Link(a, n), Link(a, n)')
<1> DEFINE f == Head(chan[<<x, n>>])
           c == ReadFrom(x, n)
<1>1. /\ BeginRecv(n, x, f, pend[n], c) /\ op[n] \in {Idle, Recv}
      /\ f.type = "MESSAGE" /\ Readable(x, n) /\ MessageSlots(pend[n]) = {}
  BY DEF RecvMessage
<1>2. f \in Frame /\ c \in Chans /\ TakenFrom(x, n, chan, c) /\ pend[n] \in Table
  BY <1>1, ReadType, ReadTakes, ChanTyped
<1>3. x # n /\ f.msg[1] = x
  BY <1>1, ReadLabels, ChanTyped DEF LabelInv
<1>4. f \in Messages
  BY <1>1, <1>2, IsMessage
<1>5. op[n].at \in {"idle", "recv"}
  BY <1>1 DEF Idle, Recv
<1>6. Kept(pend[n], a) = {}
  BY <1>1 DEF Kept, SlotsOf
<1>7. x = a => Drops(chan[<<a, n>>], c[<<a, n>>])
  BY <1>2 DEF TakenFrom
<1>8. CASE x = a
  <2>1. f = Head(chan[<<a, n>>])
    BY <1>8
  <2> HIDE DEF f, c
  <2> QED BY <1>1, <1>2, <1>3, <1>4, <1>5, <1>6, <1>7, <1>8, <2>1, BeginHere
<1>9. CASE x # a
  <2> HIDE DEF f, c
  <2>1. TargetQuiet(a, Link(a, n), Link(a, n)')
    BY <1>1, <1>2, <1>3, <1>5, <1>9, BeginElsewhere
  <2>2. OthersSame(n)
    BY StepOthers DEF Receive
  <2> QED BY <2>1, <2>2, SourceElsewhere DEF TargetStep
<1> QED BY <1>8, <1>9

(* Reading a control frame, skipping a message, and EAGAIN.                *)
LEMMA OtherReceiveTarget ==
    ASSUME Typed, Typed', NEW n \in Node, NEW a \in Node \ {n},
           (\E x \in Node : RecvControl(n, x)) \/ SkipMessage(n) \/ NothingToRead(n)
    PROVE  TargetQuiet(a, Link(a, n), Link(a, n)')
<1>1. op[n] \in {Idle, Recv, Skip} /\ UNCHANGED <<ebit, got>>
  BY DEF RecvControl, SkipMessage, NothingToRead
<1>2. op'[n] \in {Idle, Recv, Skip}
  BY DEF RecvControl, SkipMessage, NothingToRead, Typed, OpTyped
<1>3. /\ InHand(op[n], a) = {} /\ Fresh(op[n], a) = {}
      /\ InHand(op'[n], a) = {} /\ Fresh(op'[n], a) = {}
  BY <1>1, <1>2, RestingHand DEF Idle, Recv, Skip
<1>4. /\ chan'[<<a, n>>] = chan[<<a, n>>] \/ Drops(chan[<<a, n>>], chan'[<<a, n>>])
      /\ Grows(chan[<<n, a>>], chan'[<<n, a>>], NoAcks \cup {Ack(f.bit) : f \in InHand(op[n], a)})
  <2>1. chan' = chan \/ \E x \in Node : TakenFrom(x, n, chan, chan')
    BY ReadTakes, ChanTyped DEF RecvControl, SkipMessage, NothingToRead
  <2>2. n \in Node \ {a}
    OBVIOUS
  <2> QED BY <2>1, <2>2, NetElsewhere
<1>5. Kept(pend'[n], a) = Kept(pend[n], a)
        \/ (/\ op[n].at = "skip" /\ Kept(pend'[n], a) \subseteq Kept(pend[n], a)
            /\ Kept(pend[n], a) \ First(pend[n], a) \subseteq Kept(pend'[n], a))
  <2>1. ASSUME NEW x \in Node, RecvControl(n, x) PROVE Kept(pend'[n], a) = Kept(pend[n], a)
    <3>1. /\ Head(chan[<<x, n>>]) \in Frame /\ pend[n] \in Table
          /\ Head(chan[<<x, n>>]).type # "MESSAGE"
      BY <2>1, ReadType, ChanTyped DEF RecvControl
    <3>2. pend'[n] = PendingStore(pend[n], x, Head(chan[<<x, n>>]))
      BY <2>1 DEF RecvControl, Typed, TableTyped
    <3> QED BY <3>1, <3>2, KeptStore
  <2>2. ASSUME UNCHANGED pend PROVE Kept(pend'[n], a) = Kept(pend[n], a)
    BY <2>2
  <2>3. ASSUME op[n] = Skip, MessageSlots(pend[n]) # {},
               pend' = [pend EXCEPT ![n][Min(MessageSlots(pend[n]))] = None]
        PROVE  Kept(pend'[n], a) = Kept(pend[n], a)
                 \/ (/\ op[n].at = "skip" /\ Kept(pend'[n], a) \subseteq Kept(pend[n], a)
                     /\ Kept(pend[n], a) \ First(pend[n], a) \subseteq Kept(pend'[n], a))
    <3> DEFINE i == Min(MessageSlots(pend[n]))
    <3>1. i \in Slot /\ pend[n] \in Table
      BY <2>3, TakenMessage, ChanTyped
    <3>4. i \in SlotsOf(pend[n], a) => pend[n][i].frame \in First(pend[n], a)
      BY DEF First
    <3>2. pend'[n] = [pend[n] EXCEPT ![i] = None]
      BY <2>3 DEF Typed, TableTyped
    <3> HIDE DEF i
    <3>3. /\ Kept(pend'[n], a) \subseteq Kept(pend[n], a)
          /\ Kept(pend[n], a) \ {pend[n][i].frame} \subseteq Kept(pend'[n], a)
          /\ i \notin SlotsOf(pend[n], a) => Kept(pend'[n], a) = Kept(pend[n], a)
      BY <3>1, <3>2, KeptClear
    <3>5. op[n].at = "skip"
      BY <2>3 DEF Skip
    <3> QED BY <3>3, <3>4, <3>5
  <2> QED BY <2>1, <2>2, <2>3 DEF SkipMessage, NothingToRead
<1> QED BY <1>1, <1>3, <1>4, <1>5, TargetRests

(* A step of n that receives nothing: it reads at most one frame and sends *)
(* no ACK.                                                                 *)
LEMMA NoReceiveTarget ==
    ASSUME Typed, NEW n \in Node, NEW a \in Node \ {n}, NetStep(n, NoAcks), UNCHANGED <<ebit, got>>,
           op[n].at # "waitAckAck", op'[n].at # "waitAckAck",
           Kept(pend'[n], a) = Kept(pend[n], a)
    PROVE  TargetQuiet(a, Link(a, n), Link(a, n)')
<1>1. /\ chan'[<<a, n>>] = chan[<<a, n>>] \/ Drops(chan[<<a, n>>], chan'[<<a, n>>])
      /\ Grows(chan[<<n, a>>], chan'[<<n, a>>], NoAcks)
  BY NetSource
<1>2. Grows(chan[<<n, a>>], chan'[<<n, a>>], NoAcks \cup {Ack(f.bit) : f \in InHand(op[n], a)})
  BY <1>1, GrowsMore
<1> QED BY <1>1, <1>2, RestingHand, TargetRests

LEMMA StartSendTarget ==
    ASSUME Typed, Typed', NEW n \in Node, NEW a \in Node \ {n}, StartSend(n)
    PROVE  TargetQuiet(a, Link(a, n), Link(a, n)')
<1> DEFINE w == Work[n][sent[n] + 1]
           f == Message(sbit[<<n, w.to>>], <<n, sent[n] + 1>>)
<1>1. w.to \in Node /\ f \in Frame /\ f \in NoAcks
  <2>1. w.to \in Node /\ <<n, sent[n] + 1>> \in Msg
    BY NextSend DEF StartSend
  <2> QED BY <2>1 DEF Message, Frame, NoAcks, Typed, SendTyped
<1>2. Transmit(n, w.to, f, 1, chan) \/ chan' = chan
  BY DEF StartSend
<1>3. pend'[n] = PendingDrop(pend[n], w.to, {"ACK", "ACK_ACK"})
  BY DEF StartSend, Typed, TableTyped
<1> HIDE DEF f, w
<1>4. NetStep(n, NoAcks)
  BY <1>1, <1>2, SendNet, SameNet, ChanTyped
<1>5. Kept(pend'[n], a) = Kept(pend[n], a)
  BY <1>3, KeptDrop, ChanTyped
<1>6. op[n].at # "waitAckAck" /\ op'[n].at # "waitAckAck" /\ UNCHANGED <<ebit, got>>
  BY DEF StartSend, SendError, Typed, OpTyped, Idle
<1> QED BY <1>4, <1>5, <1>6, NoReceiveTarget

LEMMA FinishSendTarget ==
    ASSUME Typed, Typed', NEW n \in Node, NEW a \in Node \ {n}, op[n].at = "waitAck",
           NEW x \in Node, Readable(x, n), FinishSend(n, ReadFrom(x, n))
    PROVE  TargetQuiet(a, Link(a, n), Link(a, n)')
<1>1. op[n] \in SendOp /\ ReadFrom(x, n) \in Chans /\ TakenFrom(x, n, chan, ReadFrom(x, n))
  BY WaitTypes, ReadType, ReadTakes, ChanTyped
<1>2. NetStep(n, NoAcks)
  BY <1>1, FinishSendNet
<1>3. op'[n] = Idle /\ UNCHANGED <<pend, ebit, got>>
  BY DEF FinishSend, SendError, Typed, OpTyped
<1> QED BY <1>2, <1>3, NoReceiveTarget DEF Idle

LEMMA SendTimeoutTarget ==
    ASSUME Typed, Typed', NEW n \in Node, NEW a \in Node \ {n}, op[n].at = "waitAck",
           SendTimeout(n)
    PROVE  TargetQuiet(a, Link(a, n), Link(a, n)')
<1> DEFINE f == Message(op[n].bit, op[n].msg)
<1>1. op[n].peer \in Node /\ f \in Frame /\ f \in NoAcks
  BY WaitTypes DEF SendOp, Message, Frame, NoAcks
<1>2. Transmit(n, op[n].peer, f, 1, chan) \/ chan' = chan
  BY DEF SendTimeout
<1> HIDE DEF f
<1>3. NetStep(n, NoAcks)
  BY <1>1, <1>2, SendNet, SameNet, ChanTyped
<1>4. op'[n].at # "waitAckAck"
  BY WaitTypes DEF SendTimeout, SendError, Typed, OpTyped, SendOp, Idle
<1> QED BY <1>3, <1>4, NoReceiveTarget DEF SendTimeout

(* The exchange under way ends.                                            *)
LEMMA FinishRecvTarget ==
    ASSUME Typed, Typed', LabelInv, NEW n \in Node, NEW a \in Node \ {n}, op[n].at = "waitAckAck",
           FinishRecv(n, op[n]), UNCHANGED pend,
           chan' = chan \/ TakenFrom(op[n].peer, n, chan, chan')
    PROVE  TargetQuiet(a, Link(a, n), Link(a, n)') \/ TargetEnd(Link(a, n), Link(a, n)')
<1>1. op[n] \in RecvOp /\ OpLabels(n, op[n]) /\ op[n].peer \in Node
  BY WaitTypes DEF LabelInv, NodeLabels, RecvOp
<1>2. /\ chan'[<<a, n>>] = chan[<<a, n>>] \/ Drops(chan[<<a, n>>], chan'[<<a, n>>])
      /\ chan'[<<n, a>>] = chan[<<n, a>>]
  BY <1>1 DEF TakenFrom
<1>3. Kept(pend'[n], a) = Kept(pend[n], a)
  OBVIOUS
<1>4. CASE op[n].peer # a
  <2>1. Grows(chan[<<n, a>>], chan'[<<n, a>>], NoAcks \cup {Ack(f.bit) : f \in InHand(op[n], a)})
    BY <1>2, GrowsNot DEF Typed, NetTyped, Chans
  <2>2. InHand(op[n], a) = {} /\ Fresh(op[n], a) = {}
    BY <1>4, RestingHand
  <2>3. /\ InHand(op'[n], a) = {} /\ Fresh(op'[n], a) = {}
        /\ ebit'[<<a, n>>] = ebit[<<a, n>>]
        /\ got'[n] = got[n] \/ \E g \in Msg : g[1] # a /\ got'[n] = Append(got[n], g)
    <3>1. a \in Node /\ op[n].peer # a
      BY <1>4
    <3>2. op[n] \in RecvOp
      BY <1>1
    <3>3. OpLabels(n, op[n])
      BY <1>1
    <3>4. FinishRecv(n, op[n])
      OBVIOUS
    <3> QED BY <3>1, <3>2, <3>3, <3>4, FinishRecvElsewhere, Zenon
  <2> QED BY <1>2, <1>3, <2>1, <2>2, <2>3, TargetRests
<1>5. CASE op[n].peer = a
  <2> DEFINE f == Message(op[n].bit, op[n].msg)
  <2>1. /\ InHand(op[n], a) = {f} /\ f \in Messages /\ f.msg = op[n].msg
        /\ (f \in Fresh(op[n], a) <=> op[n].new)
    BY <1>1, <1>5 DEF InHand, Fresh, RecvOp, Message, Messages
  <2>2. /\ InHand(op'[n], a) = {} /\ Fresh(op'[n], a) = {}
        /\ IF op[n].new THEN ebit'[<<a, n>>] = 1 - ebit[<<a, n>>] /\ got'[n] = Append(got[n], op[n].msg)
                        ELSE ebit'[<<a, n>>] = ebit[<<a, n>>] /\ got'[n] = got[n]
    BY <1>1, <1>5, FinishRecvEnd
  <2> HIDE DEF f
  <2> QED BY <1>2, <1>3, <2>1, <2>2 DEF TargetEnd, Link
<1> QED BY <1>4, <1>5

LEMMA WaitStoreTarget ==
    ASSUME Typed, Typed', LabelInv, NEW n \in Node, NEW a \in Node \ {n}, NEW x \in Node,
           WaitStore(n, x)
    PROVE  TargetQuiet(a, Link(a, n), Link(a, n)') \/ TargetStore(Link(a, n), Link(a, n)')
<1> DEFINE f == Head(chan[<<x, n>>])
           c == ReadFrom(x, n)
<1>1. /\ f \in Frame /\ c \in Chans /\ TakenFrom(x, n, chan, c) /\ pend[n] \in Table
      /\ Ack(f.bit) \in Frame
  BY ReadType, ReadTakes, ChanTyped, MessageType, ControlType DEF WaitStore, Ack
<1>2. /\ pend'[n] = PendingStore(pend[n], x, f)
      /\ IF f.type = "MESSAGE" /\ ~Full(pend[n])
         THEN Transmit(n, x, Ack(f.bit), 1, c) ELSE chan' = c
      /\ UNCHANGED <<op, ebit, got>>
  BY DEF WaitStore, EarlyAck, Ack, Typed, TableTyped
<1> HIDE DEF f, c
<1>3. Kept(pend'[n], a) =
        IF f.type = "MESSAGE" /\ ~Full(pend[n]) /\ x = a THEN Kept(pend[n], a) \cup {f}
        ELSE Kept(pend[n], a)
  <2>1. Kept(PendingStore(pend[n], x, f), a) =
          IF f.type = "MESSAGE" /\ ~Full(pend[n]) /\ x = a THEN Kept(pend[n], a) \cup {f}
          ELSE Kept(pend[n], a)
    <3>1. pend[n] \in Table /\ f \in Frame /\ a \in Node
      BY <1>1
    <3> QED BY <3>1, KeptStore, Zenon
  <2>2. pend'[n] = PendingStore(pend[n], x, f)
    BY <1>2
  <2> QED BY <2>1, <2>2, Zenon
<1>4. CASE f.type = "MESSAGE" /\ ~Full(pend[n])
  <2>1. SentTo(n, x, {Ack(f.bit)}, c, chan')
    BY <1>1, <1>2, <1>4, TransmitSends
  <2>2. CASE x = a
    <3>1. /\ chan'[<<a, n>>] = c[<<a, n>>] /\ Drops(chan[<<a, n>>], c[<<a, n>>])
          /\ Grows(chan[<<n, a>>], chan'[<<n, a>>], {Ack(f.bit)})
      BY <1>1, <2>1, <2>2 DEF SentTo, TakenFrom
    <3>2. f = Head(chan[<<a, n>>])
      BY <2>2 DEF f
    <3> QED BY <1>2, <1>3, <1>4, <2>2, <3>1, <3>2 DEF TargetStore, Link
  <2>3. CASE x # a
    <3>1. /\ chan'[<<a, n>>] = chan[<<a, n>>] \/ Drops(chan[<<a, n>>], chan'[<<a, n>>])
          /\ Grows(chan[<<n, a>>], chan'[<<n, a>>],
                   NoAcks \cup {Ack(g.bit) : g \in InHand(op[n], a)})
      BY <1>1, <2>1, <2>3, NetElsewhere
    <3> QED BY <1>2, <1>3, <2>3, <3>1, TargetRests
  <2> QED BY <2>2, <2>3
<1>5. CASE ~(f.type = "MESSAGE" /\ ~Full(pend[n]))
  <2>1. /\ chan'[<<a, n>>] = chan[<<a, n>>] \/ Drops(chan[<<a, n>>], chan'[<<a, n>>])
        /\ Grows(chan[<<n, a>>], chan'[<<n, a>>],
                 NoAcks \cup {Ack(g.bit) : g \in InHand(op[n], a)})
    <3>1. n \in Node \ {a} /\ chan' = c
      BY <1>2, <1>5
    <3> QED BY <1>1, <3>1, NetElsewhere
  <2> QED BY <1>2, <1>3, <1>5, <2>1, TargetRests
<1> QED BY <1>4, <1>5

LEMMA WaitTarget ==
    ASSUME Typed, Typed', LabelInv, NEW n \in Node, NEW a \in Node \ {n}, Wait(n)
    PROVE  TargetQuiet(a, Link(a, n), Link(a, n)') \/ TargetStore(Link(a, n), Link(a, n)')
           \/ TargetEnd(Link(a, n), Link(a, n)')
<1>1. ASSUME NEW x \in Node, WaitMatch(n, x), op[n].at = "waitAckAck"
      PROVE  TargetQuiet(a, Link(a, n), Link(a, n)') \/ TargetEnd(Link(a, n), Link(a, n)')
  <2>1. /\ FinishRecv(n, op[n]) /\ UNCHANGED pend /\ x = op[n].peer /\ Readable(x, n)
        /\ chan' = ReadFrom(x, n)
    BY <1>1 DEF WaitMatch, Expected
  <2>2. TakenFrom(op[n].peer, n, chan, chan')
    BY <2>1, ReadTakes, ChanTyped
  <2> QED BY <1>1, <2>1, <2>2, FinishRecvTarget
<1>2. ASSUME NEW x \in Node, WaitMatch(n, x), op[n].at = "waitAck"
      PROVE  TargetQuiet(a, Link(a, n), Link(a, n)')
  BY <1>2, FinishSendTarget DEF WaitMatch
<1>3. ASSUME NEW x \in Node, WaitStore(n, x)
      PROVE  TargetQuiet(a, Link(a, n), Link(a, n)') \/ TargetStore(Link(a, n), Link(a, n)')
  BY <1>3, WaitStoreTarget
<1> QED BY <1>1, <1>2, <1>3 DEF Wait, WaitMatch, Waiting

LEMMA RecvTimeoutTarget ==
    ASSUME Typed, Typed', LabelInv, NEW n \in Node, NEW a \in Node \ {n}, op[n].at = "waitAckAck",
           RecvTimeout(n)
    PROVE  TargetQuiet(a, Link(a, n), Link(a, n)') \/ TargetEnd(Link(a, n), Link(a, n)')
<1>1. CASE ~AttemptsLeft(op[n])
  <2>1. FinishRecv(n, op[n]) /\ UNCHANGED <<chan, pend>>
    BY <1>1 DEF RecvTimeout
  <2> QED BY <2>1, FinishRecvTarget
<1>2. CASE AttemptsLeft(op[n])
  <2>1. /\ op' = [op EXCEPT ![n].tries = @ + 1]
        /\ Transmit(n, op[n].peer, Ack(op[n].bit), 1, chan) /\ UNCHANGED <<ebit, got, pend>>
    BY <1>2 DEF RecvTimeout, Ack
  <2>2. op[n] \in RecvOp /\ op[n].peer \in Node /\ Ack(op[n].bit) \in Frame
    BY WaitTypes, ControlType DEF RecvOp, Ack
  <2>3. SentTo(n, op[n].peer, {Ack(op[n].bit)}, chan, chan')
    BY <2>1, <2>2, ChanTyped, TransmitSends
  <2>4. InHand(op'[n], a) = InHand(op[n], a) /\ Fresh(op'[n], a) = Fresh(op[n], a)
    <3>1. /\ op'[n].at = op[n].at /\ op'[n].peer = op[n].peer /\ op'[n].bit = op[n].bit
          /\ op'[n].msg = op[n].msg /\ op'[n].new = op[n].new
      BY <2>1, <2>2 DEF Typed, OpTyped, RecvOp
    <3>2. InHand(op'[n], a) = InHand(op[n], a)
      BY <3>1 DEF InHand
    <3> QED BY <3>1, <3>2 DEF Fresh
  <2>5. /\ chan'[<<a, n>>] = chan[<<a, n>>]
        /\ Grows(chan[<<n, a>>], chan'[<<n, a>>], NoAcks \cup {Ack(f.bit) : f \in InHand(op[n], a)})
    <3>1. CASE op[n].peer = a
      <4>1. Ack(op[n].bit) \in {Ack(f.bit) : f \in InHand(op[n], a)}
        <5>1. InHand(op[n], a) = {Message(op[n].bit, op[n].msg)}
          BY <3>1 DEF InHand
        <5>2. Message(op[n].bit, op[n].msg).bit = op[n].bit
          BY DEF Message
        <5> QED BY <5>1, <5>2
      <4>2. chan'[<<a, n>>] = chan[<<a, n>>] /\ Grows(chan[<<n, a>>], chan'[<<n, a>>], {Ack(op[n].bit)})
        BY <2>3, <3>1 DEF SentTo
      <4> QED BY <4>1, <4>2, GrowsMore
    <3>2. CASE op[n].peer # a
      <4>1. chan'[<<a, n>>] = chan[<<a, n>>] /\ chan'[<<n, a>>] = chan[<<n, a>>]
        BY <2>2, <2>3, <3>2 DEF SentTo
      <4> QED BY <4>1, GrowsNot DEF Typed, NetTyped, Chans
    <3> QED BY <3>1, <3>2
  <2> QED BY <2>1, <2>4, <2>5, TargetRests
<1> QED BY <1>1, <1>2

(* Every step of the receiver is one of the four, or the beginning of an   *)
(* exchange whose ACK_ACK is here, and its end.                            *)
LEMMA ReceiverStep ==
    ASSUME Typed, Typed', LabelInv, NEW b \in Node, NEW a \in Node \ {b},
           StartSend(b) \/ Receive(b) \/ Wait(b) \/ Timeout(b)
    PROVE  TargetStep(a, Link(a, b), Link(a, b)')
<1>1. SameSource(Link(a, b), Link(a, b)')
  BY StepOthers, SourceElsewhere
<1>2. CASE Receive(b)
  BY <1>1, <1>2, RecvPendingTarget, RecvMessageTarget, OtherReceiveTarget DEF Receive, TargetStep
<1>3. CASE StartSend(b) \/ Wait(b) \/ Timeout(b)
  BY <1>1, <1>3, StartSendTarget, WaitTarget, SendTimeoutTarget, RecvTimeoutTarget
     DEF Timeout, TargetStep
<1> QED BY <1>2, <1>3

(* A step of n does not touch the channels between others.                 *)
LEMMA ChanElsewhere ==
    ASSUME Typed, NEW n \in Node, NEW x \in Node \ {n}, NEW y \in Node \ {n},
           StartSend(n) \/ Receive(n) \/ Wait(n) \/ Timeout(n)
    PROVE  chan'[<<x, y>>] = chan[<<x, y>>]
<1>1. ASSUME NEW b, NEW f, NEW k, NEW c, DOMAIN c = Node \X Node, Transmit(n, b, f, k, c)
      PROVE  chan'[<<x, y>>] = c[<<x, y>>]
  BY <1>1 DEF Transmit
<1>2. DOMAIN chan = Node \X Node
      /\ \A a : DOMAIN ReadFrom(a, n) = Node \X Node /\ ReadFrom(a, n)[<<x, y>>] = chan[<<x, y>>]
  BY DEF Typed, NetTyped, Chans, ReadFrom
<1>3. ASSUME NEW a, NEW f, NEW p, NEW c, BeginRecv(n, a, f, p, c), DOMAIN c = Node \X Node
      PROVE  chan'[<<x, y>>] = c[<<x, y>>]
  BY <1>1, <1>3 DEF BeginRecv
<1>4. CASE StartSend(n)
  BY <1>1, <1>2, <1>4 DEF StartSend
<1>5. CASE Receive(n)
  <2>1. CASE RecvPending(n)
    BY <1>2, <1>3, <2>1 DEF RecvPending
  <2>2. ASSUME NEW a \in Node, RecvMessage(n, a) PROVE chan'[<<x, y>>] = chan[<<x, y>>]
    BY <1>2, <1>3, <2>2 DEF RecvMessage
  <2>3. ASSUME NEW a \in Node, RecvControl(n, a) PROVE chan'[<<x, y>>] = chan[<<x, y>>]
    BY <1>2, <2>3 DEF RecvControl
  <2>4. CASE SkipMessage(n) \/ NothingToRead(n)
    BY <1>2, <2>4 DEF SkipMessage, NothingToRead
  <2> QED BY <1>5, <2>1, <2>2, <2>3, <2>4 DEF Receive
<1>6. ASSUME NEW a \in Node, WaitMatch(n, a) PROVE chan'[<<x, y>>] = chan[<<x, y>>]
  <2> DEFINE e == ReadFrom(a, n)
  <2>1. DOMAIN e = Node \X Node /\ e[<<x, y>>] = chan[<<x, y>>]
    BY <1>2
  <2>2. CASE FinishSend(n, e)
    <3>1. \E k : Transmit(n, op[n].peer, Control("ACK_ACK", op[n].bit), k, e)
      BY <2>2 DEF FinishSend
    <3> QED BY <1>1, <2>1, <3>1
  <2>3. CASE chan' = e
    BY <2>1, <2>3
  <2> QED BY <1>6, <2>2, <2>3 DEF WaitMatch
<1>7. ASSUME NEW a \in Node, WaitStore(n, a) PROVE chan'[<<x, y>>] = chan[<<x, y>>]
  BY <1>1, <1>2, <1>7 DEF WaitStore
<1>8. CASE Timeout(n)
  BY <1>1, <1>2, <1>8 DEF Timeout, SendTimeout, RecvTimeout
<1> QED BY <1>4, <1>5, <1>6, <1>7, <1>8 DEF Wait

LinkStep(a, b, l, m) == SourceStep(a, b, l, m) \/ TargetStep(a, l, m) \/ m = l

(* What the system does is, between any two nodes, one of these steps.     *)
LEMMA NextLink ==
    ASSUME Typed, Typed', CallInv, LabelInv, [Next]_vars, NEW a \in Node, NEW b \in Node \ {a}
    PROVE  LinkStep(a, b, Link(a, b), Link(a, b)')
<1>1. ASSUME NEW n \in Node, StartSend(n) \/ Receive(n) \/ Wait(n) \/ Timeout(n)
      PROVE  LinkStep(a, b, Link(a, b), Link(a, b)')
  <2>1. CASE n = a
    BY <1>1, <2>1, SenderStep DEF LinkStep
  <2>2. CASE n = b
    BY <1>1, <2>2, ReceiverStep DEF LinkStep
  <2>3. CASE n # a /\ n # b
    <3>1. OthersSame(n)
      BY <1>1, StepOthers
    <3>2. SameSource(Link(a, b), Link(a, b)') /\ SameTarget(Link(a, b), Link(a, b)')
      BY <2>3, <3>1, SourceElsewhere, TargetElsewhere
    <3>3. chan'[<<a, b>>] = chan[<<a, b>>] /\ chan'[<<b, a>>] = chan[<<b, a>>]
      BY <1>1, <2>3, ChanElsewhere
    <3>4. Link(a, b)' = Link(a, b)
      BY <3>2, <3>3 DEF SameSource, SameTarget, Link
    <3> QED BY <3>4 DEF LinkStep
  <2> QED BY <2>1, <2>2, <2>3
<1>2. CASE UNCHANGED vars
  <2>1. Link(a, b)' = Link(a, b)
    BY <1>2 DEF vars, Link, Sending, Confirmed
  <2> QED BY <2>1 DEF LinkStep
<1> QED BY <1>1, <1>2 DEF Next
-----------------------------------------------------------------------------
(* The order of delivery, one direction at a time.                         *)

MessagesIn(q) == {q[i] : i \in {j \in 1 .. Len(q) : q[j].type = "MESSAGE"}}

(* The messages in the queue q are in the order of the sends.              *)
Rising(q) ==
    \A i, j \in 1 .. Len(q) :
        i < j /\ q[i].type = "MESSAGE" /\ q[j].type = "MESSAGE" => q[i].msg[2] <= q[j].msg[2]

(* What rudp_recvfrom has returned of a, and that it is in that order.     *)
From(a, g) == {g[i] : i \in {j \in 1 .. Len(g) : g[j][1] = a}}

Increasing(a, g) ==
    \A i, j \in 1 .. Len(g) : i < j /\ g[i][1] = a /\ g[j][1] = a => g[i][2] < g[j][2]

LEMMA MessageIndex ==
    /\ \A x \in Msg : x[2] \in Nat /\ x = <<x[1], x[2]>>
    /\ \A f \in Messages : f.msg \in Msg /\ f.bit \in 0 .. 1 /\ f.type = "MESSAGE"
<1>1. \A n \in Node : Len(Work[n]) \in Nat
  BY RudpAssumption
<1> QED BY <1>1 DEF Msg, Messages

LEMMA MessagesInType ==
    ASSUME NEW q \in Seq(Frame)
    PROVE  MessagesIn(q) \subseteq Messages
BY IsMessage, ElementType DEF MessagesIn

LEMMA GrowsMessages ==
    ASSUME NEW q \in Seq(Frame), NEW r \in Seq(Frame), NEW F, Grows(q, r, F)
    PROVE  MessagesIn(r) \subseteq MessagesIn(q) \cup (F \cap Messages)
<1>1. Len(q) \in Nat /\ Len(r) \in Nat
  OBVIOUS
<1>2. ASSUME NEW j \in 1 .. Len(r), r[j].type = "MESSAGE"
      PROVE  r[j] \in MessagesIn(q) \cup (F \cap Messages)
  <2>1. CASE j <= Len(q)
    <3>1. j \in 1 .. Len(q) /\ r[j] = q[j]
      BY <1>1, <2>1 DEF Grows
    <3> QED BY <1>2, <3>1 DEF MessagesIn
  <2>2. CASE j > Len(q)
    <3>1. r[j] \in F
      BY <1>1, <2>2 DEF Grows
    <3> QED BY <1>2, <3>1, IsMessage, ElementType
  <2> QED BY <1>1, <2>1, <2>2
<1> QED BY <1>2 DEF MessagesIn

(* A queue stays in order when what comes is not older than what is there. *)
LEMMA GrowsRising ==
    ASSUME NEW q \in Seq(Frame), NEW r \in Seq(Frame), NEW F, Grows(q, r, F), Rising(q),
           NEW n \in Nat, \A f \in MessagesIn(q) : f.msg[2] <= n,
           \A f \in F \cap Messages : f.msg[2] = n
    PROVE  Rising(r)
<1>1. Len(q) \in Nat /\ Len(r) \in Nat
  OBVIOUS
<1>2. SUFFICES ASSUME NEW i \in 1 .. Len(r), NEW j \in 1 .. Len(r), i < j,
                      r[i].type = "MESSAGE", r[j].type = "MESSAGE"
               PROVE  r[i].msg[2] <= r[j].msg[2]
  BY DEF Rising
<1>3. ASSUME NEW x \in 1 .. Len(r), x > Len(q), r[x].type = "MESSAGE" PROVE r[x].msg[2] = n
  <2>1. r[x] \in F
    BY <1>1, <1>3 DEF Grows
  <2> QED BY <2>1, <1>3, IsMessage, ElementType
<1>4. ASSUME NEW x \in 1 .. Len(r), x <= Len(q), r[x].type = "MESSAGE"
      PROVE  x \in 1 .. Len(q) /\ r[x] = q[x] /\ r[x].msg[2] <= n
  <2>1. x \in 1 .. Len(q) /\ r[x] = q[x]
    BY <1>1, <1>4 DEF Grows
  <2>2. q[x] \in MessagesIn(q)
    BY <2>1, <1>4 DEF MessagesIn
  <2> QED BY <2>1, <2>2
<1>5. CASE j <= Len(q)
  <2>1. i \in 1 .. Len(q) /\ r[i] = q[i] /\ j \in 1 .. Len(q) /\ r[j] = q[j]
    BY <1>1, <1>2, <1>4, <1>5
  <2> QED BY <1>2, <2>1 DEF Rising
<1>6. CASE j > Len(q)
  <2>1. r[j].msg[2] = n
    BY <1>2, <1>3, <1>6
  <2>2. CASE i <= Len(q)
    BY <1>2, <1>4, <2>1, <2>2
  <2>3. CASE i > Len(q)
    BY <1>2, <1>3, <2>1, <2>3
  <2> QED BY <1>1, <2>2, <2>3
<1> QED BY <1>1, <1>5, <1>6

LEMMA DropsMessages ==
    ASSUME NEW q \in Seq(Frame), NEW r, Drops(q, r)
    PROVE  /\ r \in Seq(Frame) /\ Head(q) \in Frame
           /\ MessagesIn(r) \subseteq MessagesIn(q)
           /\ Head(q).type = "MESSAGE" => Head(q) \in MessagesIn(q)
           /\ Rising(q) =>
                /\ Rising(r)
                /\ Head(q).type = "MESSAGE" => \A g \in MessagesIn(r) : Head(q).msg[2] <= g.msg[2]
<1>1. /\ Len(q) \in Nat /\ Len(q) > 0 /\ r \in Seq(Frame) /\ Len(r) = Len(q) - 1
      /\ Head(q) = q[1] /\ 1 \in 1 .. Len(q)
      /\ \A i \in 1 .. Len(r) : r[i] = q[i + 1] /\ i + 1 \in 1 .. Len(q)
  BY DEF Drops
<1>2. Head(q) \in Frame /\ (Head(q).type = "MESSAGE" => Head(q) \in MessagesIn(q))
  BY <1>1, ElementType DEF MessagesIn
<1>3. MessagesIn(r) \subseteq MessagesIn(q)
  BY <1>1 DEF MessagesIn
<1>4. ASSUME Rising(q) PROVE Rising(r)
  <2>1. \A i, j \in 1 .. Len(r) : i < j => i + 1 < j + 1
    BY <1>1
  <2> QED BY <1>1, <1>4, <2>1 DEF Rising
<1>5. ASSUME Rising(q), Head(q).type = "MESSAGE", NEW g \in MessagesIn(r)
      PROVE  Head(q).msg[2] <= g.msg[2]
  <2>1. PICK i \in 1 .. Len(r) : g = r[i] /\ r[i].type = "MESSAGE"
    BY <1>5 DEF MessagesIn
  <2>2. 1 < i + 1 /\ i + 1 \in 1 .. Len(q) /\ g = q[i + 1]
    BY <1>1, <2>1
  <2> QED BY <1>1, <1>5, <2>1, <2>2 DEF Rising
<1> QED BY <1>1, <1>2, <1>3, <1>4, <1>5

(* One more message is returned.                                           *)
LEMMA AppendFrom ==
    ASSUME NEW a \in Node, NEW g \in Seq(Msg), NEW x \in Msg, NEW h, h = Append(g, x)
    PROVE  /\ x[1] # a => From(a, h) = From(a, g)
           /\ x[1] = a => From(a, h) = From(a, g) \cup {x}
           /\ Increasing(a, g) /\ (x[1] = a => \A y \in From(a, g) : y[2] < x[2])
                => Increasing(a, h)
<1>1. /\ Len(g) \in Nat /\ Len(h) = Len(g) + 1 /\ h[Len(g) + 1] = x
      /\ \A i \in 1 .. Len(g) : h[i] = g[i]
  OBVIOUS
<1>2. \A i : i \in 1 .. Len(h) <=> i \in 1 .. Len(g) \/ i = Len(g) + 1
  BY <1>1
<1>3. From(a, h) = From(a, g) \cup {y \in {x} : y[1] = a}
  BY <1>1, <1>2 DEF From
<1>4. ASSUME Increasing(a, g), x[1] = a => \A y \in From(a, g) : y[2] < x[2]
      PROVE  Increasing(a, h)
  <2>1. SUFFICES ASSUME NEW i \in 1 .. Len(h), NEW j \in 1 .. Len(h), i < j,
                        h[i][1] = a, h[j][1] = a
                 PROVE  h[i][2] < h[j][2]
    BY DEF Increasing
  <2>2. i \in 1 .. Len(g) /\ h[i] = g[i]
    BY <1>1, <1>2, <2>1
  <2>3. CASE j \in 1 .. Len(g)
    BY <1>1, <1>4, <2>1, <2>2, <2>3 DEF Increasing
  <2>4. CASE j = Len(g) + 1
    <3>1. g[i] \in From(a, g)
      BY <2>1, <2>2 DEF From
    <3> QED BY <1>1, <1>4, <2>1, <2>2, <2>4, <3>1
  <2> QED BY <1>2, <2>3, <2>4
<1> QED BY <1>3, <1>4

(* The same for a direction that goes from l to m when f, a message of a,  *)
(* is returned.  The hypothesis and the conclusion have names so that the  *)
(* lemma can be used where many other facts about l and m are at hand.     *)
Gained(a, l, m, f) == From(a, m.got) = From(a, l.got) \cup {f.msg}

OneMore(a, l, m, f) ==
    l.got \in Seq(Msg) /\ f.msg \in Msg /\ f.msg[1] = a /\ m.got = Append(l.got, f.msg)

(* f is the one message of a that is returned in addition.                 *)
LEMMA OneMoreGot ==
    ASSUME NEW a, NEW l, NEW m, NEW f, OneMore(a, l, m, f)
    PROVE  Gained(a, l, m, f)
<1> DEFINE g == l.got
           h == m.got
           x == f.msg
<1>0. g \in Seq(Msg) /\ x \in Msg /\ x[1] = a /\ h = Append(g, x)
  BY Zenon DEF OneMore
<1> HIDE DEF g, h, x
<1>1. /\ Len(g) \in Nat /\ Len(h) = Len(g) + 1 /\ h[Len(g) + 1] = x
      /\ \A i \in 1 .. Len(g) : h[i] = g[i]
  BY <1>0
<1>2. \A i : i \in 1 .. Len(h) <=> i \in 1 .. Len(g) \/ i = Len(g) + 1
  BY <1>1
<1>3. From(a, h) = From(a, g) \cup {x}
  BY <1>0, <1>1, <1>2 DEF From
<1> QED BY <1>3, Zenon DEF g, h, x, Gained

(* A larger message keeps what was returned in order.                      *)
LEMMA OneMoreRises ==
    ASSUME NEW a \in Node, NEW g \in Seq(Msg), NEW x \in Msg, x[1] = a, NEW h, h = Append(g, x),
           Increasing(a, g), \A y \in From(a, g) : y[2] < x[2]
    PROVE  Increasing(a, h)
BY AppendFrom

(* Every copy of a message that may still be received.                     *)
Copies(l) == MessagesIn(l.c) \cup l.kept \cup l.hand \cup l.cur

(* The copies are a's, of messages it has started, the same message has    *)
(* the same bit, and the copies of a message that was returned have the    *)
(* other bit than the one that is expected.                                *)
CopiesFit(a, l) ==
    /\ \A f \in Copies(l) : f.msg[1] = a /\ f.msg[2] <= l.n
    /\ \A f \in l.cur : f.msg[2] = l.n
    /\ \A x \in From(a, l.got) : x[2] <= l.n
    /\ \A f, g \in Copies(l) : f.msg = g.msg => f.bit = g.bit
    /\ \A f \in Copies(l) : f.msg \in From(a, l.got) => f.bit # l.e
    /\ \A f \in l.hand : f \in l.fresh <=> f.bit = l.e

(* From what was returned over the frame in hand and the pending frames to *)
(* the channel, no message is older than one before it.                    *)
Ordered(a, l) ==
    /\ Rising(l.c)
    /\ \A f \in l.kept, g \in MessagesIn(l.c) : f.msg[2] <= g.msg[2]
    /\ \A f \in l.hand, g \in l.kept \cup MessagesIn(l.c) : f.msg[2] <= g.msg[2]
    /\ \A x \in From(a, l.got), g \in MessagesIn(l.c) \cup l.kept \cup l.hand : x[2] <= g.msg[2]
    /\ Increasing(a, l.got)

OrderInv(a, l) == CopiesFit(a, l) /\ Ordered(a, l)

(* Of one sender's pending messages the oldest is taken first.             *)
FirstOldest(l) ==
    l.at \in {"idle", "recv"} => \A f \in l.first, g \in l.kept : f.msg[2] <= g.msg[2]

LEMMA CopiesType ==
    ASSUME NEW a, NEW l, LinkTyped(l)
    PROVE  /\ Copies(l) \subseteq Messages /\ From(a, l.got) \subseteq Msg
           /\ MessagesIn(l.c) \subseteq Messages
           /\ \A f \in Copies(l) : f.msg \in Msg /\ f.msg[2] \in Nat /\ f.bit \in 0 .. 1
           /\ \A x \in From(a, l.got) : x[2] \in Nat /\ x[1] = a
<1>1. Copies(l) \subseteq Messages /\ MessagesIn(l.c) \subseteq Messages
  BY MessagesInType DEF LinkTyped, Copies
<1>2. From(a, l.got) \subseteq Msg /\ \A x \in From(a, l.got) : x[1] = a
  BY ElementType DEF LinkTyped, From
<1> QED BY <1>1, <1>2, MessageIndex

LEMMA PlainMessages ==
    ASSUME NEW C, C \subseteq Messages
    PROVE  (Plain \cup C) \cap Messages = C /\ NoAcks \cap Messages = Messages
BY IsMessage DEF Plain, NoAcks

(* The sender's steps: the new copies are of its latest message.           *)
LEMMA NewCopies ==
    ASSUME NEW a \in Node, NEW l, NEW m, LinkTyped(l), LinkTyped(m), SameTarget(l, m),
           OrderInv(a, l), l.n <= m.n, Rising(m.c),
           \A f \in Copies(m) : f \in Copies(l)
                \/ (m.n = l.n + 1 /\ f = Message(l.s, <<a, m.n>>)),
           \A f \in m.cur : f.msg[2] = m.n,
           \A f \in MessagesIn(m.c) : f \in MessagesIn(l.c) \/ f.msg[2] = m.n
    PROVE  OrderInv(a, m)
<1> DEFINE G == From(a, l.got)
<1>1. /\ From(a, m.got) = G /\ m.e = l.e /\ m.kept = l.kept /\ m.hand = l.hand
      /\ m.fresh = l.fresh /\ m.got = l.got /\ l.n \in Nat /\ m.n \in Nat
  BY DEF SameTarget, LinkTyped
<1>2. /\ \A f \in Copies(m) : f.msg[2] \in Nat /\ f.msg = <<f.msg[1], f.msg[2]>>
      /\ \A f \in Copies(l) : f.msg[2] \in Nat
      /\ \A x \in G : x[2] \in Nat
  BY CopiesType, MessageIndex
<1>3. /\ \A f \in Copies(l) : f.msg[1] = a /\ f.msg[2] <= l.n
      /\ \A x \in G : x[2] <= l.n
      /\ \A f, g \in Copies(l) : f.msg = g.msg => f.bit = g.bit
      /\ \A f \in Copies(l) : f.msg \in G => f.bit # l.e
      /\ \A f \in l.hand : f \in l.fresh <=> f.bit = l.e
  BY DEF OrderInv, CopiesFit
<1>4. Message(l.s, <<a, m.n>>).msg[1] = a /\ Message(l.s, <<a, m.n>>).msg[2] = m.n
  BY DEF Message
<1> HIDE DEF G
<1>5. ASSUME NEW f \in Copies(m) PROVE f.msg[1] = a /\ f.msg[2] <= m.n
  BY <1>1, <1>2, <1>3, <1>4
<1>6. ASSUME NEW f \in Copies(m), f \notin Copies(l)
      PROVE  /\ f = Message(l.s, <<a, m.n>>) /\ f.msg \notin G
             /\ \A g \in Copies(l) : g.msg # f.msg
  <2>1. m.n = l.n + 1 /\ f = Message(l.s, <<a, m.n>>) /\ f.msg[2] = m.n
    BY <1>4, <1>6
  <2>2. \A x \in G : x[2] # m.n
    BY <1>1, <1>2, <1>3, <2>1
  <2>3. \A g \in Copies(l) : g.msg[2] # m.n
    BY <1>1, <1>2, <1>3, <2>1
  <2> QED BY <2>1, <2>2, <2>3
<1>7. ASSUME NEW f \in Copies(m), NEW g \in Copies(m), f.msg = g.msg PROVE f.bit = g.bit
  BY <1>3, <1>6, <1>7
<1>8. ASSUME NEW f \in Copies(m), f.msg \in G PROVE f.bit # m.e
  BY <1>1, <1>3, <1>6, <1>8
<1>9. CopiesFit(a, m)
  <2>1. \A x \in From(a, m.got) : x[2] <= m.n
    BY <1>1, <1>2, <1>3
  <2> QED BY <1>1, <1>3, <1>5, <1>7, <1>8, <2>1 DEF CopiesFit, G
<1>10. Ordered(a, m)
  <2>1. /\ \A f \in l.kept, g \in MessagesIn(l.c) : f.msg[2] <= g.msg[2]
        /\ \A f \in l.hand, g \in l.kept \cup MessagesIn(l.c) : f.msg[2] <= g.msg[2]
        /\ \A x \in G, g \in MessagesIn(l.c) \cup l.kept \cup l.hand : x[2] <= g.msg[2]
        /\ Increasing(a, l.got)
    BY DEF OrderInv, Ordered, G
  <2>2. l.kept \subseteq Copies(l) /\ l.hand \subseteq Copies(l)
    BY DEF Copies
  <2>3. ASSUME NEW g \in MessagesIn(m.c), g \notin MessagesIn(l.c)
        PROVE  /\ \A f \in l.kept \cup l.hand : f.msg[2] <= g.msg[2]
               /\ \A x \in G : x[2] <= g.msg[2]
    <3>1. g.msg[2] = m.n
      BY <2>3
    <3> QED BY <1>1, <1>2, <1>3, <2>2, <3>1
  <2>4. \A f \in m.kept, g \in MessagesIn(m.c) : f.msg[2] <= g.msg[2]
    BY <1>1, <2>1, <2>3
  <2>5. \A f \in m.hand, g \in m.kept \cup MessagesIn(m.c) : f.msg[2] <= g.msg[2]
    BY <1>1, <2>1, <2>3
  <2>6. \A x \in G, g \in MessagesIn(m.c) \cup m.kept \cup m.hand : x[2] <= g.msg[2]
    BY <1>1, <2>1, <2>3
  <2> QED BY <1>1, <2>1, <2>4, <2>5, <2>6 DEF Ordered
<1> QED BY <1>9, <1>10 DEF OrderInv

LEMMA SourceOrder ==
    ASSUME NEW a \in Node, NEW b, NEW l, NEW m, LinkTyped(l), LinkTyped(m),
           SourceStep(a, b, l, m), OrderInv(a, l)
    PROVE  OrderInv(a, m)
<1>1. SameTarget(l, m) /\ l.c \in Seq(Frame) /\ m.c \in Seq(Frame) /\ l.n \in Nat /\ m.n \in Nat
  BY DEF SourceStep, LinkTyped
<1>2. l.cur \subseteq Messages
  BY DEF LinkTyped
<1>3. \A f \in Copies(l) : f.msg[2] \in Nat /\ f.msg[2] <= l.n
  BY CopiesType DEF OrderInv, CopiesFit
<1>4. Rising(l.c) /\ \A f \in l.cur : f.msg[2] = l.n
  BY DEF OrderInv, CopiesFit, Ordered
<1>5. /\ MessagesIn(l.c) \subseteq Copies(l) /\ l.cur \subseteq Copies(l)
      /\ m.kept \subseteq Copies(l) /\ m.hand \subseteq Copies(l)
  BY <1>1 DEF Copies, SameTarget
<1>6. CASE SourceQuiet(l, m)
  <2>1. m.cur \subseteq l.cur /\ (m.n = l.n \/ (l.cur = {} /\ m.n = l.n + 1))
        /\ Grows(l.c, m.c, Plain \cup l.cur)
    BY <1>6 DEF SourceQuiet
  <2>2. (Plain \cup l.cur) \cap Messages = l.cur
    BY <1>2, PlainMessages
  <2>3. Rising(m.c)
    BY <1>1, <1>3, <1>4, <1>5, <2>1, <2>2, GrowsRising
  <2>4. MessagesIn(m.c) \subseteq MessagesIn(l.c) \cup l.cur
    BY <1>1, <2>1, <2>2, GrowsMessages
  <2>5. \A f \in Copies(m) : f \in Copies(l)
    BY <1>5, <2>1, <2>4 DEF Copies
  <2>6. l.n <= m.n /\ \A f \in m.cur : f.msg[2] = m.n
    BY <1>1, <1>4, <2>1
  <2>7. \A f \in MessagesIn(m.c) : f \in MessagesIn(l.c) \/ f.msg[2] = m.n
    BY <1>4, <2>1, <2>4
  <2> QED BY <1>1, <2>3, <2>5, <2>6, <2>7, NewCopies
<1>7. CASE SourceStart(a, b, l, m)
  <2> DEFINE f == Message(l.s, <<a, l.n + 1>>)
  <2>1. m.cur \subseteq {f} /\ m.n = l.n + 1 /\ Grows(l.c, m.c, {f})
    BY <1>7 DEF SourceStart
  <2>2. f.msg[2] = m.n
    BY <2>1 DEF Message
  <2> HIDE DEF f
  <2>3. \A g \in {f} \cap Messages : g.msg[2] = m.n
    BY <2>2
  <2>4. \A g \in MessagesIn(l.c) : g.msg[2] <= m.n
    BY <1>1, <1>3, <1>5, <2>1
  <2>5. Rising(m.c)
    BY <1>1, <1>4, <2>1, <2>3, <2>4, GrowsRising
  <2>6. MessagesIn(m.c) \subseteq MessagesIn(l.c) \cup {f}
    BY <1>1, <2>1, GrowsMessages
  <2>7. \A g \in Copies(m) : g \in Copies(l) \/ g = f
    BY <1>5, <2>1, <2>6 DEF Copies
  <2>8. l.n <= m.n /\ \A g \in m.cur : g.msg[2] = m.n
    BY <1>1, <2>1, <2>2
  <2>9. \A g \in MessagesIn(m.c) : g \in MessagesIn(l.c) \/ g.msg[2] = m.n
    BY <2>2, <2>6
  <2>10. \A g \in Copies(m) : g \in Copies(l) \/ (m.n = l.n + 1 /\ g = Message(l.s, <<a, m.n>>))
    BY <2>1, <2>7 DEF f
  <2> QED BY <1>1, <2>5, <2>8, <2>9, <2>10, NewCopies
<1>8. CASE SourceOk(l, m)
  <2>1. m.cur = {} /\ m.n = l.n /\ Grows(l.c, m.c, Plain)
    BY <1>8 DEF SourceOk
  <2>2. Plain \cap Messages = {}
    BY IsMessage DEF Plain
  <2>3. Rising(m.c)
    BY <1>1, <1>3, <1>4, <1>5, <2>1, <2>2, GrowsRising
  <2>4. MessagesIn(m.c) \subseteq MessagesIn(l.c)
    BY <1>1, <2>1, <2>2, GrowsMessages
  <2>5. \A f \in Copies(m) : f \in Copies(l)
    BY <1>5, <2>1, <2>4 DEF Copies
  <2>6. l.n <= m.n /\ \A f \in m.cur : f.msg[2] = m.n
    BY <1>1, <2>1
  <2> QED BY <1>1, <2>3, <2>4, <2>5, <2>6, NewCopies
<1> QED BY <1>6, <1>7, <1>8 DEF SourceStep

(* Copies are moved or lost, and nothing is returned.                      *)
LEMMA MovedCopies ==
    ASSUME NEW a, NEW l, NEW m, LinkTyped(l), SameSource(l, m), CopiesFit(a, l),
           MessagesIn(m.c) \subseteq Copies(l), m.kept \subseteq Copies(l),
           m.hand \subseteq Copies(l), From(a, m.got) = From(a, l.got), m.e = l.e,
           \A f \in m.hand : f \in m.fresh <=> f.bit = m.e
    PROVE  CopiesFit(a, m)
<1>1. \A f \in Copies(m) : f \in Copies(l)
  BY DEF Copies, SameSource
<1> QED BY <1>1, Zenon DEF CopiesFit, SameSource

LEMMA QuietOrder ==
    ASSUME NEW a \in Node, NEW l, NEW m, LinkTyped(l), LinkTyped(m), SameSource(l, m),
           TargetQuiet(a, l, m), OrderInv(a, l)
    PROVE  OrderInv(a, m)
<1>1. l.c \in Seq(Frame) /\ l.got \in Seq(Msg)
  BY DEF LinkTyped
<1>2. MessagesIn(m.c) \subseteq MessagesIn(l.c) /\ Rising(m.c)
  <2>1. m.c = l.c \/ Drops(l.c, m.c)
    BY DEF TargetQuiet
  <2> QED BY <1>1, <2>1, DropsMessages DEF OrderInv, Ordered
<1>3. From(a, m.got) = From(a, l.got) /\ Increasing(a, m.got)
  <2>1. m.got = l.got \/ \E g \in Msg : g[1] # a /\ m.got = Append(l.got, g)
    BY DEF TargetQuiet
  <2> QED BY <1>1, <2>1, AppendFrom DEF OrderInv, Ordered
<1>4. m.kept \subseteq l.kept /\ m.hand = l.hand /\ m.fresh = l.fresh /\ m.e = l.e
  BY DEF TargetQuiet
<1>5. CopiesFit(a, m)
  <2>1. \A f \in m.hand : f \in m.fresh <=> f.bit = m.e
    BY <1>4 DEF OrderInv, CopiesFit
  <2>2. MessagesIn(m.c) \subseteq Copies(l) /\ m.kept \subseteq Copies(l) /\ m.hand \subseteq Copies(l)
    BY <1>2, <1>4 DEF Copies
  <2> QED BY <1>3, <1>4, <2>1, <2>2, MovedCopies DEF OrderInv
<1>6. Ordered(a, m)
  BY <1>2, <1>3, <1>4 DEF OrderInv, Ordered
<1> QED BY <1>5, <1>6 DEF OrderInv

LEMMA StoreOrder ==
    ASSUME NEW a \in Node, NEW l, NEW m, LinkTyped(l), LinkTyped(m), SameSource(l, m),
           TargetStore(l, m), OrderInv(a, l)
    PROVE  OrderInv(a, m)
<1> DEFINE f == Head(l.c)
<1>1. l.c \in Seq(Frame) /\ Drops(l.c, m.c) /\ f.type = "MESSAGE" /\ Rising(l.c)
  BY DEF LinkTyped, TargetStore, OrderInv, Ordered
<1>2. /\ MessagesIn(m.c) \subseteq MessagesIn(l.c) /\ f \in MessagesIn(l.c) /\ Rising(m.c)
      /\ \A g \in MessagesIn(m.c) : f.msg[2] <= g.msg[2]
  BY <1>1, DropsMessages
<1>3. /\ m.kept = l.kept \cup {f} /\ m.hand = l.hand /\ m.fresh = l.fresh /\ m.e = l.e
      /\ m.got = l.got
  BY DEF TargetStore
<1> HIDE DEF f
<1>4. CopiesFit(a, m)
  <2>1. \A g \in m.hand : g \in m.fresh <=> g.bit = m.e
    BY <1>3 DEF OrderInv, CopiesFit
  <2>2. MessagesIn(m.c) \subseteq Copies(l) /\ m.kept \subseteq Copies(l) /\ m.hand \subseteq Copies(l)
    BY <1>2, <1>3 DEF Copies
  <2> QED BY <1>3, <2>1, <2>2, MovedCopies DEF OrderInv
<1>5. Ordered(a, m)
  BY <1>2, <1>3 DEF OrderInv, Ordered
<1> QED BY <1>4, <1>5 DEF OrderInv

LEMMA BeginOrder ==
    ASSUME NEW a \in Node, NEW l, NEW m, LinkTyped(l), LinkTyped(m), SameSource(l, m),
           TargetBegin(l, m), OrderInv(a, l), FirstOldest(l)
    PROVE  OrderInv(a, m)
<1>1. PICK f \in Messages :
        /\ \/ Drops(l.c, m.c) /\ f = Head(l.c) /\ l.kept = {} /\ m.kept = {}
           \/ /\ f \in l.first /\ l.at \in {"idle", "recv"} /\ m.c = l.c
              /\ m.kept \subseteq l.kept /\ l.kept \ {f} \subseteq m.kept
        /\ m.hand = {f} /\ m.fresh = {g \in {f} : g.bit = l.e}
        /\ m.e = l.e /\ m.got = l.got
  BY DEF TargetBegin
<1>2. l.c \in Seq(Frame) /\ Rising(l.c) /\ f.type = "MESSAGE" /\ l.first \subseteq l.kept
  BY MessageIndex DEF LinkTyped, OrderInv, Ordered
<1>3. /\ MessagesIn(m.c) \subseteq MessagesIn(l.c) /\ m.kept \subseteq l.kept /\ Rising(m.c)
      /\ f \in l.kept \cup MessagesIn(l.c)
      /\ \A g \in m.kept \cup MessagesIn(m.c) : f.msg[2] <= g.msg[2]
  <2>1. CASE Drops(l.c, m.c) /\ f = Head(l.c) /\ l.kept = {} /\ m.kept = {}
    BY <1>2, <2>1, DropsMessages
  <2>2. CASE /\ f \in l.first /\ l.at \in {"idle", "recv"} /\ m.c = l.c
             /\ m.kept \subseteq l.kept
    <3>1. \A g \in l.kept : f.msg[2] <= g.msg[2]
      BY <2>2 DEF FirstOldest
    <3>2. \A g \in MessagesIn(l.c) : f.msg[2] <= g.msg[2]
      BY <1>2, <2>2 DEF OrderInv, Ordered
    <3> QED BY <1>2, <2>2, <3>1, <3>2
  <2> QED BY <1>1, <2>1, <2>2
<1>4. CopiesFit(a, m)
  <2>1. \A g \in m.hand : g \in m.fresh <=> g.bit = m.e
    BY <1>1
  <2>2. MessagesIn(m.c) \subseteq Copies(l) /\ m.kept \subseteq Copies(l) /\ m.hand \subseteq Copies(l)
    BY <1>1, <1>3 DEF Copies
  <2> QED BY <1>1, <2>1, <2>2, MovedCopies DEF OrderInv
<1>5. Ordered(a, m)
  BY <1>1, <1>3 DEF OrderInv, Ordered
<1> QED BY <1>4, <1>5 DEF OrderInv

LEMMA EndOrder ==
    ASSUME NEW a \in Node, NEW l, NEW m, LinkTyped(l), LinkTyped(m), SameSource(l, m),
           TargetEnd(l, m), OrderInv(a, l)
    PROVE  OrderInv(a, m)
<1>1. PICK f \in Messages :
        /\ l.hand = {f} /\ m.hand = {} /\ m.fresh = {} /\ m.kept = l.kept
        /\ m.c = l.c \/ Drops(l.c, m.c)
        /\ IF f \in l.fresh THEN m.e = 1 - l.e /\ m.got = Append(l.got, f.msg)
                            ELSE m.e = l.e /\ m.got = l.got
  BY DEF TargetEnd
<1>2. l.c \in Seq(Frame) /\ l.got \in Seq(Msg) /\ l.e \in 0 .. 1 /\ Rising(l.c) /\ f.msg \in Msg
  BY MessageIndex DEF LinkTyped, OrderInv, Ordered
<1>3. MessagesIn(m.c) \subseteq MessagesIn(l.c) /\ Rising(m.c)
  BY <1>1, <1>2, DropsMessages
<1>4. CASE f \notin l.fresh
  <2>1. MessagesIn(m.c) \subseteq Copies(l) /\ m.kept \subseteq Copies(l) /\ m.hand \subseteq Copies(l)
    BY <1>1, <1>3 DEF Copies
  <2>2. m.e = l.e /\ m.got = l.got /\ m.hand = {} /\ m.kept = l.kept
    BY <1>1, <1>4
  <2>3. CopiesFit(a, m)
    BY <2>1, <2>2, MovedCopies DEF OrderInv
  <2>4. Ordered(a, m)
    BY <1>3, <2>2 DEF OrderInv, Ordered
  <2> QED BY <2>3, <2>4 DEF OrderInv
<1>5. CASE f \in l.fresh
  <2> DEFINE G == From(a, l.got)
             C == MessagesIn(l.c) \cup l.kept
  <2>1. m.e = 1 - l.e /\ m.got = Append(l.got, f.msg) /\ m.kept = l.kept /\ m.hand = {}
        /\ f \in l.hand /\ f \in Copies(l)
    BY <1>1, <1>5 DEF Copies
  <2>2. /\ \A g \in Copies(l) : g.msg[1] = a /\ g.msg[2] \in Nat /\ g.msg[2] <= l.n
        /\ \A g \in Copies(l) : g.msg = <<g.msg[1], g.msg[2]>> /\ g.bit \in 0 .. 1
        /\ \A x \in G : x[2] \in Nat /\ x = <<a, x[2]>>
        /\ l.n \in Nat
    <3>1. /\ \A g \in Copies(l) : g.msg \in Msg /\ g.msg[2] \in Nat /\ g.bit \in 0 .. 1
          /\ \A x \in G : x \in Msg /\ x[2] \in Nat /\ x[1] = a
      BY CopiesType
    <3>2. /\ \A g \in Copies(l) : g.msg = <<g.msg[1], g.msg[2]>>
          /\ \A x \in G : x = <<a, x[2]>>
      BY <3>1, MessageIndex
    <3>3. l.n \in Nat /\ \A g \in Copies(l) : g.msg[1] = a /\ g.msg[2] <= l.n
      BY DEF OrderInv, CopiesFit, LinkTyped
    <3> QED BY <3>1, <3>2, <3>3
  <2>3. f.bit = l.e /\ f.msg \notin G
    BY <1>5, <2>1 DEF OrderInv, CopiesFit
  <2>4. \A x \in G : x[2] < f.msg[2]
    <3>1. \A x \in G : x[2] <= f.msg[2]
      BY <2>1 DEF OrderInv, Ordered
    <3>2. \A x \in G : x[2] # f.msg[2]
      BY <2>1, <2>2, <2>3
    <3> QED BY <2>1, <2>2, <3>1, <3>2
  <2>5. From(a, m.got) = G \cup {f.msg} /\ Increasing(a, m.got)
    <3>1. f.msg[1] = a /\ Increasing(a, l.got)
      BY <2>1, <2>2 DEF OrderInv, Ordered
    <3>2. l.got \in Seq(Msg) /\ f.msg \in Msg /\ m.got = Append(l.got, f.msg)
      BY <1>2, <2>1
    <3>3. OneMore(a, l, m, f)
      BY <3>1, <3>2, Zenon DEF OneMore
    <3>5. Gained(a, l, m, f)
      BY <3>3, OneMoreGot, Zenon
    <3>4. Increasing(a, m.got)
      BY <2>4, <3>1, <3>2, OneMoreRises, Zenon
    <3> QED BY <3>4, <3>5, Zenon DEF Gained
  <2>6. \A g \in C : f.msg[2] <= g.msg[2]
    BY <2>1 DEF OrderInv, Ordered
  <2>7. C \subseteq Copies(l) /\ l.cur \subseteq Copies(l) /\ \A g \in Copies(m) : g \in C \cup l.cur
    BY <1>3, <2>1 DEF Copies, SameSource
  <2>8. \A g \in l.cur : g.msg[2] = l.n /\ f.msg[2] <= g.msg[2]
    BY <2>1, <2>2 DEF OrderInv, CopiesFit
  <2> HIDE DEF G, C
  <2>9. ASSUME NEW g \in Copies(m), g.msg \in G \cup {f.msg} PROVE g.bit # m.e
    <3>1. g \in Copies(l) /\ f.msg[2] <= g.msg[2]
      BY <2>6, <2>7, <2>8
    <3>2. g.msg \notin G
      BY <2>1, <2>2, <2>4, <3>1
    <3>3. g.bit = f.bit
      BY <2>1, <2>9, <3>1, <3>2 DEF OrderInv, CopiesFit
    <3> QED BY <1>2, <2>1, <2>3, <3>3
  <2>10. CopiesFit(a, m)
    <3>1. \A g, h \in Copies(m) : g.msg = h.msg => g.bit = h.bit
      BY <2>7 DEF OrderInv, CopiesFit
    <3>2. \A x \in G \cup {f.msg} : x[2] <= l.n
      BY <2>1, <2>2 DEF OrderInv, CopiesFit, G
    <3>3. m.cur = l.cur /\ m.n = l.n
      BY DEF SameSource
    <3>4. \A g \in Copies(m) : g.msg[1] = a /\ g.msg[2] <= m.n
      BY <2>2, <2>7, <3>3
    <3> QED BY <2>1, <2>5, <2>8, <2>9, <3>1, <3>2, <3>3, <3>4 DEF CopiesFit
  <2>11. Ordered(a, m)
    <3>1. \A g \in m.kept, h \in MessagesIn(m.c) : g.msg[2] <= h.msg[2]
      BY <1>3, <2>1 DEF OrderInv, Ordered
    <3>2. \A g \in MessagesIn(m.c) \cup m.kept : g \in C /\ g \in Copies(l)
      BY <1>3, <2>1, <2>7 DEF C
    <3>3. \A x \in G \cup {f.msg}, g \in MessagesIn(m.c) \cup m.kept : x[2] <= g.msg[2]
      BY <2>1, <2>2, <2>4, <2>6, <3>2
    <3> QED BY <1>3, <2>1, <2>5, <3>1, <3>3 DEF Ordered
  <2> QED BY <2>10, <2>11 DEF OrderInv
<1> QED BY <1>4, <1>5

(* Every step of the two nodes keeps one direction in order, if the oldest *)
(* pending message is taken first.                                         *)
LEMMA LinkOrder ==
    ASSUME NEW a \in Node, NEW b, NEW l, NEW m, LinkTyped(l), LinkTyped(m),
           LinkStep(a, b, l, m), OrderInv(a, l), FirstOldest(l)
    PROVE  OrderInv(a, m)
<1>1. CASE SourceStep(a, b, l, m)
  BY <1>1, SourceOrder
<1>2. CASE TargetStep(a, l, m)
  <2>1. SameSource(l, m)
    BY <1>2 DEF TargetStep
  <2>2. CASE TargetQuiet(a, l, m) \/ TargetStore(l, m) \/ TargetBegin(l, m) \/ TargetEnd(l, m)
    BY <2>1, <2>2, QuietOrder, StoreOrder, BeginOrder, EndOrder
  <2>3. ASSUME NEW h, LinkTyped(h), SameSource(l, h), TargetBegin(l, h),
               SameSource(h, m), TargetEnd(h, m)
        PROVE  OrderInv(a, m)
    BY <2>3, BeginOrder, EndOrder
  <2> QED BY <1>2, <2>2, <2>3 DEF TargetStep
<1> QED BY <1>1, <1>2 DEF LinkStep

(* A free array takes a sender's pending messages in the order in which    *)
(* it was sent them.                                                       *)
OldestFirst ==
    \A b \in Node : op[b] \in {Idle, Recv} /\ MessageSlots(pend[b]) # {} =>
        LET first == pend[b][Min(MessageSlots(pend[b]))]
        IN  \A i \in MessageSlots(pend[b]) :
                pend[b][i].from = first.from => first.frame.msg[2] <= pend[b][i].frame.msg[2]

LEMMA OldestIsFirst ==
    ASSUME Typed, OldestFirst, NEW a \in Node, NEW b \in Node
    PROVE  FirstOldest(Link(a, b))
<1> DEFINE p == pend[b]
<1>1. SUFFICES ASSUME op[b].at \in {"idle", "recv"},
                      NEW i \in SlotsOf(p, a), i = Min(MessageSlots(p)), NEW j \in SlotsOf(p, a)
               PROVE  p[i].frame.msg[2] <= p[j].frame.msg[2]
  BY DEF FirstOldest, Link, First, Kept
<1>2. op[b] \in {Idle, Recv}
  BY <1>1 DEF Typed, OpTyped, Op, Idle, Recv, Skip, SendOp, RecvOp
<1>3. i \in MessageSlots(p) /\ p[i].from = a /\ j \in MessageSlots(p) /\ p[j].from = a
  BY DEF SlotsOf
<1> QED BY <1>1, <1>2, <1>3 DEF OldestFirst

LinksTyped == \A a, b \in Node : LinkTyped(Link(a, b))

LEMMA TypedLinks == Typed => LinksTyped
BY LinkType DEF LinksTyped

LEMMA TypedLinksNext == Typed' => LinksTyped'
BY TypedLinks, PTL

DirectionsOrdered == \A a \in Node : \A b \in Node \ {a} : OrderInv(a, Link(a, b))

LEMMA InitOrder == Init => DirectionsOrdered
<1> SUFFICES ASSUME Init, NEW a \in Node, NEW b \in Node \ {a} PROVE OrderInv(a, Link(a, b))
  BY DEF DirectionsOrdered
<1> DEFINE l == Link(a, b)
<1>1. /\ l.c = << >> /\ l.kept = {} /\ l.hand = {} /\ l.cur = {} /\ l.fresh = {} /\ l.got = << >>
  BY DEF Init, Link, Kept, SlotsOf, MessageSlots, InHand, Fresh, Sending, Idle
<1> HIDE DEF l
<1>2. MessagesIn(l.c) = {} /\ From(a, l.got) = {} /\ Rising(l.c) /\ Increasing(a, l.got)
  BY <1>1 DEF MessagesIn, From, Rising, Increasing
<1>3. Copies(l) = {}
  BY <1>1, <1>2 DEF Copies
<1>4. OrderInv(a, l)
  BY <1>1, <1>2, <1>3 DEF OrderInv, CopiesFit, Ordered
<1> QED BY <1>4 DEF l

LEMMA NextOrder ==
    Typed /\ Typed' /\ CallInv /\ LabelInv /\ OldestFirst /\ DirectionsOrdered /\ [Next]_vars
        => DirectionsOrdered'
<1> SUFFICES ASSUME Typed, Typed', CallInv, LabelInv, OldestFirst, DirectionsOrdered, [Next]_vars
             PROVE  DirectionsOrdered'
  OBVIOUS
<1>1. ASSUME NEW a \in Node, NEW b \in Node \ {a} PROVE OrderInv(a, Link(a, b)')
  <2>1. LinkStep(a, b, Link(a, b), Link(a, b)')
    BY NextLink
  <2>2. LinkTyped(Link(a, b)) /\ LinkTyped(Link(a, b)')
    BY TypedLinks, TypedLinksNext DEF LinksTyped
  <2> QED BY <2>1, <2>2, LinkOrder, OldestIsFirst DEF DirectionsOrdered
<1> QED BY <1>1 DEF DirectionsOrdered

LEMMA OrderedIsInOrder ==
    ASSUME Typed, LabelInv, DirectionsOrdered
    PROVE  InOrder
<1> SUFFICES ASSUME NEW n \in Node, NEW i \in 1 .. Len(got[n]), NEW j \in 1 .. Len(got[n]),
                    i < j, got[n][i][1] = got[n][j][1]
             PROVE  got[n][i][2] < got[n][j][2]
  BY DEF InOrder, InSendOrder
<1> DEFINE a == got[n][i][1]
<1>1. got[n] \in Seq(Msg)
  BY DEF Typed, RecvTyped
<1>2. got[n][i] \in Msg
  BY <1>1, ElementType
<1>3. a \in Node \ {n}
  BY <1>2 DEF LabelInv, NodeLabels, GotLabels, Msg
<1>4. Increasing(a, got[n])
  BY <1>3 DEF DirectionsOrdered, OrderInv, Ordered, Link
<1> QED BY <1>4 DEF Increasing

(* While a node takes its pending messages of one sender oldest first,     *)
(* rudp_recvfrom returns no message twice and none after a later one of    *)
(* the same sender, whatever is lost, repeated, given up or kept meanwhile.*)
THEOREM DeliveredInOrder == Spec /\ []OldestFirst => []InOrder
<1>1. Typed /\ LabelInv /\ DirectionsOrdered => InOrder
  BY OrderedIsInOrder
<1> QED BY <1>1, InitOrder, NextOrder, TypedAlways, CallAlways, LabelAlways, PTL DEF Spec

-----------------------------------------------------------------------------
(* The alternating bit, one direction at a time.                           *)

(* Of the sends in O, none, one, more than one returned 0 from i on.       *)
NoneSince(O, i) == \A o \in O : o < i

OneSince(O, i) == \E c \in O : i <= c /\ \A o \in O : i <= o => o = c

MoreSince(O, i) == \E c, d \in O : i <= c /\ c < d

LEMMA SinceExclusive ==
    ASSUME NEW O, O \subseteq Nat, NEW i \in Nat
    PROVE  /\ OneSince(O, i) => ~NoneSince(O, i)
           /\ MoreSince(O, i) => ~NoneSince(O, i) /\ ~OneSince(O, i)
<1>1. OneSince(O, i) => ~NoneSince(O, i)
  BY DEF OneSince, NoneSince
<1>2. ASSUME NEW c \in O, NEW d \in O, i <= c, c < d
      PROVE  ~NoneSince(O, i) /\ ~OneSince(O, i)
  <2>1. i <= d /\ c # d /\ ~(c < i)
    BY <1>2
  <2> QED BY <1>2, <2>1 DEF OneSince, NoneSince
<1> QED BY <1>1, <1>2 DEF MoreSince

(* The send n returns 0, after all of O.                                   *)
LEMMA OneMoreSince ==
    ASSUME NEW O, O \subseteq Nat, NEW n \in Nat, \A o \in O : o < n, NEW i \in Nat, i <= n
    PROVE  /\ NoneSince(O, i) => OneSince(O \cup {n}, i)
           /\ ~NoneSince(O, i) => MoreSince(O \cup {n}, i)
           /\ ~NoneSince(O \cup {n}, i)
<1>1. NoneSince(O, i) => OneSince(O \cup {n}, i)
  BY DEF NoneSince, OneSince
<1>2. ~NoneSince(O, i) => MoreSince(O \cup {n}, i)
  <2>1. ASSUME NEW o \in O, ~(o < i) PROVE i <= o /\ o < n
    BY <2>1
  <2> QED BY <2>1 DEF NoneSince, MoreSince
<1>3. ~NoneSince(O \cup {n}, i)
  BY DEF NoneSince
<1> QED BY <1>1, <1>2, <1>3

(* Once a frame of type t in the queue has this bit, all after it have.    *)
Turns(q, t, bit) ==
    \A i, j \in 1 .. Len(q) :
        i < j /\ q[i].type = t /\ q[j].type = t /\ q[i].bit = bit => q[j].bit = bit

OfType(q, t) == {q[i] : i \in {j \in 1 .. Len(q) : q[j].type = t}}

LEMMA TypeInMessages ==
    ASSUME NEW q PROVE MessagesIn(q) = OfType(q, "MESSAGE")
BY DEF MessagesIn, OfType

LEMMA GrowsType ==
    ASSUME NEW q \in Seq(Frame), NEW r \in Seq(Frame), NEW F, Grows(q, r, F), NEW t
    PROVE  OfType(r, t) \subseteq OfType(q, t) \cup {f \in F : f.type = t}
<1>1. Len(q) \in Nat /\ Len(r) \in Nat
  OBVIOUS
<1>2. ASSUME NEW j \in 1 .. Len(r), r[j].type = t
      PROVE  r[j] \in OfType(q, t) \cup {f \in F : f.type = t}
  <2>1. CASE j <= Len(q)
    <3>1. j \in 1 .. Len(q) /\ r[j] = q[j]
      BY <1>1, <2>1 DEF Grows
    <3> QED BY <1>2, <3>1 DEF OfType
  <2>2. CASE j > Len(q)
    <3>1. r[j] \in F
      BY <1>1, <2>2 DEF Grows
    <3> QED BY <1>2, <3>1
  <2> QED BY <1>1, <2>1, <2>2
<1> QED BY <1>2 DEF OfType

LEMMA NoTurn ==
    ASSUME NEW q \in Seq(Frame), NEW t, NEW bit, \A f \in OfType(q, t) : f.bit # bit
    PROVE  Turns(q, t, bit)
BY DEF Turns, OfType

(* The frames that come have the bit, or nothing that is there has it.     *)
LEMMA GrowsTurns ==
    ASSUME NEW q \in Seq(Frame), NEW r \in Seq(Frame), NEW F, Grows(q, r, F), NEW t, NEW bit,
           Turns(q, t, bit),
           \/ \A f \in F : f.type = t => f.bit = bit
           \/ /\ \A f \in F : f.type = t => f.bit # bit
              /\ \A f \in OfType(q, t) : f.bit # bit
    PROVE  Turns(r, t, bit)
<1>1. Len(q) \in Nat /\ Len(r) \in Nat
  OBVIOUS
<1>2. CASE \A f \in F : f.type = t => f.bit = bit
  <2>1. SUFFICES ASSUME NEW i \in 1 .. Len(r), NEW j \in 1 .. Len(r), i < j,
                        r[i].type = t, r[j].type = t, r[i].bit = bit
                 PROVE  r[j].bit = bit
    BY DEF Turns
  <2>2. CASE j <= Len(q)
    <3>1. i \in 1 .. Len(q) /\ j \in 1 .. Len(q) /\ r[i] = q[i] /\ r[j] = q[j]
      BY <1>1, <2>1, <2>2 DEF Grows
    <3> QED BY <2>1, <3>1 DEF Turns
  <2>3. CASE j > Len(q)
    <3>1. r[j] \in F
      BY <1>1, <2>3 DEF Grows
    <3> QED BY <1>2, <2>1, <3>1
  <2> QED BY <1>1, <2>2, <2>3
<1>3. CASE /\ \A f \in F : f.type = t => f.bit # bit
           /\ \A f \in OfType(q, t) : f.bit # bit
  <2>1. \A f \in OfType(r, t) : f.bit # bit
    BY <1>3, GrowsType
  <2> QED BY <2>1, NoTurn
<1> QED BY <1>2, <1>3

LEMMA DropsTurns ==
    ASSUME NEW q \in Seq(Frame), NEW r, Drops(q, r), NEW t
    PROVE  /\ r \in Seq(Frame) /\ Head(q) \in Frame
           /\ OfType(r, t) \subseteq OfType(q, t)
           /\ Head(q).type = t => Head(q) \in OfType(q, t)
           /\ \A bit : Turns(q, t, bit) =>
                /\ Turns(r, t, bit)
                /\ Head(q).type = t /\ Head(q).bit = bit => \A g \in OfType(r, t) : g.bit = bit
<1>1. /\ Len(q) \in Nat /\ Len(q) > 0 /\ r \in Seq(Frame) /\ Len(r) = Len(q) - 1
      /\ Head(q) = q[1] /\ 1 \in 1 .. Len(q)
      /\ \A i \in 1 .. Len(r) : r[i] = q[i + 1] /\ i + 1 \in 1 .. Len(q)
  BY DEF Drops
<1>2. Head(q) \in Frame /\ (Head(q).type = t => Head(q) \in OfType(q, t))
  BY <1>1, ElementType DEF OfType
<1>3. OfType(r, t) \subseteq OfType(q, t)
  BY <1>1 DEF OfType
<1>4. ASSUME NEW bit, Turns(q, t, bit) PROVE Turns(r, t, bit)
  <2>1. \A i, j \in 1 .. Len(r) : i < j => i + 1 < j + 1
    BY <1>1
  <2>2. \A i \in 1 .. Len(r) : r[i] = q[i + 1] /\ i + 1 \in 1 .. Len(q)
    BY <1>1
  <2> QED BY <1>4, <2>1, <2>2, Zenon DEF Turns
<1>5. ASSUME NEW bit, Turns(q, t, bit), Head(q).type = t, Head(q).bit = bit,
             NEW g \in OfType(r, t)
      PROVE  g.bit = bit
  <2>1. PICK i \in 1 .. Len(r) : g = r[i] /\ r[i].type = t
    BY <1>5 DEF OfType
  <2>2. 1 < i + 1 /\ i + 1 \in 1 .. Len(q) /\ g = q[i + 1]
    BY <1>1, <2>1
  <2> QED BY <1>1, <1>5, <2>1, <2>2 DEF Turns
<1> QED BY <1>1, <1>2, <1>3, <1>4, <1>5

(* The sends of a to b up to the n-th.                                     *)
StartedTo(a, b, n) == {i \in 1 .. n : Work[a][i].to = b}

(* The bit of the send i was not left behind by a failed one: of the sends *)
(* T before i the last one is in O.                                        *)
InStepOf(T, O, i) ==
    \A q \in T : q < i => \E p \in O : p < i /\ \A r \in T : r < i => r <= p

Held(l) == l.kept \cup l.hand

UnderWay(l) == Held(l) \cup MessagesIn(l.c)

(* An ACK with the bit of the sender is on its way.                        *)
AckComes(l) == \E f \in OfType(l.k, "ACK") : f.bit = l.s

(* What has the sender's bit was sent after the last success, and what has *)
(* the other bit before it and after the one before that.                  *)
BitsFit(a, b, l) ==
    LET T == StartedTo(a, b, l.n)
    IN  /\ l.ok \subseteq T
        /\ \A f \in l.cur : f.bit = l.s /\ f.msg = <<a, l.n>> /\ l.n \in T /\ NoneSince(l.ok, l.n)
        /\ \A f \in UnderWay(l) :
              /\ f.msg[1] = a /\ f.msg[2] \in T
              /\ f.bit = l.s => NoneSince(l.ok, f.msg[2])
              /\ f.bit # l.s => OneSince(l.ok, f.msg[2])
        /\ \A x \in From(a, l.got) : x[2] \in T
        /\ \A f \in l.hand : f \in l.fresh <=> f.bit = l.e

(* The queues turn to the sender's bit once, the messages before the       *)
(* receiver and the receiver before the ACKs.                              *)
QueuesFit(a, b, l) ==
    /\ Turns(l.c, "MESSAGE", l.s) /\ Turns(l.k, "ACK", l.s)
    /\ (\E f \in Held(l) : f.bit = l.s) => \A g \in MessagesIn(l.c) : g.bit = l.s
    /\ AckComes(l) =>
          /\ \A f \in UnderWay(l) : f.bit = l.s
          /\ \E i \in StartedTo(a, b, l.n) : NoneSince(l.ok, i)

(* What was returned fits the bit that is expected.                        *)
ReturnedFits(a, l) ==
    /\ l.e = l.s => \A x \in From(a, l.got) : ~NoneSince(l.ok, x[2])
    /\ l.e # l.s /\ (\E f \in UnderWay(l) : f.bit # l.s) =>
          \A x \in From(a, l.got) : MoreSince(l.ok, x[2])

(* A message that is acknowledged, and in step, was returned or is the     *)
(* last one of those and held.                                             *)
AckedFits(a, b, l) ==
    /\ AckComes(l) /\ l.e = l.s => \E f \in Held(l) : f.bit = l.s
    /\ l.e # l.s => \/ \E x \in From(a, l.got) : NoneSince(l.ok, x[2])
                    \/ \E f \in Held(l) : f.bit # l.s
    /\ \A i \in l.ok :
          InStepOf(StartedTo(a, b, l.n), l.ok, i) /\ <<a, i>> \notin From(a, l.got) =>
              /\ \A o \in l.ok : o <= i
              /\ \E f \in Held(l) : f.msg = <<a, i>>
              /\ l.e # l.s

BitInv(a, b, l) ==
    BitsFit(a, b, l) /\ QueuesFit(a, b, l) /\ ReturnedFits(a, l) /\ AckedFits(a, b, l)

(* The messages of one sender that a node holds have one bit, and the read *)
(* after a duplicate finds no pending message but duplicates.              *)
OneBit(l) == \A f, g \in Held(l) : f.bit = g.bit

SkipsOld(l) == l.at = "skip" => \A f \in l.first : f.bit # l.e

LEMMA StartedToType ==
    ASSUME NEW a, NEW b, NEW n \in Nat
    PROVE  /\ StartedTo(a, b, n) \subseteq Nat /\ \A i \in StartedTo(a, b, n) : i <= n /\ i # 0
           /\ \A m \in Nat : n <= m => StartedTo(a, b, n) \subseteq StartedTo(a, b, m)
BY DEF StartedTo

(* With more sends started there are fewer that are known to be in step.   *)
LEMMA InStepMore ==
    ASSUME NEW T, NEW U, T \subseteq U, NEW O, NEW i, InStepOf(U, O, i)
    PROVE  InStepOf(T, O, i)
BY DEF InStepOf

LEMMA InStepBefore ==
    ASSUME NEW T, T \subseteq Nat, NEW O, O \subseteq Nat, NEW n \in Nat, NEW i \in Nat, i <= n,
           InStepOf(T, O \cup {n}, i)
    PROVE  InStepOf(T, O, i)
<1>1. \A p \in O \cup {n} : p < i => p \in O
  OBVIOUS
<1> QED BY <1>1 DEF InStepOf

LEMMA UnderWayType ==
    ASSUME NEW a, NEW l, LinkTyped(l)
    PROVE  /\ UnderWay(l) \subseteq Messages /\ Held(l) \subseteq UnderWay(l)
           /\ MessagesIn(l.c) \subseteq UnderWay(l)
           /\ \A f \in UnderWay(l) :
                 f.msg[2] \in Nat /\ f.bit \in 0 .. 1 /\ f.msg = <<f.msg[1], f.msg[2]>>
           /\ From(a, l.got) \subseteq Msg
           /\ \A x \in From(a, l.got) : x[2] \in Nat /\ x = <<a, x[2]>>
<1>1. UnderWay(l) \subseteq Messages
  BY MessagesInType DEF LinkTyped, UnderWay, Held
<1>2. From(a, l.got) \subseteq Msg /\ \A x \in From(a, l.got) : x \in Msg /\ x[1] = a
  BY CopiesType
<1>3. \A f \in UnderWay(l) :
          f.msg[2] \in Nat /\ f.bit \in 0 .. 1 /\ f.msg = <<f.msg[1], f.msg[2]>>
  BY <1>1, MessageIndex
<1>4. \A x \in From(a, l.got) : x[2] \in Nat /\ x = <<a, x[2]>>
  BY <1>2, MessageIndex
<1> QED BY <1>1, <1>2, <1>3, <1>4 DEF UnderWay

(* The sender sends without a success: what is new has its bit.            *)
LEMMA SourceKeepsBits ==
    ASSUME NEW a \in Node, NEW b \in Node, NEW l, NEW m, LinkTyped(l), LinkTyped(m), SameTarget(l, m),
           BitInv(a, b, l), m.s = l.s, m.ok = l.ok, l.n <= m.n,
           NEW X, \A f \in X : /\ f.bit = l.s /\ f.msg[1] = a
                               /\ f.msg[2] \in StartedTo(a, b, m.n) /\ NoneSince(l.ok, f.msg[2]),
           MessagesIn(m.c) \subseteq MessagesIn(l.c) \cup X,
           Turns(m.c, "MESSAGE", m.s), Turns(m.k, "ACK", m.s),
           OfType(m.k, "ACK") \subseteq OfType(l.k, "ACK"),
           \A f \in m.cur : /\ f.bit = m.s /\ f.msg = <<a, m.n>>
                            /\ m.n \in StartedTo(a, b, m.n) /\ NoneSince(m.ok, m.n)
    PROVE  BitInv(a, b, m)
<1> DEFINE T == StartedTo(a, b, l.n)
           U == StartedTo(a, b, m.n)
           G == From(a, l.got)
<1>1. /\ From(a, m.got) = G /\ m.e = l.e /\ m.hand = l.hand /\ m.fresh = l.fresh
      /\ Held(m) = Held(l)
  BY DEF SameTarget, Held
<1>2. T \subseteq U
  BY StartedToType DEF LinkTyped
<1>3. \A f \in UnderWay(m) : f \in UnderWay(l) \/ f \in X
  BY <1>1 DEF UnderWay
<1>4. AckComes(m) => AckComes(l)
  BY DEF AckComes
<1>5. BitsFit(a, b, l) /\ QueuesFit(a, b, l) /\ ReturnedFits(a, l) /\ AckedFits(a, b, l)
  BY DEF BitInv
<1> HIDE DEF T, U, G
<1>6. BitsFit(a, b, m)
  <2>1. /\ l.ok \subseteq T /\ \A x \in G : x[2] \in T
        /\ \A f \in l.hand : f \in l.fresh <=> f.bit = l.e
        /\ \A f \in UnderWay(l) : /\ f.msg[1] = a /\ f.msg[2] \in T
                                  /\ f.bit = l.s => NoneSince(l.ok, f.msg[2])
                                  /\ f.bit # l.s => OneSince(l.ok, f.msg[2])
    BY <1>5 DEF BitsFit, T, G
  <2>2. \A f \in UnderWay(m) : /\ f.msg[1] = a /\ f.msg[2] \in U
                               /\ f.bit = m.s => NoneSince(m.ok, f.msg[2])
                               /\ f.bit # m.s => OneSince(m.ok, f.msg[2])
    BY <1>2, <1>3, <2>1 DEF U
  <2>3. m.ok \subseteq U /\ \A x \in G : x[2] \in U
    BY <1>2, <2>1
  <2>4. \A f \in m.hand : f \in m.fresh <=> f.bit = m.e
    BY <1>1, <2>1
  <2> QED BY <1>1, <2>2, <2>3, <2>4 DEF BitsFit, U
<1>7. QueuesFit(a, b, m)
  <2>1. (\E f \in Held(m) : f.bit = m.s) => \A g \in MessagesIn(m.c) : g.bit = m.s
    BY <1>1, <1>5 DEF QueuesFit
  <2>2. ASSUME AckComes(m)
        PROVE  (\A f \in UnderWay(m) : f.bit = m.s) /\ \E i \in U : NoneSince(m.ok, i)
    BY <1>2, <1>3, <1>4, <1>5, <2>2 DEF QueuesFit, T
  <2> QED BY <2>1, <2>2 DEF QueuesFit, U
<1>8. ReturnedFits(a, m)
  BY <1>1, <1>3, <1>5 DEF ReturnedFits, G
<1>9. AckedFits(a, b, m)
  <2>1. AckComes(m) /\ m.e = m.s => \E f \in Held(m) : f.bit = m.s
    BY <1>1, <1>4, <1>5 DEF AckedFits
  <2>2. m.e # m.s => (\E x \in G : NoneSince(m.ok, x[2])) \/ \E f \in Held(m) : f.bit # m.s
    BY <1>1, <1>5 DEF AckedFits, G
  <2>3. ASSUME NEW i \in m.ok, InStepOf(U, m.ok, i), <<a, i>> \notin G
        PROVE  (\A o \in m.ok : o <= i) /\ (\E f \in Held(m) : f.msg = <<a, i>>) /\ m.e # m.s
    <3>1. InStepOf(T, l.ok, i)
      BY <1>2, <2>3, InStepMore
    <3> QED BY <1>1, <1>5, <2>3, <3>1 DEF AckedFits, T, G
  <2> QED BY <1>1, <2>1, <2>2, <2>3 DEF AckedFits, U
<1> QED BY <1>6, <1>7, <1>8, <1>9 DEF BitInv

LEMMA QuietSourceBits ==
    ASSUME NEW a \in Node, NEW b \in Node, NEW l, NEW m, LinkTyped(l), LinkTyped(m), SameTarget(l, m),
           SourceQuiet(l, m), BitInv(a, b, l)
    PROVE  BitInv(a, b, m)
<1>1. /\ l.c \in Seq(Frame) /\ l.k \in Seq(Frame) /\ m.c \in Seq(Frame) /\ l.n \in Nat /\ m.n \in Nat
      /\ l.cur \subseteq Messages
  BY DEF LinkTyped
<1>2. /\ m.cur \subseteq l.cur /\ m.s = l.s /\ m.ok = l.ok
      /\ m.n = l.n \/ (l.cur = {} /\ m.n = l.n + 1)
      /\ Grows(l.c, m.c, Plain \cup l.cur)
      /\ m.k = l.k \/ Drops(l.k, m.k)
  BY DEF SourceQuiet
<1>3. /\ Turns(l.c, "MESSAGE", l.s) /\ Turns(l.k, "ACK", l.s)
      /\ \A f \in l.cur : /\ f.bit = l.s /\ f.msg = <<a, l.n>>
                          /\ l.n \in StartedTo(a, b, l.n) /\ NoneSince(l.ok, l.n)
  BY DEF BitInv, BitsFit, QueuesFit
<1>4. MessagesIn(m.c) \subseteq MessagesIn(l.c) \cup l.cur
  BY <1>1, <1>2, PlainMessages, GrowsMessages
<1>5. Turns(m.c, "MESSAGE", l.s)
  <2>1. \A f \in Plain \cup l.cur : f.type = "MESSAGE" => f.bit = l.s
    BY <1>3 DEF Plain
  <2> QED BY <1>1, <1>2, <1>3, <2>1, GrowsTurns
<1>6. Turns(m.k, "ACK", l.s) /\ OfType(m.k, "ACK") \subseteq OfType(l.k, "ACK")
  BY <1>1, <1>2, <1>3, DropsTurns
<1>7. \A f \in l.cur : /\ f.bit = l.s /\ f.msg[1] = a
                       /\ f.msg[2] \in StartedTo(a, b, m.n) /\ NoneSince(l.ok, f.msg[2])
  BY <1>2, <1>3
<1>8. \A f \in m.cur : /\ f.bit = m.s /\ f.msg = <<a, m.n>>
                       /\ m.n \in StartedTo(a, b, m.n) /\ NoneSince(m.ok, m.n)
  BY <1>2, <1>3
<1>9. l.n <= m.n
  BY <1>1, <1>2
<1> QED BY <1>2, <1>4, <1>5, <1>6, <1>7, <1>8, <1>9, SourceKeepsBits

LEMMA StartBits ==
    ASSUME NEW a \in Node, NEW b \in Node, NEW l, NEW m, LinkTyped(l), LinkTyped(m), SameTarget(l, m),
           SourceStart(a, b, l, m), BitInv(a, b, l)
    PROVE  BitInv(a, b, m)
<1> DEFINE f == Message(l.s, <<a, l.n + 1>>)
<1>1. /\ l.c \in Seq(Frame) /\ l.k \in Seq(Frame) /\ m.c \in Seq(Frame) /\ l.n \in Nat /\ m.n \in Nat
  BY DEF LinkTyped
<1>2. /\ m.cur \subseteq {f} /\ m.n = l.n + 1 /\ m.s = l.s /\ m.ok = l.ok
      /\ Grows(l.c, m.c, {f}) /\ m.k = l.k /\ Work[a][l.n + 1].to = b
  BY DEF SourceStart
<1>3. Turns(l.c, "MESSAGE", l.s) /\ Turns(l.k, "ACK", l.s) /\ l.ok \subseteq StartedTo(a, b, l.n)
  BY DEF BitInv, BitsFit, QueuesFit
<1>4. f.bit = l.s /\ f.msg = <<a, m.n>> /\ f.msg[1] = a /\ f.msg[2] = m.n
  BY <1>2 DEF Message
<1>5. m.n \in StartedTo(a, b, m.n)
  BY <1>1, <1>2 DEF StartedTo
<1>6. NoneSince(l.ok, m.n)
  <2>1. \A o \in l.ok : o \in Nat /\ o <= l.n
    BY <1>1, <1>3, StartedToType
  <2> QED BY <1>1, <1>2, <2>1 DEF NoneSince
<1> HIDE DEF f
<1>7. MessagesIn(m.c) \subseteq MessagesIn(l.c) \cup {f}
  BY <1>1, <1>2, GrowsMessages
<1>8. Turns(m.c, "MESSAGE", l.s)
  BY <1>1, <1>2, <1>3, <1>4, GrowsTurns
<1>9. l.n <= m.n
  BY <1>1, <1>2
<1>10. \A g \in {f} : /\ g.bit = l.s /\ g.msg[1] = a
                      /\ g.msg[2] \in StartedTo(a, b, m.n) /\ NoneSince(l.ok, g.msg[2])
  BY <1>4, <1>5, <1>6
<1>11. \A g \in m.cur : /\ g.bit = m.s /\ g.msg = <<a, m.n>>
                        /\ m.n \in StartedTo(a, b, m.n) /\ NoneSince(m.ok, m.n)
  BY <1>2, <1>4, <1>5, <1>6
<1>12. Turns(m.k, "ACK", m.s) /\ OfType(m.k, "ACK") \subseteq OfType(l.k, "ACK")
  BY <1>2, <1>3
<1> QED BY <1>2, <1>7, <1>8, <1>9, <1>10, <1>11, <1>12, SourceKeepsBits

(* The ACK arrives: the bit is complemented, and everything has the other. *)
LEMMA OkBits ==
    ASSUME NEW a \in Node, NEW b \in Node, NEW l, NEW m, LinkTyped(l), LinkTyped(m), SameTarget(l, m),
           SourceOk(l, m), BitInv(a, b, l)
    PROVE  BitInv(a, b, m)
<1> DEFINE T == StartedTo(a, b, l.n)
           G == From(a, l.got)
           O == l.ok
           n == l.n
<1>1. /\ l.c \in Seq(Frame) /\ l.k \in Seq(Frame) /\ m.c \in Seq(Frame) /\ n \in Nat
      /\ l.s \in 0 .. 1 /\ l.e \in 0 .. 1
  BY DEF LinkTyped
<1>2. /\ l.cur # {} /\ m.cur = {} /\ m.n = n /\ m.s = 1 - l.s /\ m.ok = O \cup {n}
      /\ Grows(l.c, m.c, Plain) /\ Drops(l.k, m.k) /\ Head(l.k) = Ack(l.s)
  BY DEF SourceOk
<1>3. /\ From(a, m.got) = G /\ m.e = l.e /\ m.hand = l.hand /\ m.fresh = l.fresh
      /\ Held(m) = Held(l)
  BY DEF SameTarget, Held
<1>4. /\ O \subseteq T /\ n \in T /\ NoneSince(O, n)
      /\ \A x \in G : x[2] \in T
      /\ \A f \in l.hand : f \in l.fresh <=> f.bit = l.e
      /\ \A f \in UnderWay(l) : f.msg[1] = a /\ f.msg[2] \in T
      /\ \A f \in UnderWay(l) : f.bit = l.s => NoneSince(O, f.msg[2])
  BY <1>2 DEF BitInv, BitsFit
<1>5. T \subseteq Nat /\ O \subseteq Nat /\ (\A o \in O : o < n) /\ (\A i \in T : i <= n)
      /\ n \in Nat
  BY <1>1, <1>4, StartedToType DEF NoneSince
<1>6. Head(l.k).type = "ACK" /\ Head(l.k).bit = l.s
  BY <1>2 DEF Ack, Control
<1>7. AckComes(l) /\ (\A f \in OfType(m.k, "ACK") : f.bit = l.s)
  <2>1. Turns(l.k, "ACK", l.s)
    BY DEF BitInv, QueuesFit
  <2> QED BY <1>1, <1>2, <1>6, <2>1, DropsTurns DEF AckComes
<1>8. \A f \in UnderWay(l) : f.bit = l.s /\ NoneSince(O, f.msg[2])
  BY <1>4, <1>7 DEF BitInv, QueuesFit
<1>9. m.s # l.s /\ (l.e # m.s <=> l.e = l.s)
  BY <1>1, <1>2
<1>10. MessagesIn(m.c) \subseteq MessagesIn(l.c) /\ \A f \in UnderWay(m) : f \in UnderWay(l)
  <2>1. Plain \cap Messages = {}
    BY IsMessage DEF Plain
  <2>2. m.c \in Seq(Frame)
    BY <1>1
  <2>3. MessagesIn(m.c) \subseteq MessagesIn(l.c)
    BY <1>1, <1>2, <2>1, GrowsMessages
  <2> QED BY <1>3, <2>3 DEF UnderWay
<1>11. m.k \in Seq(Frame)
  BY DEF LinkTyped
<1>12. ~AckComes(m)
  BY <1>7, <1>9 DEF AckComes
<1> HIDE DEF T, G, O, n
<1>13. BitsFit(a, b, m)
  <2>1. \A f \in UnderWay(m) : /\ f.msg[1] = a /\ f.msg[2] \in T /\ f.bit = l.s
                               /\ OneSince(O \cup {n}, f.msg[2])
    <3>1. ASSUME NEW f \in UnderWay(m) PROVE OneSince(O \cup {n}, f.msg[2])
      <4>1. f.msg[2] \in T /\ NoneSince(O, f.msg[2])
        BY <1>4, <1>8, <1>10
      <4>2. f.msg[2] \in Nat /\ f.msg[2] <= n
        BY <1>5, <4>1
      <4> QED BY <1>1, <1>5, <4>1, <4>2, OneMoreSince DEF n
    <3> QED BY <1>4, <1>8, <1>10, <3>1
  <2>2. \A f \in m.hand : f \in m.fresh <=> f.bit = m.e
    BY <1>3, <1>4
  <2>3. m.ok \subseteq T /\ \A x \in From(a, m.got) : x[2] \in T
    BY <1>2, <1>3, <1>4
  <2>4. StartedTo(a, b, m.n) = T
    BY <1>2 DEF T, n
  <2> QED BY <1>2, <1>9, <2>1, <2>2, <2>3, <2>4 DEF BitsFit
<1>14. QueuesFit(a, b, m)
  <2>1. \A f \in OfType(m.c, "MESSAGE") : f.bit # m.s
    BY <1>8, <1>9, <1>10, TypeInMessages DEF UnderWay
  <2>2. Turns(m.c, "MESSAGE", m.s)
    BY <1>1, <2>1, NoTurn
  <2>3. Turns(m.k, "ACK", m.s)
    BY <1>7, <1>9, <1>11, NoTurn
  <2>4. \A f \in Held(m) : f.bit # m.s
    BY <1>3, <1>8, <1>9 DEF UnderWay
  <2> QED BY <1>12, <2>2, <2>3, <2>4 DEF QueuesFit
<1>15. ReturnedFits(a, m)
  <2>1. ASSUME NEW x \in G PROVE ~NoneSince(O \cup {n}, x[2])
    BY <1>1, <1>4, <1>5, OneMoreSince DEF n
  <2>2. ASSUME NEW x \in G, l.e = l.s PROVE MoreSince(O \cup {n}, x[2])
    <3>1. ~NoneSince(O, x[2])
      BY <2>2 DEF BitInv, ReturnedFits, G, O
    <3> QED BY <1>1, <1>4, <1>5, <3>1, OneMoreSince DEF n
  <2> QED BY <1>2, <1>3, <1>9, <2>1, <2>2 DEF ReturnedFits
<1>16. AckedFits(a, b, m)
  <2>1. ASSUME l.e = l.s PROVE \E f \in Held(l) : f.bit = l.s /\ NoneSince(O, f.msg[2]) /\ f.msg[2] \in T
    <3>1. \E f \in Held(l) : f.bit = l.s
      BY <1>7, <2>1 DEF BitInv, AckedFits
    <3> QED BY <1>4, <1>8, <3>1 DEF UnderWay
  <2>2. m.e # m.s => \E f \in Held(m) : f.bit # m.s
    BY <1>3, <1>9, <2>1
  <2>3. ASSUME NEW j \in T, NoneSince(O, j), InStepOf(T, O, n) PROVE j = n
    <3>1. ASSUME j < n PROVE FALSE
      <4>1. PICK p \in O : p < n /\ \A r \in T : r < n => r <= p
        BY <2>3, <3>1 DEF InStepOf
      <4>2. j <= p /\ p < j
        BY <2>3, <3>1, <4>1 DEF NoneSince
      <4> QED BY <1>5, <2>3, <4>2
    <3> QED BY <1>1, <1>5, <2>3, <3>1 DEF n
  <2>4. ASSUME NEW i \in m.ok, InStepOf(T, O, i), <<a, i>> \notin G
        PROVE  i = n /\ l.e = l.s /\ \E f \in Held(l) : f.msg = <<a, i>>
    <3>1. CASE i # n
      <4>1. i \in O
        BY <1>2, <3>1
      <4>2. PICK f \in Held(l) : f.msg = <<a, i>>
        BY <2>4, <4>1 DEF BitInv, AckedFits, T, G, O
      <4>3. NoneSince(O, i)
        BY <1>8, <4>2 DEF UnderWay
      <4> QED BY <1>5, <4>1, <4>3 DEF NoneSince
    <3>2. CASE i = n
      <4>1. l.e = l.s
        <5>1. SUFFICES ASSUME l.e # l.s PROVE FALSE
          OBVIOUS
        <5>2. \A f \in Held(l) : f.bit = l.s
          BY <1>8 DEF UnderWay
        <5>3. PICK x \in G : NoneSince(O, x[2])
          BY <5>1, <5>2 DEF BitInv, AckedFits, G, O
        <5>4. x[2] = n
          BY <1>4, <2>3, <2>4, <3>2, <5>3
        <5>5. x = <<a, x[2]>>
          BY <5>3, UnderWayType DEF G
        <5> QED BY <2>4, <3>2, <5>4, <5>5
      <4>2. PICK f \in Held(l) : NoneSince(O, f.msg[2]) /\ f.msg[2] \in T
        BY <2>1, <4>1
      <4>3. f.msg[2] = n
        BY <2>3, <2>4, <3>2, <4>2
      <4>4. f.msg = <<a, n>>
        BY <1>4, <4>2, <4>3, UnderWayType DEF UnderWay
      <4> QED BY <3>2, <4>1, <4>2, <4>4
    <3> QED BY <3>1, <3>2
  <2>5. ASSUME NEW i \in m.ok, InStepOf(T, m.ok, i), <<a, i>> \notin G
        PROVE  (\A o \in m.ok : o <= i) /\ (\E f \in Held(m) : f.msg = <<a, i>>) /\ m.e # m.s
    <3>0. i \in O \/ i = n
      BY <1>2, <2>5
    <3>1. i \in Nat /\ i <= n
      <4>1. CASE i \in O
        BY <1>5, <4>1
      <4>2. CASE i = n
        BY <1>5, <4>2
      <4> QED BY <3>0, <4>1, <4>2
    <3>2. InStepOf(T, O, i)
      BY <1>1, <1>2, <1>5, <2>5, <3>1, InStepBefore DEF n
    <3>3. i = n /\ l.e = l.s /\ \E f \in Held(l) : f.msg = <<a, i>>
      BY <2>4, <2>5, <3>2
    <3>4. \A o \in O \cup {n} : o <= n
      <4>1. ASSUME NEW o \in O PROVE o <= n
        BY <1>5
      <4> QED BY <1>5, <4>1
    <3> QED BY <1>2, <1>3, <1>9, <3>3, <3>4
  <2>6. StartedTo(a, b, m.n) = T
    BY <1>2 DEF T, n
  <2> QED BY <1>3, <1>12, <2>2, <2>5, <2>6 DEF AckedFits
<1> QED BY <1>13, <1>14, <1>15, <1>16 DEF BitInv

(* The receiver moves, drops or acknowledges, and returns nothing of a:    *)
(* what has the expected bit stays, and an ACK is for what is held.        *)
LEMMA TargetKeepsBits ==
    ASSUME NEW a \in Node, NEW b \in Node, NEW l, NEW m, LinkTyped(l), LinkTyped(m), SameSource(l, m),
           BitInv(a, b, l), m.e = l.e, From(a, m.got) = From(a, l.got), OneBit(m),
           UnderWay(m) \subseteq UnderWay(l),
           \A f \in Held(l) : f.bit = l.e => f \in Held(m),
           \A f \in m.hand : f \in m.fresh <=> f.bit = m.e,
           Turns(m.c, "MESSAGE", m.s),
           (\E f \in Held(m) : f.bit = m.s) => \A g \in MessagesIn(m.c) : g.bit = m.s,
           NEW F, Grows(l.k, m.k, F),
           \A f \in F : f.type = "ACK" => \E h \in Held(m) : h.bit = f.bit
    PROVE  BitInv(a, b, m)
<1> DEFINE T == StartedTo(a, b, l.n)
           G == From(a, l.got)
           s == l.s
<1>1. /\ m.s = s /\ m.n = l.n /\ m.ok = l.ok /\ m.cur = l.cur /\ StartedTo(a, b, m.n) = T
      /\ From(a, m.got) = G
  BY DEF SameSource
<1>2. /\ l.k \in Seq(Frame) /\ m.k \in Seq(Frame) /\ l.e \in 0 .. 1 /\ s \in 0 .. 1
      /\ l.ok \subseteq Nat
  BY DEF LinkTyped
<1>3. /\ Held(m) \subseteq UnderWay(m) /\ MessagesIn(m.c) \subseteq UnderWay(m)
      /\ Held(l) \subseteq UnderWay(l) /\ \A f \in UnderWay(l) : f.bit \in 0 .. 1
  BY UnderWayType
<1>4. \A f \in Held(l) : f.bit # s /\ l.e # s => f \in Held(m)
  BY <1>2, <1>3
<1>5. /\ \A f \in UnderWay(l) : /\ f.msg[1] = a /\ f.msg[2] \in T
                                /\ f.bit = s => NoneSince(l.ok, f.msg[2])
                                /\ f.bit # s => OneSince(l.ok, f.msg[2])
      /\ AckComes(l) => (\A f \in UnderWay(l) : f.bit = s) /\ \E i \in T : NoneSince(l.ok, i)
  BY DEF BitInv, BitsFit, QueuesFit
<1> HIDE DEF T, G, s
<1>6. BitsFit(a, b, m)
  <2>1. \A f \in UnderWay(m) : /\ f.msg[1] = a /\ f.msg[2] \in T
                               /\ f.bit = m.s => NoneSince(m.ok, f.msg[2])
                               /\ f.bit # m.s => OneSince(m.ok, f.msg[2])
    BY <1>1, <1>5
  <2>2. /\ l.ok \subseteq T /\ \A x \in G : x[2] \in T
        /\ \A f \in l.cur : f.bit = s /\ f.msg = <<a, l.n>> /\ l.n \in T /\ NoneSince(l.ok, l.n)
    BY DEF BitInv, BitsFit, T, G, s
  <2> QED BY <1>1, <2>1, <2>2 DEF BitsFit
<1>7. ASSUME AckComes(m) PROVE AckComes(l) \/ \E h \in Held(m) : h.bit = s
  <2>1. PICK f \in OfType(m.k, "ACK") : f.bit = s
    BY <1>1, <1>7 DEF AckComes
  <2>2. f \in OfType(l.k, "ACK") \/ (f \in F /\ f.type = "ACK")
    BY <1>2, GrowsType
  <2> QED BY <2>1, <2>2 DEF AckComes, s
<1>8. QueuesFit(a, b, m)
  <2>1. Turns(m.k, "ACK", s)
    <3>1. Turns(l.k, "ACK", s)
      BY DEF BitInv, QueuesFit, s
    <3>2. CASE \E h \in Held(m) : h.bit = s
      <4>1. \A f \in F : f.type = "ACK" => f.bit = s
        BY <3>2 DEF OneBit
      <4> QED BY <1>2, <3>1, <4>1, GrowsTurns
    <3>3. CASE \A f \in F : f.type # "ACK"
      BY <1>2, <3>1, <3>3, GrowsTurns
    <3>4. CASE (\A h \in Held(m) : h.bit # s) /\ \E f \in F : f.type = "ACK"
      <4>1. \A f \in F : f.type = "ACK" => f.bit # s
        BY <3>4
      <4>2. \E h \in UnderWay(l) : h.bit # s
        BY <1>3, <3>4
      <4>3. \A f \in OfType(l.k, "ACK") : f.bit # s
        BY <1>5, <4>2 DEF AckComes, s
      <4> QED BY <1>2, <3>1, <4>1, <4>3, GrowsTurns
    <3> QED BY <3>2, <3>3, <3>4
  <2>2. ASSUME AckComes(m)
        PROVE  (\A f \in UnderWay(m) : f.bit = s) /\ \E i \in T : NoneSince(l.ok, i)
    <3>1. CASE AckComes(l)
      BY <1>5, <3>1
    <3>2. ASSUME NEW h \in Held(m), h.bit = s
          PROVE  (\A f \in UnderWay(m) : f.bit = s) /\ \E i \in T : NoneSince(l.ok, i)
      <4>1. \A f \in Held(m) : f.bit = s
        BY <3>2 DEF OneBit
      <4>2. \A f \in MessagesIn(m.c) : f.bit = s
        BY <1>1, <3>2
      <4>3. h \in UnderWay(l)
        BY <1>3, <3>2
      <4> QED BY <1>5, <3>2, <4>1, <4>2, <4>3 DEF UnderWay
    <3> QED BY <1>7, <2>2, <3>1, <3>2
  <2> QED BY <1>1, <2>1, <2>2 DEF QueuesFit
<1>9. ReturnedFits(a, m)
  BY <1>1 DEF BitInv, ReturnedFits, G, s
<1>10. AckedFits(a, b, m)
  <2>1. ASSUME AckComes(m), m.e = m.s PROVE \E f \in Held(m) : f.bit = m.s
    <3>1. CASE AckComes(l)
      <4>1. PICK f \in Held(l) : f.bit = s
        BY <1>1, <2>1, <3>1 DEF BitInv, AckedFits, s
      <4> QED BY <1>1, <2>1, <4>1
    <3> QED BY <1>1, <1>7, <2>1, <3>1
  <2>2. ASSUME m.e # m.s
        PROVE  (\E x \in G : NoneSince(m.ok, x[2])) \/ \E f \in Held(m) : f.bit # m.s
    <3>1. (\E x \in G : NoneSince(l.ok, x[2])) \/ \E f \in Held(l) : f.bit # s
      BY <1>1, <2>2 DEF BitInv, AckedFits, G, s
    <3> QED BY <1>1, <1>4, <2>2, <3>1
  <2>3. ASSUME NEW i \in m.ok, InStepOf(T, m.ok, i), <<a, i>> \notin G
        PROVE  (\A o \in m.ok : o <= i) /\ (\E f \in Held(m) : f.msg = <<a, i>>) /\ m.e # m.s
    <3>1. (\A o \in l.ok : o <= i) /\ (\E f \in Held(l) : f.msg = <<a, i>>) /\ l.e # s
      BY <1>1, <2>3 DEF BitInv, AckedFits, T, G, s
    <3>2. PICK f \in Held(l) : f.msg = <<a, i>>
      BY <3>1
    <3>3. ~NoneSince(l.ok, i)
      BY <1>1, <1>2, <2>3 DEF NoneSince
    <3>4. f.bit # s
      BY <1>3, <1>5, <3>2, <3>3
    <3>5. f \in Held(m)
      BY <1>4, <3>1, <3>4
    <3> QED BY <1>1, <3>1, <3>2, <3>5
  <2> QED BY <1>1, <2>1, <2>2, <2>3 DEF AckedFits
<1> QED BY <1>6, <1>8, <1>9, <1>10 DEF BitInv

LEMMA QuietTargetBits ==
    ASSUME NEW a \in Node, NEW b \in Node, NEW l, NEW m, LinkTyped(l), LinkTyped(m), SameSource(l, m),
           TargetQuiet(a, l, m), BitInv(a, b, l), OneBit(l), SkipsOld(l)
    PROVE  BitInv(a, b, m)
<1> DEFINE F == NoAcks \cup {Ack(f.bit) : f \in l.hand}
<1>1. l.c \in Seq(Frame) /\ l.got \in Seq(Msg) /\ l.first \subseteq l.kept
  BY DEF LinkTyped
<1>2. /\ m.hand = l.hand /\ m.fresh = l.fresh /\ m.e = l.e /\ Grows(l.k, m.k, F)
      /\ m.kept = l.kept
         \/ (l.at = "skip" /\ m.kept \subseteq l.kept /\ l.kept \ l.first \subseteq m.kept)
  BY DEF TargetQuiet
<1>3. From(a, m.got) = From(a, l.got)
  <2>1. m.got = l.got \/ \E g \in Msg : g[1] # a /\ m.got = Append(l.got, g)
    BY DEF TargetQuiet
  <2> QED BY <1>1, <2>1, AppendFrom
<1>4. m.s = l.s /\ Turns(l.c, "MESSAGE", l.s)
  BY DEF SameSource, BitInv, QueuesFit
<1>5. MessagesIn(m.c) \subseteq MessagesIn(l.c) /\ Turns(m.c, "MESSAGE", m.s)
  <2>1. m.c = l.c \/ Drops(l.c, m.c)
    BY DEF TargetQuiet
  <2> QED BY <1>1, <1>4, <2>1, DropsTurns, TypeInMessages
<1>6. Held(m) \subseteq Held(l) /\ UnderWay(m) \subseteq UnderWay(l)
  BY <1>2, <1>5 DEF Held, UnderWay
<1>7. \A f \in Held(l) : f.bit = l.e => f \in Held(m)
  <2>1. l.at = "skip" => \A f \in l.first : f.bit # l.e
    BY DEF SkipsOld
  <2> QED BY <1>2, <2>1 DEF Held
<1>8. \A f \in m.hand : f \in m.fresh <=> f.bit = m.e
  BY <1>2 DEF BitInv, BitsFit
<1>9. (\E f \in Held(m) : f.bit = m.s) => \A g \in MessagesIn(m.c) : g.bit = m.s
  BY <1>4, <1>5, <1>6 DEF BitInv, QueuesFit
<1>10. \A f \in F : f.type = "ACK" => \E h \in Held(m) : h.bit = f.bit
  BY <1>2 DEF NoAcks, Ack, Control, Held
<1>11. OneBit(m)
  BY <1>6 DEF OneBit
<1> HIDE DEF F
<1> QED BY <1>2, <1>3, <1>5, <1>6, <1>7, <1>8, <1>9, <1>10, <1>11, TargetKeepsBits

LEMMA StoreBits ==
    ASSUME NEW a \in Node, NEW b \in Node, NEW l, NEW m, LinkTyped(l), LinkTyped(m), SameSource(l, m),
           TargetStore(l, m), BitInv(a, b, l), OneBit(m)
    PROVE  BitInv(a, b, m)
<1> DEFINE f == Head(l.c)
<1>1. /\ Drops(l.c, m.c) /\ f.type = "MESSAGE" /\ m.kept = l.kept \cup {f} /\ m.hand = l.hand
      /\ m.fresh = l.fresh /\ m.e = l.e /\ m.got = l.got /\ Grows(l.k, m.k, {Ack(f.bit)})
      /\ l.c \in Seq(Frame)
  BY DEF TargetStore, LinkTyped
<1>2. m.s = l.s /\ Turns(l.c, "MESSAGE", l.s)
  BY DEF SameSource, BitInv, QueuesFit
<1>3. /\ MessagesIn(m.c) \subseteq MessagesIn(l.c) /\ f \in MessagesIn(l.c)
      /\ Turns(m.c, "MESSAGE", m.s)
      /\ f.bit = l.s => \A g \in MessagesIn(m.c) : g.bit = l.s
  BY <1>1, <1>2, DropsTurns, TypeInMessages
<1> HIDE DEF f
<1>4. UnderWay(m) \subseteq UnderWay(l) /\ Held(m) = Held(l) \cup {f}
  BY <1>1, <1>3 DEF Held, UnderWay
<1>5. \A g \in m.hand : g \in m.fresh <=> g.bit = m.e
  BY <1>1 DEF BitInv, BitsFit
<1>6. (\E g \in Held(m) : g.bit = m.s) => \A g \in MessagesIn(m.c) : g.bit = m.s
  <2>1. (\E g \in Held(l) : g.bit = l.s) => \A g \in MessagesIn(l.c) : g.bit = l.s
    BY DEF BitInv, QueuesFit
  <2> QED BY <1>2, <1>3, <1>4, <2>1
<1>7. \A g \in {Ack(f.bit)} : g.type = "ACK" => \E h \in Held(m) : h.bit = g.bit
  BY <1>4 DEF Ack, Control
<1>8. \A g \in Held(l) : g.bit = l.e => g \in Held(m)
  BY <1>4
<1>9. From(a, m.got) = From(a, l.got) /\ m.e = l.e
  BY <1>1
<1> DEFINE F == {Ack(f.bit)}
<1>10. Grows(l.k, m.k, F) /\ \A g \in F : g.type = "ACK" => \E h \in Held(m) : h.bit = g.bit
  BY <1>1, <1>7
<1> HIDE DEF F
<1> QED BY <1>3, <1>4, <1>5, <1>6, <1>8, <1>9, <1>10, TargetKeepsBits

LEMMA BeginBits ==
    ASSUME NEW a \in Node, NEW b \in Node, NEW l, NEW m, LinkTyped(l), LinkTyped(m), SameSource(l, m),
           TargetBegin(l, m), BitInv(a, b, l), OneBit(l)
    PROVE  BitInv(a, b, m) /\ OneBit(m)
<1>1. PICK f \in Messages :
        /\ l.hand = {}
        /\ \/ Drops(l.c, m.c) /\ f = Head(l.c) /\ l.kept = {} /\ m.kept = {}
           \/ /\ f \in l.first /\ l.at \in {"idle", "recv"} /\ m.c = l.c
              /\ m.kept \subseteq l.kept /\ l.kept \ {f} \subseteq m.kept
        /\ m.hand = {f} /\ m.fresh = {g \in {f} : g.bit = l.e}
        /\ m.e = l.e /\ m.got = l.got
        /\ Grows(l.k, m.k, {Ack(f.bit)})
  BY DEF TargetBegin
<1>2. /\ m.s = l.s /\ Turns(l.c, "MESSAGE", l.s) /\ l.c \in Seq(Frame) /\ l.first \subseteq l.kept
      /\ f.type = "MESSAGE"
  BY MessageIndex DEF SameSource, BitInv, QueuesFit, LinkTyped
<1>3. (\E g \in Held(l) : g.bit = l.s) => \A g \in MessagesIn(l.c) : g.bit = l.s
  BY DEF BitInv, QueuesFit
<1>4. /\ MessagesIn(m.c) \subseteq MessagesIn(l.c) /\ Turns(m.c, "MESSAGE", m.s)
      /\ f \in UnderWay(l) /\ Held(m) \subseteq Held(l) \cup {f} /\ Held(l) \subseteq Held(m)
      /\ (\E g \in Held(m) : g.bit = m.s) => \A g \in MessagesIn(m.c) : g.bit = m.s
      /\ OneBit(m)
  <2>1. CASE Drops(l.c, m.c) /\ f = Head(l.c) /\ l.kept = {} /\ m.kept = {}
    <3>1. /\ MessagesIn(m.c) \subseteq MessagesIn(l.c) /\ f \in MessagesIn(l.c)
          /\ Turns(m.c, "MESSAGE", m.s)
          /\ f.bit = l.s => \A g \in MessagesIn(m.c) : g.bit = l.s
      BY <1>2, <2>1, DropsTurns, TypeInMessages
    <3>2. Held(l) = {} /\ Held(m) = {f}
      BY <1>1, <2>1 DEF Held
    <3> QED BY <1>2, <3>1, <3>2 DEF UnderWay, OneBit
  <2>2. CASE /\ f \in l.first /\ m.c = l.c
             /\ m.kept \subseteq l.kept /\ l.kept \ {f} \subseteq m.kept
    <3>1. Held(m) = Held(l) /\ f \in Held(l)
      BY <1>1, <1>2, <2>2 DEF Held
    <3> QED BY <1>2, <1>3, <2>2, <3>1 DEF UnderWay, OneBit
  <2> QED BY <1>1, <2>1, <2>2
<1>5. UnderWay(m) \subseteq UnderWay(l)
  BY <1>4 DEF UnderWay
<1>6. \A g \in m.hand : g \in m.fresh <=> g.bit = m.e
  BY <1>1
<1>7. \A g \in {Ack(f.bit)} : g.type = "ACK" => \E h \in Held(m) : h.bit = g.bit
  BY <1>1 DEF Ack, Control, Held
<1>8. \A g \in Held(l) : g.bit = l.e => g \in Held(m)
  BY <1>4
<1>9. From(a, m.got) = From(a, l.got) /\ m.e = l.e
  BY <1>1
<1> DEFINE F == {Ack(f.bit)}
<1>10. Grows(l.k, m.k, F) /\ \A g \in F : g.type = "ACK" => \E h \in Held(m) : h.bit = g.bit
  BY <1>1, <1>7
<1> HIDE DEF F
<1> QED BY <1>4, <1>5, <1>6, <1>8, <1>9, <1>10, TargetKeepsBits

(* The exchange ends with a duplicate.                                     *)
LEMMA EndOldBits ==
    ASSUME NEW a \in Node, NEW b \in Node, NEW l, NEW m, LinkTyped(l), LinkTyped(m), SameSource(l, m),
           BitInv(a, b, l), NEW f \in Messages, l.hand = {f}, f \notin l.fresh,
           m.hand = {}, m.fresh = {}, m.kept = l.kept, m.e = l.e, m.got = l.got, m.k = l.k,
           MessagesIn(m.c) \subseteq MessagesIn(l.c), Turns(m.c, "MESSAGE", l.s), OneBit(l)
    PROVE  BitInv(a, b, m)
<1>1. m.s = l.s /\ f.bit # l.e
  BY DEF SameSource, BitInv, BitsFit
<1>2. Held(m) = l.kept /\ Held(l) = l.kept \cup {f} /\ UnderWay(m) \subseteq UnderWay(l)
  BY DEF Held, UnderWay
<1>3. \A g \in Held(l) : g.bit = l.e => g \in Held(m)
  BY <1>1, <1>2
<1>4. (\E g \in Held(m) : g.bit = m.s) => \A g \in MessagesIn(m.c) : g.bit = m.s
  BY <1>1, <1>2 DEF BitInv, QueuesFit
<1>5. OneBit(m)
  BY <1>2 DEF OneBit
<1> DEFINE F == {}
<1>6. Grows(l.k, m.k, F)
  <2>1. l.k \in Seq(Frame)
    BY DEF LinkTyped
  <2> QED BY <2>1 DEF Grows
<1>7. \A g \in F : g.type = "ACK" => \E h \in Held(m) : h.bit = g.bit
  OBVIOUS
<1>8. From(a, m.got) = From(a, l.got) /\ Turns(m.c, "MESSAGE", m.s)
  BY <1>1
<1>9. \A g \in m.hand : g \in m.fresh <=> g.bit = m.e
  OBVIOUS
<1> HIDE DEF F
<1> QED BY <1>2, <1>3, <1>4, <1>5, <1>6, <1>7, <1>8, <1>9, TargetKeepsBits

(* The exchange ends and the message is returned: the expected bit is      *)
(* complemented.                                                           *)
LEMMA EndNewBits ==
    ASSUME NEW a \in Node, NEW b \in Node, NEW l, NEW m, LinkTyped(l), LinkTyped(m), SameSource(l, m),
           BitInv(a, b, l), NEW f \in Messages, l.hand = {f}, f \in l.fresh,
           m.hand = {}, m.fresh = {}, m.kept = l.kept, m.e = 1 - l.e, m.got = Append(l.got, f.msg),
           m.k = l.k, MessagesIn(m.c) \subseteq MessagesIn(l.c), Turns(m.c, "MESSAGE", l.s), OneBit(l)
    PROVE  BitInv(a, b, m)
<1> DEFINE T == StartedTo(a, b, l.n)
           G == From(a, l.got)
           s == l.s
           O == l.ok
<1>1. /\ m.s = s /\ m.n = l.n /\ m.ok = O /\ m.cur = l.cur /\ StartedTo(a, b, m.n) = T
      /\ f.bit = l.e
  BY DEF SameSource, BitInv, BitsFit
<1>2. /\ l.e \in 0 .. 1 /\ s \in 0 .. 1 /\ O \subseteq Nat /\ l.n \in Nat /\ l.got \in Seq(Msg)
      /\ f.msg \in Msg
  BY MessageIndex DEF LinkTyped
<1>3. Held(m) = l.kept /\ Held(l) = l.kept \cup {f} /\ UnderWay(m) \subseteq UnderWay(l)
      /\ f \in UnderWay(l)
  BY DEF Held, UnderWay
<1>4. /\ \A g \in UnderWay(l) : /\ g.msg[1] = a /\ g.msg[2] \in T
                                /\ g.bit = s => NoneSince(O, g.msg[2])
                                /\ g.bit # s => OneSince(O, g.msg[2])
      /\ AckComes(l) => (\A g \in UnderWay(l) : g.bit = s) /\ \E i \in T : NoneSince(O, i)
      /\ O \subseteq T /\ \A x \in G : x[2] \in T
  BY DEF BitInv, BitsFit, QueuesFit
<1>5. T \subseteq Nat
  BY <1>2, StartedToType
<1>6. AckComes(m) <=> AckComes(l)
  BY <1>1 DEF AckComes
<1>7. From(a, m.got) = G \cup {f.msg}
  <2>1. f.msg[1] = a
    BY <1>3, <1>4
  <2>2. l.got \in Seq(Msg) /\ f.msg \in Msg /\ m.got = Append(l.got, f.msg)
    BY <1>2
  <2>3. OneMore(a, l, m, f)
    BY <2>1, <2>2, Zenon DEF OneMore
  <2>4. Gained(a, l, m, f)
    BY <2>3, OneMoreGot, Zenon
  <2> QED BY <2>4, Zenon DEF Gained
<1>8. \A g \in Held(l) : g.bit = l.e
  BY <1>1, <1>3 DEF OneBit
<1>9. (l.e = s /\ m.e # s) \/ (l.e # s /\ m.e = s)
  BY <1>2
<1> HIDE DEF T, G, s, O
<1>10. BitsFit(a, b, m)
  <2>1. \A g \in UnderWay(m) : /\ g.msg[1] = a /\ g.msg[2] \in T
                               /\ g.bit = m.s => NoneSince(m.ok, g.msg[2])
                               /\ g.bit # m.s => OneSince(m.ok, g.msg[2])
    BY <1>1, <1>3, <1>4
  <2>2. \A x \in From(a, m.got) : x[2] \in T
    BY <1>3, <1>4, <1>7
  <2>3. \A g \in l.cur : g.bit = s /\ g.msg = <<a, l.n>> /\ l.n \in T /\ NoneSince(O, l.n)
    BY DEF BitInv, BitsFit, T, s, O
  <2> QED BY <1>1, <1>4, <2>1, <2>2, <2>3 DEF BitsFit
<1>11. QueuesFit(a, b, m)
  <2>1. (\E g \in Held(m) : g.bit = s) => \A g \in MessagesIn(m.c) : g.bit = s
    BY <1>3 DEF BitInv, QueuesFit, s
  <2>2. Turns(m.k, "ACK", s) /\ Turns(m.c, "MESSAGE", s)
    BY DEF BitInv, QueuesFit, s
  <2> QED BY <1>1, <1>3, <1>4, <1>6, <2>1, <2>2 DEF QueuesFit
<1>12. CASE l.e = s /\ m.e # s
  <2>1. \A g \in UnderWay(m) : g.bit = s
    <3>1. \A g \in Held(m) : g.bit = s
      BY <1>3, <1>8, <1>12
    <3>2. \A g \in MessagesIn(l.c) : g.bit = s
      BY <1>3, <1>8, <1>12 DEF BitInv, QueuesFit, s
    <3> QED BY <3>1, <3>2 DEF UnderWay
  <2>2. ReturnedFits(a, m)
    BY <1>1, <1>12, <2>1 DEF ReturnedFits
  <2>3. NoneSince(O, f.msg[2])
    BY <1>1, <1>3, <1>4, <1>12
  <2>4. AckedFits(a, b, m)
    <3>1. ASSUME NEW i \in O, InStepOf(T, O, i), <<a, i>> \notin G PROVE l.e # s
      BY <3>1 DEF BitInv, AckedFits, T, G, s, O
    <3> QED BY <1>1, <1>7, <1>12, <2>3, <3>1 DEF AckedFits
  <2> QED BY <1>10, <1>11, <2>2, <2>4 DEF BitInv
<1>13. CASE l.e # s /\ m.e = s
  <2>1. f.bit # s /\ OneSince(O, f.msg[2]) /\ f.msg[2] \in T /\ f.msg[2] \in Nat
        /\ f.msg = <<a, f.msg[2]>>
    BY <1>1, <1>3, <1>4, <1>13, UnderWayType
  <2>2. ~AckComes(m)
    BY <1>3, <1>4, <1>6, <2>1
  <2>3. ReturnedFits(a, m)
    <3>1. ASSUME NEW x \in G PROVE ~NoneSince(O, x[2])
      <4>1. MoreSince(O, x[2])
        BY <1>3, <1>13, <2>1 DEF BitInv, ReturnedFits, G, s, O
      <4> QED BY <1>2, <1>4, <1>5, <4>1, SinceExclusive
    <3>2. ~NoneSince(O, f.msg[2])
      BY <1>2, <2>1, SinceExclusive
    <3> QED BY <1>1, <1>7, <1>13, <3>1, <3>2 DEF ReturnedFits
  <2>4. ASSUME NEW i \in O, InStepOf(T, O, i), <<a, i>> \notin G \cup {f.msg} PROVE FALSE
    <3>1. /\ \A o \in O : o <= i
          /\ \E g \in Held(l) : g.msg = <<a, i>>
      BY <2>4 DEF BitInv, AckedFits, T, G, O
    <3>2. PICK c \in O : f.msg[2] <= c /\ \A o \in O : f.msg[2] <= o => o = c
      BY <2>1 DEF OneSince
    <3>3. c = i /\ f.msg[2] <= i /\ i \in Nat
      <4>1. c <= i /\ c \in Nat /\ i \in Nat
        BY <1>2, <2>4, <3>1, <3>2
      <4>2. f.msg[2] <= i
        BY <2>1, <3>2, <4>1
      <4> QED BY <2>4, <3>2, <4>1, <4>2
    <3>4. f.msg[2] < i
      BY <2>1, <2>4, <3>3
    <3>5. PICK p \in O : p < i /\ \A r \in T : r < i => r <= p
      BY <2>1, <2>4, <3>4 DEF InStepOf
    <3>6. f.msg[2] <= p
      BY <2>1, <3>4, <3>5
    <3>7. p = i
      BY <3>2, <3>3, <3>5, <3>6
    <3> QED BY <3>3, <3>5, <3>7
  <2>5. AckedFits(a, b, m)
    BY <1>1, <1>7, <1>13, <2>2, <2>4 DEF AckedFits
  <2> QED BY <1>10, <1>11, <2>3, <2>5 DEF BitInv
<1> QED BY <1>9, <1>12, <1>13

LEMMA EndBits ==
    ASSUME NEW a \in Node, NEW b \in Node, NEW l, NEW m, LinkTyped(l), LinkTyped(m), SameSource(l, m),
           TargetEnd(l, m), BitInv(a, b, l), OneBit(l)
    PROVE  BitInv(a, b, m)
<1>1. PICK f \in Messages :
        /\ l.hand = {f} /\ m.hand = {} /\ m.fresh = {} /\ m.kept = l.kept
        /\ m.c = l.c \/ Drops(l.c, m.c)
        /\ m.k = l.k
        /\ IF f \in l.fresh THEN m.e = 1 - l.e /\ m.got = Append(l.got, f.msg)
                            ELSE m.e = l.e /\ m.got = l.got
  BY DEF TargetEnd
<1>2. MessagesIn(m.c) \subseteq MessagesIn(l.c) /\ Turns(m.c, "MESSAGE", l.s)
  <2>1. l.c \in Seq(Frame) /\ Turns(l.c, "MESSAGE", l.s)
    BY DEF LinkTyped, BitInv, QueuesFit
  <2> QED BY <1>1, <2>1, DropsTurns, TypeInMessages
<1>3. CASE f \in l.fresh
  BY <1>1, <1>2, <1>3, EndNewBits
<1>4. CASE f \notin l.fresh
  BY <1>1, <1>2, <1>4, EndOldBits
<1> QED BY <1>3, <1>4

(* Every step of the two nodes keeps the bits of one direction.            *)
LEMMA LinkBits ==
    ASSUME NEW a \in Node, NEW b \in Node, NEW l, NEW m, LinkTyped(l), LinkTyped(m),
           LinkStep(a, b, l, m), BitInv(a, b, l), OneBit(l), OneBit(m), SkipsOld(l)
    PROVE  BitInv(a, b, m)
<1>1. CASE SourceStep(a, b, l, m)
  <2>1. SameTarget(l, m)
    BY <1>1 DEF SourceStep
  <2> QED BY <1>1, <2>1, QuietSourceBits, StartBits, OkBits DEF SourceStep
<1>2. CASE TargetStep(a, l, m)
  <2>1. SameSource(l, m)
    BY <1>2 DEF TargetStep
  <2>2. CASE TargetQuiet(a, l, m) \/ TargetStore(l, m) \/ TargetBegin(l, m) \/ TargetEnd(l, m)
    BY <2>1, <2>2, QuietTargetBits, StoreBits, BeginBits, EndBits
  <2>3. ASSUME NEW h, LinkTyped(h), SameSource(l, h), TargetBegin(l, h),
               SameSource(h, m), TargetEnd(h, m)
        PROVE  BitInv(a, b, m)
    <3>1. BitInv(a, b, h) /\ OneBit(h)
      BY <2>3, BeginBits
    <3> QED BY <2>3, <3>1, EndBits
  <2> QED BY <1>2, <2>2, <2>3 DEF TargetStep
<1> QED BY <1>1, <1>2 DEF LinkStep

(* The largest of some sends.                                              *)
LEMMA MaxSend ==
    ASSUME NEW n \in Nat, NEW S, S \subseteq 1 .. n, S # {}
    PROVE  Max(S) \in S /\ \A y \in S : y <= Max(S)
<1> DEFINE R == {n - x : x \in S}
<1>1. R \subseteq Nat /\ R # {}
  OBVIOUS
<1>2. PICK r \in R : \A y \in R : ~(<<y, r>> \in OpToRel(<, Nat))
  BY <1>1, NatLessThanWellFounded, WFMin
<1>3. PICK x \in S : r = n - x
  BY <1>2
<1>4. ASSUME NEW y \in S PROVE y <= x
  <2>1. ASSUME y > x PROVE FALSE
    <3>1. n - y \in R /\ n - y \in Nat /\ n - x \in Nat /\ n - y < n - x
      BY <1>3, <1>4, <2>1
    <3>2. <<n - y, r>> \in {p \in Nat \X Nat : p[1] < p[2]}
      BY <1>3, <3>1
    <3>3. OpToRel(<, Nat) = {p \in Nat \X Nat : p[1] < p[2]}
      BY Zenon DEF OpToRel
    <3> QED BY <1>2, <3>1, <3>2, <3>3, Zenon
  <2> QED BY <1>3, <1>4, <2>1
<1>5. \E z \in S : \A y \in S : y <= z
  BY <1>3, <1>4
<1> QED BY <1>5 DEF Max

(* The messages of one sender that a node holds, pending or in hand, have  *)
(* one bit: it never holds two that follow each other.                     *)
OneBitHeld ==
    \A a, b \in Node : \A f, g \in Kept(pend[b], a) \cup InHand(op[b], a) : f.bit = g.bit

(* A pending message that the read after a duplicate finds is a duplicate. *)
OnlyOldSkipped ==
    \A b \in Node : op[b] = Skip /\ MessageSlots(pend[b]) # {} =>
        LET next == pend[b][Min(MessageSlots(pend[b]))]
        IN  next.frame.bit # ebit[<<next.from, b>>]

LEMMA OnlyOldSkips ==
    ASSUME Typed, OnlyOldSkipped, NEW a \in Node, NEW b \in Node
    PROVE  SkipsOld(Link(a, b))
<1> DEFINE p == pend[b]
<1>1. SUFFICES ASSUME op[b].at = "skip", NEW i \in SlotsOf(p, a), i = Min(MessageSlots(p))
               PROVE  p[i].frame.bit # ebit[<<a, b>>]
  BY DEF SkipsOld, Link, First
<1>2. op[b] = Skip
  BY <1>1 DEF Typed, OpTyped, Op, Idle, Recv, Skip, SendOp, RecvOp
<1>3. i \in MessageSlots(p) /\ p[i].from = a
  BY DEF SlotsOf
<1> QED BY <1>1, <1>2, <1>3 DEF OnlyOldSkipped

DirectionsFit == \A a \in Node : \A b \in Node \ {a} : BitInv(a, b, Link(a, b))

LEMMA InitFit == Init => DirectionsFit
<1> SUFFICES ASSUME Init, NEW a \in Node, NEW b \in Node \ {a} PROVE BitInv(a, b, Link(a, b))
  BY DEF DirectionsFit
<1> DEFINE l == Link(a, b)
<1>1. /\ l.c = << >> /\ l.k = << >> /\ l.kept = {} /\ l.hand = {} /\ l.cur = {} /\ l.fresh = {}
      /\ l.got = << >> /\ l.ok = {} /\ l.s = l.e
  BY DEF Init, Link, Kept, SlotsOf, MessageSlots, InHand, Fresh, Sending, Idle, Confirmed
<1> HIDE DEF l
<1>2. /\ MessagesIn(l.c) = {} /\ OfType(l.k, "ACK") = {} /\ From(a, l.got) = {}
      /\ Turns(l.c, "MESSAGE", l.s) /\ Turns(l.k, "ACK", l.s)
  BY <1>1 DEF MessagesIn, OfType, From, Turns
<1>3. UnderWay(l) = {} /\ Held(l) = {} /\ ~AckComes(l)
  BY <1>1, <1>2 DEF UnderWay, Held, AckComes
<1>4. BitInv(a, b, l)
  BY <1>1, <1>2, <1>3 DEF BitInv, BitsFit, QueuesFit, ReturnedFits, AckedFits
<1> QED BY <1>4 DEF l

LEMMA OneBitNext ==
    ASSUME OneBitHeld', NEW a \in Node, NEW b \in Node
    PROVE  OneBit(Link(a, b)')
BY DEF OneBitHeld, OneBit, Held, Link

LEMMA NextFit ==
    Typed /\ Typed' /\ CallInv /\ LabelInv /\ OneBitHeld /\ OneBitHeld' /\ OnlyOldSkipped
        /\ DirectionsFit /\ [Next]_vars => DirectionsFit'
<1> SUFFICES ASSUME Typed, Typed', CallInv, LabelInv, OneBitHeld, OneBitHeld', OnlyOldSkipped,
                    DirectionsFit, [Next]_vars
             PROVE  DirectionsFit'
  OBVIOUS
<1>1. ASSUME NEW a \in Node, NEW b \in Node \ {a} PROVE BitInv(a, b, Link(a, b)')
  <2>1. LinkStep(a, b, Link(a, b), Link(a, b)')
    BY NextLink
  <2>2. LinkTyped(Link(a, b)) /\ LinkTyped(Link(a, b)')
    BY TypedLinks, TypedLinksNext DEF LinksTyped
  <2>3. OneBit(Link(a, b))
    BY DEF OneBitHeld, OneBit, Held, Link
  <2>4. OneBit(Link(a, b)') /\ SkipsOld(Link(a, b)) /\ BitInv(a, b, Link(a, b))
    BY OneBitNext, OnlyOldSkips DEF DirectionsFit
  <2> QED BY <2>1, <2>2, <2>3, <2>4, LinkBits
<1> QED BY <1>1 DEF DirectionsFit

LEMMA SendTo ==
    ASSUME NEW n \in Node, NEW i \in 1 .. Len(Work[n])
    PROVE  Work[n][i].to \in Node \ {n} /\ Len(Work[n]) \in Nat
<1>1. Work[n] \in Seq([to : Node \ {n}, limit : Nat])
  BY RudpAssumption
<1>2. Work[n][i] \in [to : Node \ {n}, limit : Nat]
  BY <1>1, ElementType
<1> QED BY <1>1, <1>2

LEMMA ReturnedSends ==
    ASSUME Typed, CallInv, NEW n \in Node
    PROVE  /\ Len(outcome[n]) \in Nat /\ sent[n] \in Nat /\ Len(outcome[n]) <= sent[n]
           /\ sent[n] <= Len(Work[n]) /\ Len(Work[n]) \in Nat
<1>1. sent[n] \in Nat /\ outcome[n] \in Seq({"ok", "failed"}) /\ op[n] \in Op
  BY DEF Typed, SendTyped, OpTyped
<1>2. Len(Work[n]) \in Nat
  BY RudpAssumption
<1>3. Called(n)
  BY DEF CallInv
<1> QED BY <1>1, <1>2, <1>3 DEF Called

LEMMA FitIsAcked ==
    ASSUME Typed, CallInv, DirectionsFit
    PROVE  AckedNotLost
<1>1. SUFFICES ASSUME NEW n \in Node, NEW i \in 1 .. Len(outcome[n]), outcome[n][i] = "ok",
                      InStep(n, i), <<n, i>> \notin GotSet(Work[n][i].to)
               PROVE  LET b == Work[n][i].to
                          m == <<n, i>>
                      IN  \/ op[b].at = "waitAckAck" /\ op[b].msg = m /\ op[b].new
                          \/ \E s \in MessageSlots(pend[b]) : pend[b][s].frame.msg = m
  BY DEF AckedNotLost
<1> DEFINE b == Work[n][i].to
           l == Link(n, b)
           T == StartedTo(n, b, sent[n])
           O == Confirmed(n, b)
<1>2. /\ Len(outcome[n]) \in Nat /\ sent[n] \in Nat /\ Len(outcome[n]) <= sent[n]
      /\ sent[n] <= Len(Work[n]) /\ Len(Work[n]) \in Nat
  BY ReturnedSends
<1>3. b \in Node \ {n} /\ i \in Nat
  <2>1. i \in 1 .. Len(Work[n])
    BY <1>2
  <2> QED BY <1>2, <2>1, SendTo
<1>4. i \in O /\ O \subseteq Nat
  BY <1>1, <1>2 DEF Confirmed
<1>5. InStepOf(T, O, i)
  <2> DEFINE before == {k \in 1 .. i - 1 : Work[n][k].to = Work[n][i].to}
  <2>1. \A q \in T : q < i => q \in before
    BY <1>2, <1>3 DEF StartedTo
  <2>2. ASSUME before # {} PROVE Max(before) \in O /\ Max(before) < i /\ \A r \in before : r <= Max(before)
    <3>1. i - 1 \in Nat /\ before \subseteq 1 .. i - 1
      BY <1>3
    <3>2. Max(before) \in before /\ \A r \in before : r <= Max(before)
      BY <2>2, <3>1, MaxSend
    <3>3. outcome[n][Max(before)] = "ok"
      BY <1>1, <2>2 DEF InStep
    <3>4. Max(before) \in 1 .. Len(outcome[n]) /\ Max(before) < i /\ Work[n][Max(before)].to = b
      BY <1>2, <1>3, <3>2
    <3> QED BY <3>2, <3>3, <3>4 DEF Confirmed
  <2> HIDE DEF before, T, O
  <2> QED BY <2>1, <2>2 DEF InStepOf
<1>6. BitInv(n, b, l) /\ LinkTyped(l)
  BY <1>3, LinkType DEF DirectionsFit
<1>7. l.ok = O /\ l.n = sent[n] /\ From(n, l.got) \subseteq GotSet(b)
  BY DEF Link, From, GotSet
<1>8. /\ Held(l) = Kept(pend[b], n) \cup InHand(op[b], n)
      /\ l.hand = InHand(op[b], n) /\ l.fresh = Fresh(op[b], n)
  BY DEF Link, Held
<1> HIDE DEF b, l, T, O
<1>9. PICK f \in Held(l) : f.msg = <<n, i>> /\ l.e # l.s
  <2>1. i \in l.ok /\ InStepOf(StartedTo(n, b, l.n), l.ok, i) /\ <<n, i>> \notin From(n, l.got)
    BY <1>1, <1>4, <1>5, <1>7 DEF T, b
  <2> QED BY <1>6, <2>1 DEF BitInv, AckedFits
<1>10. CASE f \in Kept(pend[b], n)
  <2>1. \E s \in MessageSlots(pend[b]) : pend[b][s].frame.msg = <<n, i>>
    BY <1>9, <1>10 DEF Kept, SlotsOf
  <2> QED BY <2>1 DEF b
<1>11. CASE f \in InHand(op[b], n)
  <2>1. op[b].at = "waitAckAck" /\ op[b].msg = <<n, i>>
    BY <1>9, <1>11 DEF InHand, Message
  <2>2. ~NoneSince(l.ok, i)
    BY <1>3, <1>4, <1>7 DEF NoneSince
  <2>3. f \in UnderWay(l) /\ f.bit \in 0 .. 1 /\ l.s \in 0 .. 1 /\ l.e \in 0 .. 1 /\ f.msg[2] = i
    <3>1. f \in UnderWay(l)
      BY DEF UnderWay
    <3>2. f.bit \in 0 .. 1
      BY <1>6, <3>1, UnderWayType
    <3>3. l.s \in 0 .. 1 /\ l.e \in 0 .. 1
      BY <1>6 DEF LinkTyped
    <3> QED BY <1>3, <1>9, <3>1, <3>2, <3>3
  <2>4. f.bit # l.s
    BY <1>6, <2>2, <2>3 DEF BitInv, BitsFit
  <2>5. f.bit = l.e
    BY <1>9, <2>3, <2>4
  <2>6. f \in l.fresh
    BY <1>6, <1>8, <1>11, <2>5 DEF BitInv, BitsFit
  <2>7. op[b].new
    BY <1>8, <2>6 DEF Fresh
  <2> QED BY <2>1, <2>7 DEF b
<1> QED BY <1>8, <1>9, <1>10, <1>11

LEMMA FitIsAgreed ==
    ASSUME Typed, CallInv, DirectionsFit
    PROVE  BitsAgree
<1>1. SUFFICES ASSUME NEW a \in Node, NEW b \in Node \ {a}, Len(outcome[a]) = sent[a],
                      LET mine == {i \in 1 .. sent[a] : Work[a][i].to = b}
                      IN  mine # {} => outcome[a][Max(mine)] = "ok",
                      ~(op[b].at = "waitAckAck" /\ op[b].peer = a),
                      \A s \in MessageSlots(pend[b]) : pend[b][s].from # a,
                      sbit[<<a, b>>] # ebit[<<a, b>>]
               PROVE  FALSE
  BY DEF BitsAgree
<1> DEFINE l == Link(a, b)
           mine == {i \in 1 .. sent[a] : Work[a][i].to = b}
<1>2. BitInv(a, b, l)
  BY DEF DirectionsFit
<1>3. /\ l.kept = {} /\ l.hand = {} /\ l.e # l.s /\ l.n = sent[a] /\ l.ok = Confirmed(a, b)
  BY <1>1 DEF Link, Kept, SlotsOf, InHand
<1>4. sent[a] \in Nat
  BY DEF Typed, SendTyped
<1>5. StartedTo(a, b, sent[a]) = mine
  BY DEF StartedTo
<1> HIDE DEF l
<1>6. PICK x \in From(a, l.got) : NoneSince(l.ok, x[2])
  BY <1>2, <1>3 DEF BitInv, AckedFits, Held
<1>7. x[2] \in mine
  BY <1>2, <1>3, <1>5, <1>6 DEF BitInv, BitsFit
<1>8. mine # {} => outcome[a][Max(mine)] = "ok"
  BY <1>1
<1>9. Max(mine) \in mine /\ x[2] <= Max(mine)
  BY <1>4, <1>7, MaxSend
<1>10. Max(mine) \in Confirmed(a, b)
  BY <1>1, <1>7, <1>8, <1>9 DEF Confirmed
<1>11. Max(mine) < x[2]
  BY <1>3, <1>6, <1>10 DEF NoneSince
<1>12. Max(mine) \in Nat /\ x[2] \in Nat
  BY <1>4, <1>7, <1>9
<1> QED BY <1>9, <1>11, <1>12

(* While nobody holds two messages of one sender that follow each other    *)
(* and no pending message that is new is skipped, a send that returned 0   *)
(* is one whose message was returned to the receiver's loop, or is held    *)
(* and will be taken for a new one: a lost, late or repeated MESSAGE, ACK  *)
(* or ACK_ACK does not make it count for another.                          *)
THEOREM AcknowledgedIsThere == Spec /\ []OneBitHeld /\ []OnlyOldSkipped => []AckedNotLost
<1>1. Typed /\ CallInv /\ DirectionsFit => AckedNotLost
  BY FitIsAcked
<1> QED BY <1>1, InitFit, NextFit, TypedAlways, CallAlways, LabelAlways, PTL DEF Spec

(* Under the same conditions the two ends of a direction agree on the bit  *)
(* whenever the last send succeeded and nothing of it is held any more.    *)
THEOREM BitsAlwaysAgree == Spec /\ []OneBitHeld /\ []OnlyOldSkipped => []BitsAgree
<1>1. Typed /\ CallInv /\ DirectionsFit => BitsAgree
  BY FitIsAgreed
<1> QED BY <1>1, InitFit, NextFit, TypedAlways, CallAlways, LabelAlways, PTL DEF Spec

=============================================================================
