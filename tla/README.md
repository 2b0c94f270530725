# A token ring with joins over UDP: specification, model checking, proofs

The program is a ring of processes. One token goes round; its holder may attach
one short message to it, and may let one waiting node into the ring. Joins are
requested by broadcast and carried out by unicast; all unicast traffic goes
through a small reliable transport with an alternating bit. Every process is one
thread around one `select`.

## 1. Inventory

| Part | Source | State | Operations |
|---|---|---|---|
| join table | `join.c`, `join.h` | slot array of pending requests, `count`, list of completed joins | add, remove, pop oldest, drop oldest, prune, record completed, is completed |
| join protocol | `join_fsm.c`, `unicast_dispatch.c`, `broadcast.c` | `join_inflight`, `ack_sender`, `joined`, neighbours in `config` | request, accept, ack, ack-ack, commit; retry ticks |
| token and loop | `ring.c`, `token.h` | `token_in`, `have_token`, `last_seen_topo_version` | receive, hold, report / attach a message, pass |
| message entry | `cli.c`, `writer.c` | FIFO, `cli_pending`, `have_cli_pending` | write, read |
| transport | `rudp.c` | per peer `send_seq_bit`, `expected_seq_bit`; `pending_frames` | send with limits, receive, wait for a frame |
| unicast / broadcast I/O | `unicast.c`, `broadcast.c`, `broadcast_targets.c` | sockets | pack, resolve, send, receive |
| start-up, log | `core.c`, `logger.c` | environment | |

How they interact. The loop calls the ticks (`join_ack_sender_tick`,
`join_fsm_request_tick`, `join_fsm_inflight_tick`), then at most one handler per
ready descriptor, then `handle_token_if_ready`. Handlers share `ring_state_t` and
block inside the transport while they send; what arrives meanwhile is kept in
`pending_frames`, and MESSAGE frames among it are acknowledged at once.

What is hard here:

* a join rewires three nodes (coordinator, its predecessor, the joiner) at three
  times, with four kinds of messages that are lost, repeated and late;
* a request is broadcast to everybody and repeated, a commit is broadcast once and
  unacknowledged, so nodes disagree about who has joined;
* a send can fail after it was delivered, and the transport keeps no record;
* nodes that are sending serve nobody, and all of them may be sending;
* four timers share one `select`, and what is due is only seen when it returns;
* a joiner may be restarted while others still act on its first request;
* fixed arrays with a counter beside them, popped by age, at their limit.

`PROJECT.json` lists these as hazards, at their lines, with the properties that
cover each.

## 2. Modules

| Module | Models | Composes |
|---|---|---|
| `JoinState` | every function of `join.c`, as operators on a table | |
| `JoinTable` | one node's events on its table; the network is the environment | `JoinState` |
| `Transport` | what a caller can see of a send: handed over or not, failed or not | |
| `Ring` | all nodes: join protocol, token, messages, restarts of joiners | `JoinState`, `Transport` |
| `TokenRing` | the abstract ring: a cycle, a token, insertion before the token | implemented by `Ring` |
| `SelectLoop` | one node's `ring_run` in time: ticks, deadlines, `select`, handlers | |
| `Rudp` | `rudp.c`, frame by frame | |
| `Channel` | the abstract transport: one send at a time, with an outcome of `Transport` | `Transport`; implemented by `Rudp`, late copies excepted |
| `MCJoinTable`, `MCRing`, `MCRudp`, `MCSelectLoop` | instances for TLC | |
| `JoinStateProofs`, `JoinTableProofs` | theorems on the join table | |
| `RingProofs`, `RingTokenProofs`, `RingCycleProofs` | theorems on the ring, each module using the invariant of the one before | `TokenRingProofs` |
| `TokenRingProofs`, `SelectLoopProofs`, `RudpProofs` | theorems on the abstract ring, the loop, the transport | |

The three levels fit together in two places. `Ring` is written with the outcomes
of module `Transport`, and `Channel` allows a send exactly those outcomes; `Rudp`
is checked to implement `Channel`, between two nodes and among three, with one
exception that is stated in the property (`OutOfOrder`, below). `Ring` lets a
timer fire at any time and assumes, for liveness, that it fires at last;
`SelectLoop` shows that the loop makes it so.

### JoinState, JoinTable

A slot with `used = 0` is `None`. `last_seen` is kept: it decides which request is
the oldest. `DropOldestPendingJoins` is the loop of pops of the code in closed
form (a slot goes when fewer than `max_remove` others precede it), which proofs
can handle. Both callers pass `count`, so it drops everything, and neither the
order nor the bound decides who stays as long as `count` is exact. `JoinTable`'s
actions are the handlers as far as they touch the table: request, commit, accept,
token, start and completion of the node's own join, passing the token, pruning,
the clock. `prune_joins` runs at the top of every iteration and is an action of
its own, because the handlers of an iteration are actions too and time passes
between them.

### Ring

One variable per field of `ring_state_t`, as a function of the node. Messages that
the transport has delivered and no handler has taken are in `net`; broadcasts are
not consumed: a request may be handled by any node as long as its sender has not
joined (afterwards too with the fault `late`), a commit by any node at any time,
any number of times.

A request id is drawn at each start, so it is the node's name and the number of
its restarts. `last_seen` is replaced by its rank within the table (`Ranked`).

`Restart` is a node that has not joined ending and being started again, at most
`MaxRestarts` times each: a new id, empty tables, no token copy, and its own
transport bits back at 0 while its peers keep theirs. Requests of its earlier life
may still be heard (`HandleJoinRequest` draws any id up to the present one), and
messages for it may still arrive. To say what the peers' bits then mean, `sbit`
keeps the bits themselves; without restarts only their agreement (`dup`) matters
and `sbit` stays empty.

The transport appears as the outcomes of a send: handed over or not, failed or
not, and whether the receiver has consumed the message the sender's bit stands for
(`dup`). With `dup` set, the next message is acknowledged and thrown away, as
`rudp_recvfrom` does. What may go wrong beyond a plain lost send is chosen by the
constant `Faults`, so that each run says which faults it assumes:

| Fault | Meaning |
|---|---|
| `late` | a request is handled after its sender joined |
| `expiry` | a request outlives `JOIN_PENDING_TTL_S` |
| `lostAck` | a limited send fails although it was delivered |
| `ackedLost` | any send may return 0 although its message is never handed over |
| `sendError` | a send without a limit fails before delivery (socket, name look-up) |
| `ackAckError` | a send without a limit fails after delivery (on a repetition or an ACK_ACK) |

`ackedLost` has two causes in the code. A message that arrives while its receiver
waits for something else is acknowledged when it is put aside (`rudp.c:433`), and
the read that follows a duplicate, of the same sender or of another, may take it
and throw it away (`rudp.c:239`). Or the ACK a sender takes for its own is the
second one of an earlier message with the same bit, and its message is lost on the
way. In either case the sender's bit has moved on and the receiver's has not, so
the next message is taken for a duplicate. `Ring` decides at the send what the
receiver will do later, and lets it happen to any send; both give it more
behaviours than the code has. One thing that `rudp.c` does is no fault of `Ring`:
handing over an old copy of a message as a new one (`rudp_late_copy` in section
3). All results about `Ring` are about rings in which that does not happen.

Handlers are atomic. That is justified by the single thread: nothing else of the
node runs during a handler, and what other nodes do in the meantime commutes with
the handler's own assignments because they communicate through `net` only. What an
iteration does with the token (read the FIFO, then start a join or pass) is one
action, because the three share one `select`.

### Rudp

`op[n]` is the place in the code at which node `n` is: in the select loop, waiting
for an ACK in a send, waiting for an ACK_ACK in a receive, at the top of the
receive loop, or at the read after a duplicate. `chan` holds the frames from one
node to another in order; frames get lost when they are sent. `sendto` may fail on
a MESSAGE or on any of the ACK_ACKs (`SendError`), with the bit left as it was. A
timer either runs out at any time (`Timely = FALSE`) or only when nothing between
the two nodes is under way or unread (`Timely = TRUE`).

`Timely` is an assumption on delays, and a strong one; the code does not guarantee
it. A peer reads nothing for 3 x 250 ms while it sends its ACK_ACKs
(`src/src/rudp.c:148`-`155`) and for a second before it passes the token
(`src/src/ring.c:166`), against time-outs of 500 ms, and the repository's own
tests ran with a delay of 1000 ms and a jitter of 500 ms
(`src/docs/final.md:429`-`430`). All runs of `Rudp` make it, in order to have few
copies under way; none of the theorems does. The two failing runs therefore do not
need an early timer.

`Channel` is what `Ring` assumes, without frames and without bits. A node starts a
send when its last one has returned; the receiver may take the message and, at
once or later, hand it to its loop; and the send returns with an outcome of
`LimitedSend` or `TokenSend`. The bits are parities: of the sends that returned 0,
and of the messages that were taken. A message is taken in its turn (`InTurn`: its
bit was the one expected), once, and never after a later one was handed over. With
`ackedLost`, a message may also be taken after its send returned, or be given up
after it was taken: those are the messages thrown away and the ACKs that come too
late.

In the refinement, `taken` is what `rudp_recvfrom` has returned or will return of
the messages its node has, going through the pending frames slot by slot
(`Returns`), and `handed` what it has returned. Steps into, out of and between
states in which `Returns` is not in the order of the sends (`OutOfOrder`) are
excepted: an old copy is, or will be, handed over after a younger message.

### SelectLoop

One node and its clock, in seconds; fractions of a second are left out. `phase` is
the place in `ring_run`. A timer (`request`, `accept`, `ack`) is the age of its
last message and the number of repetitions; `last_sent = 0`, which means due at
once, is an age of one period. `SelectTimeout` is `set_select_timeout`; `Tick`
lets a second of the sleep pass; a send takes up to `MaxBusy` seconds, during
which all timers age and datagrams are moved into the pending frames. What the
other nodes send is arbitrary: each handler is an action with every effect that it
may have on timers, queue, join in flight and token. Two parts of the C need a
remark. `timeout.tv_usec` is not initialised when the first `select` has no
deadline, so that sleep may be longer or be rejected, and then the process ends.
The first branch of `set_select_timeout` is never taken, because the handler that
sets the second confirmation completes the join: that is part of `TypeOK`
(`infl.got # Both`). The loop ends when the requests are used up, when a broadcast
fails, when `select` rejects its timeout and when a read fails.

## 3. Runs

| Run | Instance | Shows |
|---|---|---|
| `join_table` | 3 possible joiners, one restarting, table of 2 slots, 2 s, 2 versions | table invariants with the table full, evictions, ties in time |
| `ring_bystanders` | ring of 3, 1 joiner that may be restarted once during its join, 1 failed send (the token's included), expiry | one token, held by the coordinator during a join; one cycle at every moment, the token in it; one version per join; `Ring` implements `TokenRing` |
| `ring_live` | ring of 2, 1 joiner, 1 failed join message, a message for the joiner | the token is not lost; the joiner gets in, the token keeps going round; the message is not lost, circulates until its receiver is there, and is reported once |
| `rudp_pair` | 2 nodes: 2 messages one way, 1 back, one of them limited, 1 loss, 1 error of `sendto`, 3 attempts | `Rudp` implements `Channel`; what is acknowledged is there and is handed over; order; agreeing bits; no control frame is kept twice, nor one that is awaited; mutual senders do not wait for ever |
| `rudp_three` | 3 nodes: 3 messages in a row to a node that is itself sending to a third, which sends it the token; 1 loss, 1 attempt for an ACK, an array of 4 | `Rudp` implements `Channel` also where an acknowledged message is thrown away and where a second ACK answers a later message |
| `select_loop` | 2 possible joiners, periods of 1 and 2 s, 2 repetitions, sends of up to 1 s, 3 arrivals or signals | no sleep past a deadline; no spinning; accepts repeat, requests and acknowledgements end |

Runs that are expected to fail, each a finding in `PROJECT.json`:

| Run | Property | What the code does |
|---|---|---|
| `join_rejoin` | `NotHandledTwice` | two entries for one joiner, who is served twice |
| `ring_late` | `RingClosed` | a late request makes a second coordinator insert the same node |
| `ring_lost_ack` | `TokenNotLost` | the token swallowed as a duplicate |
| `ring_one_sender` | `MailConserved` | a second message overwrites the first |
| `rudp_two_senders` | `AckedNotLost` | the token and a join message are sent to one node; one lost ACK, and the token, acknowledged while it was pending, is thrown away after the duplicate |
| `rudp_late_copy` | `InOrder` | two messages to a node that is sending; one lost acknowledgement, and an old copy is accepted as new |

So the passing runs have to be read with their assumptions.

* `TokenNotLost` holds as long as no limited send fails after its delivery
  (`lostAck`) **and** no acknowledged message is thrown away (`ackedLost`). No
  send has to fail for the second: in `rudp_two_senders` one lost frame takes the
  token away. In a ring of three this needs only a predecessor that repeats its
  `JOIN_ACK` while the joiner passes the token to the coordinator.
* Every other result about `Ring` that needs the token to survive, `RingIntact`,
  `VersionCountsJoins`, `ImplementsTokenRing`, `MailConserved` and all liveness,
  has the same condition. `AtMostOneToken` and `CoordinatorHoldsToken` do not:
  they hold with both faults.
* `AtMostOneToken`, and with it everything else, needs that no old copy is handed
  over as new (`rudp_late_copy`), since that copy may be the token's.
* `RingIntact` holds as long as no request is handled after its sender joined.
* `MailConserved` holds as long as a user writes one message per join.
* `InOrder`, `AckedNotLost` and `BitsAgree` hold in the instance of `rudp_pair`,
  two nodes with one lost frame. With a third node the first two fail, in spite of
  `Timely`. `AckedNotLost` leaves out the first send after a failed one
  (`InStep`): the bit has not moved, so the receiver may take the new message for
  the old one, which is the `dup` of `Channel`.

More disagreements are in the model but have no run. With the fault `ackAckError`
there are two tokens. With `sendError`, `PassToken` loses the message it has just
taken from `cli_pending`, although the log says "will retry"
(`src/src/ring.c:171`), and reports a message for the node itself again. And
`AdvanceTopo` empties the table, as the code does and as `src/docs/final.md:252`
says of the final version; `src/docs/final.md:207`, which that passage supersedes,
removes as many requests as the versions differ by. A joiner restarted while it is
in flight never answers the accept of its old id, its new requests are ignored by
the coordinator (`src/src/broadcast.c:140`), and the coordinator keeps the token
for good: nothing is lost, and nothing moves.

One more is inside `rudp_three`, where `Channel` has it as an outcome. A message
that is put aside is acknowledged twice, once when it is stored
(`src/src/rudp.c:433`) and once when it is taken. Let n1 send three messages to n2
while n2 sends one to n3, with no frame lost, no error and no timer that runs out:
n2 stores the first two messages and acknowledges them; when it takes the first
one, n1 is sending the third, which has the same bit, and takes the second ACK of
the first message for that of the third. The third send returns 0 with its message
still under way, and if that one frame is lost, so is the message, and the bits
are out of step.

In `rudp_late_copy`, n1 sends two messages to n2, which is sending to n3 and is
sent something by n3. The early ACK of the first message is lost, so n2 keeps, in
this order, that message, the one from n3 and a second copy of the first. It takes
the first; it takes the one from n3, and while it waits for the ACK_ACK it stores
n1's second message in the freed slot, before the copy; it takes the second
message, and then accepts the copy, the bit having come round: the array is
neither a queue nor free of repetitions.

Bounds. `MaxPendingJoins` is 2 or 3 instead of 32, so that the table fills up.
`MaxAckRetries` is 1, in the failing runs 2, instead of 30: what matters is that
retries end while the coordinator's do not. `MaxLosses` and `MaxLoss` limit failed
sends and lost frames, `MaxErrors` failing calls of `sendto`: one is enough for
every retry and error path to be taken, and no failing run needs more.
`MaxRestarts` is 1 in `ring_bystanders` and 0 elsewhere: one restart already puts
two ids of one name into the tables and the network. The runs of the ring have one
joiner, whom all members may serve; several joiners, and joins one after the
other, are covered by the theorems of section 4, whose invariants were checked on
instances with two joiners before they were proved. In `Rudp`, `MaxFlight` keeps a
message from being repeated while two copies are under way; `Attempts` is 3 as in
the code, and 1 in `rudp_three`, to keep three nodes with four messages within
reach; `MaxPending` is 4 or 8 instead of 256: the array of `rudp_three` is full in
some of its states, that of `rudp_late_copy` is never, so that the copy is not
owed to a full array. In `SelectLoop`, periods keep the order of the code's (10,
1, 1 s), `Sleep` and `TTL` are no shorter, and `MaxEvents` of 3 lets an arrival
start a timer, another change it and a signal interrupt the sleep. The `Rudp` and
`SelectLoop` runs switch the deadlock check off, because the work or the process
may end; everywhere else it is on. No run uses symmetry.

Fairness. `Ring`: weak fairness of every handler of a unicast message, of the
ticks and of the turn with the token. Strong fairness of hearing a request,
because it is broadcast every ten seconds for as long as it is unanswered. A user
need not write. That the ticks and the turn deserve it is what `select_loop`
checks from less: there, only the process runs (`WF(Step)`) and time passes
(`SF(Tick)`), and `AwakeWhenDue`, `AcceptsRepeat` and `GivesUp` follow. `SF(Tick)`
is strong because time goes on also where `select` keeps returning: a second of
real time passes although no single call sleeps that long. `Rudp`: weak fairness
of reading, waiting and timers; strong fairness of starting one's sends, since the
loop comes by between two messages.

## 4. Proofs

For every value of the constants, checked by TLAPS:

| Module | Theorem | Property | Conditions |
|---|---|---|---|
| `JoinTableProofs` | `TypeCorrect`, `CountAlwaysExact`, `CompletedAlwaysUnique`, `AdvanceAlwaysEmpties` | `TypeOK`, `CountExact`, `CompletedUnique`, `TopoAdvanceEmpties` | none |
| `RingProofs` | `RingTypeCorrect` | `TypeOK` | none |
| | `TokenUnique`, `CoordinatorIsHolder` | `AtMostOneToken`, `CoordinatorHoldsToken` | no `ackAckError` |
| `RingTokenProofs` | `TokenNeverLost` | `TokenNotLost` | `NoSwallowing` |
| | `MailReportedOnce` | `MailOnce` | `TokenSendSafe` |
| | `MailNeverLost` | `MailConserved` | `NoSwallowing`, `TokenSendSafe`, `OnePerSender`, `SendersStay` |
| `RingCycleProofs` | `RingStaysIntact`, `RingStaysClosed`, `VersionsCountJoins`, `RingImplementsTokenRing` | `RingIntact`, `RingClosed`, `VersionCountsJoins`, `ImplementsTokenRing` | `NoSwallowing`, no `late`, `[]NoThirdEntry` |
| `SelectLoopProofs` | `LoopTypeCorrect`, `LoopWakesInTime` | `TypeOK`, `AwakeWhenDue` | none |
| `TokenRingProofs` | `RingStaysOne` | `TokenRing!OneRing` | a configured ring without repetitions |
| `RudpProofs` | `RudpTypeCorrect`, `ControlAlwaysOnce`, `NothingAwaitedPending` | `TypeOK`, `ControlKeptOnce`, `AwaitedNotPending` | none |
| | `DeliveredInOrder` | `InOrder` | `[]OldestFirst` |
| | `AcknowledgedIsThere`, `BitsAlwaysAgree` | `AckedNotLost`, `BitsAgree` | `[]OneBitHeld`, `[]OnlyOldSkipped` |

The conditions on `Ring` are on its faults and its users, and each leaves out
something the code does get wrong: `NoSwallowing` is no `lostAck`, no `ackedLost`
and no `ackAckError` (with the first two the token is lost, runs `ring_lost_ack`
and `rudp_two_senders`, with the third doubled); `TokenSendSafe` is no `sendError`
and no `ackAckError`, the two ways in which sending the token fails; `late` is the
run `ring_late`; `OnePerSender` the run `ring_one_sender`. `SendersStay`: a node
that writes a message before it has joined forgets it when it is restarted. All
theorems about `Ring` are moreover about its transport, in which no old copy is
handed over as new. So `TokenNeverLost` does not say that the code never loses the
token. It says that there are no other ways than these to lose it: no order of
joins, restarts, late requests, expiries, retries and failed sends does.

The arguments:

* Join table. The inductive invariant is `TypeOK /\ CountExact /\
  CompletedUnique`: the counter's type (it never goes below zero) needs its
  exactness, and its exactness needs the type of the table. `JoinStateProofs` has
  one lemma per function of `join.c`: it takes a good table to a good table. The
  code drops `count` requests when the version advances, which is all of them only
  if the counter is exact.
* Type correctness of the ring. `TypeOK` is not inductive. `TypeInv` adds that a
  node in the ring has both neighbours, that a holder has a token record, that a
  join in flight is at a holder, that a message under way has the fields of its
  type, and that every table is one of `JoinStateProofs`'s good tables.
* One token. The invariant is the conjunction of the two properties: the token
  received is the only one, so no join is in flight when it arrives; the holder
  gives it up in the step that sends it, and only with no join in flight. A
  message that is acknowledged and thrown away does no harm here.
* The token is not lost. `LInv` says that whoever is some node's `next` or is
  announced by an accept has joined or is the joiner in flight, that
  acknowledgements come from joined nodes, that ids name their owner, and how the
  bits stand: only a coordinator can be out of step, with the joiner it has in
  flight, while that one has not joined and nothing is on its way to it
  (`DupJoining`, which is where restarts come in). So a join completes only after
  its joiner has joined, the token does not move during a join, and it is sent
  neither to a node that would drop it nor to one that would swallow it.
* Messages. `OnceInv` says that only a message written is anywhere, and that it is
  in one place at most: the FIFO, `cli_pending`, the token (in hand or under way),
  or received, once. A send of the token that fails breaks it: the token in hand
  still carries what has been reported (`ring.c:143`). `KeepInv` is the other
  direction, that a message written is in one place at least.
* One cycle. A join links its joiner in three places at three moments. `CInv` says
  how far the join in flight has got: the members, who include the joiner once
  both confirmations are in, form one cycle; who has confirmed has done its part
  (`GoodAck`); every accept under way is that of the join in flight, with the
  names of its three nodes (`Current`), or that of a join that is through, on
  which its receiver will not act (`Past`); every commit is of a join that is
  through; a request left in a table by a node that is in the ring is only where
  the latest join has not been heard of (`TablesOld`), so it is dropped before the
  token can be held there; the version on the token is the number of joins.
  `Facts`, the conjunction with the invariants above, is inductive where no table
  holds three requests of one node, and the same case analysis maps each step to
  an insertion, a hand-over or a stutter of `TokenRing`. The invariants were
  checked with TLC beforehand, on the instances of `ring_bystanders` and
  `ring_live` and on a ring of one with two joiners.
* `NoThirdEntry` cannot be left out. The scan of `add_pending_join` stops at the
  first slot that is free or holds the name (`join.c:19`), so one node can have
  several entries. One is popped when its join starts, one removed when it ends; a
  third outlives the join, which takes three slots and four nodes. TLC, guided,
  gets there without any fault: the node is taken in again as its own predecessor,
  ignores the accept, and the coordinator waits. It is the same defect as in run
  `join_rejoin`, seen from the ring. The runs with `RingIntact` have two slots,
  which hold no three requests.
* The loop. The invariant `SleepIsShort` adds to the age of each timer the sleep
  that is left, and bounds it by the period.
* The abstract ring. A hand-over and an insertion keep one cycle; that the
  configured ring is one is the least-element argument on its positions.
* The transport. `TypeOK` is inductive; the lemmas are about `PendingStore`,
  `Transmit` and the ways in which a call goes on or ends. The bound on the
  attempts of an exchange is part of it. `PendInv` joins the two invariants of the
  pending frames, node by node: what leaves the array disturbs neither, what is
  stored is not there already if it is a control frame, and is not what the node
  waits for; a wait begins after the frame has been dropped or looked for. That is
  also what lets the model look into the array once per exchange, where
  `wait_for_frame` does it on every repetition (`rudp.c:393`): the later looks
  find nothing.
* One direction at a time. `Link(a, b)` is the record of all that the transport
  knows of the direction from a to b: the two channels, the message in its send,
  the bit, the sends that returned 0; the pending messages, the one taken next,
  the one in hand, the expected bit, what was returned. `NextLink` says that every
  step of the system is one of seven steps on that record or leaves it as it is
  (`LinkStep`: a send starts, is acknowledged, or goes on; a message is stored,
  taken, done with, or nothing happens), so that two invariants of quite different
  kinds need one case analysis of the code. Two smaller invariants carry it:
  `CallInv`, a node in a send is in the last one it started, and `LabelInv`, a
  message is from the node its channel or slot names.
* Order. `OrderInv` compares the numbers of the sends: from what was returned over
  the message in hand and the pending ones to the channel no message is older than
  one before it; copies of one message have one bit, and copies of a message that
  was returned have the bit that is not expected. The step that could break it is
  taking a pending message while an older one is left behind.
* Bits. `BitInv` places everything under way between the sends that returned 0:
  what has the sender's bit was sent after the last of them, what has the other
  bit after the one before. The messages in a channel, and the ACKs, turn to the
  sender's bit once. An ACK with that bit means that everything under way has it
  too, and that the receiver holds the message or has returned it (`e # s`),
  although ACKs are late and repeated. A send that failed leaves the bit where it
  was, so a message may be taken for the one before it; that is where `InStep`
  comes from.
* What the conditions say, and why they are needed. `OldestFirst`: where a free
  node looks for a pending message, it finds a sender's oldest first.
  `OneBitHeld`: the messages of one sender that a node holds have one bit.
  `OnlyOldSkipped`: the message that the read after a duplicate throws away is a
  duplicate. All three are about the state of `pending_frames`, and the code keeps
  none of them, with or without early timers: `OldestFirst` fails in
  `rudp_late_copy`, `OneBitHeld` with the three messages of `rudp_three`, and
  `OnlyOldSkipped` in `rudp_two_senders`. The theorems say that there is nothing
  else in the protocol that could break the properties: no loss, no error, no
  early timer and no interleaving.

Assumptions on constants: `MaxPendingJoinsAssumption`, `NoneAssumption`,
`JoinTableAssumption`, `RingAssumption`, `RudpAssumption`, `SelectLoopAssumption`;
TLC evaluates them in every run of their modules.

Only model-checked: the refinement of `Channel` by `Rudp`, whose mapping
(`Returns`) is a recursive function over the slots, so that what it computes would
need induction over data; all liveness, which with fairness and ENABLED is out of
the prover's reach. `AckedNotLost`, `InOrder` and `BitsAgree` are not true of
every instance, so their theorems have conditions. Between two nodes that both
send, as in `rudp_pair`, `OneBitHeld` and `OnlyOldSkipped` do not always hold, and
there `AckedNotLost` and `BitsAgree` rest on TLC.

## 5. Not modelled

* Restarts of nodes that are already in the ring: nothing is persisted, and no
  code recovers a lost token (`TOKEN_LOST_TIMEOUT_S`, `token_epoch` and
  `last_token_seen` are not used).
* `handle_ack_broadcast` in `join_fsm.c`: no caller.
* Frames of one sender overtaking each other; the limit of 32 peers; errors of
  `sendto` while a frame is received, which end the process (`ReadError` of
  `SelectLoop` has that end, `Rudp` does not).
* Fractions of a second in `SelectLoop`.
* Byte order, sizes and terminators of packed structures; sockets, interfaces,
  environment, log, containers.

## 6. Plan

Done, in this order because the token and the join are what the program is for:
the join table with its theorems; the ring with joins, token and messages, the
abstract ring and the first theorems; the transport frame by frame, with the
abstract channel it implements; restarts of joiners; the select loop in time; then
the theorems: type correctness everywhere, the token, the messages, the members'
cycle and the refinement of the abstract ring.

Last, the alternating bit as theorems: `InOrder`, `AckedNotLost` and `BitsAgree`,
under the conditions that the counterexamples leave; and the transport with a
third node, whose outcomes `Ring` then has as the fault `ackedLost`.

Next:

1. Old copies handed over as new, as a fault of `Ring`; the peer table's limit,
   and frames that overtake each other, in `Rudp`.
2. Invariants of `SelectLoop` beyond `AwakeWhenDue`.
3. Two nodes that send to each other and to nobody else: a condition weaker than
   `OneBitHeld` that holds there.
