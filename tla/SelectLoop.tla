----------------------------- MODULE SelectLoop -----------------------------
(***************************************************************************)
(* The select loop of one node (ring_run in ring.c) and its timers: the    *)
(* repeated JOIN_REQUEST, JOIN_ACCEPT_U and JOIN_ACK_U, the age of the     *)
(* requests it has heard, and how long it sleeps.  Ring lets a timer fire  *)
(* at any time; here time passes, in seconds, and the loop decides.        *)
(*                                                                         *)
(* A timer holds the seconds since its message was sent (last_sent) and    *)
(* how often it was (retries).  "Never sent" (last_sent = 0) is due at     *)
(* once, as is an age of a whole period, so it is that age.  What the      *)
(* other nodes send is arbitrary.                                          *)
(***************************************************************************)
EXTENDS Integers

CONSTANTS
    Joiner,     \* the nodes whose JOIN_REQUESTs may be heard
    None,
    Period,     \* JOIN_REQUEST_TIMEOUT_S, JOIN_ACCEPT_TIMEOUT_S, JOIN_ACK_RESEND_S
    Retries,    \* JOIN_REQUEST_RETRIES, JOIN_ACCEPT_RETRIES, JOIN_ACK_MAX_RETRIES
    TTL,        \* JOIN_PENDING_TTL_S
    Sleep,      \* SELECT_TIMEOUT_S
    MaxBusy,    \* bound: seconds a send takes, its repetitions included
    MaxEvents   \* bound: arrivals from outside, and signals

Timer == {"request", "accept", "ack"}

Channel == {"unicast", "broadcast", "fifo"}

Both == {"prev", "joiner"}

ASSUME SelectLoopAssumption ==
    /\ None \notin Nat /\ None \notin [age : Nat, tries : Nat]
    /\ None \notin [joiner : Joiner, got : SUBSET Both]
    /\ Period \in [Timer -> Nat \ {0}]
    /\ Retries \in [Timer -> Nat \ {0}]
    /\ TTL \in Nat /\ Sleep \in Nat \ {0}
    /\ MaxBusy \in Nat /\ MaxEvents \in Nat

VARIABLES
    phase,     \* where the loop is
    timer,     \* for each timer [age, tries], None while it does not run
    infl,      \* join_inflight: [joiner, got], None when not active
    queue,     \* join_state: seconds since a joiner's request was heard, or None
    joined,
    have,      \* have_token
    empty,     \* token_in.is_empty
    inbox,     \* what waits in the sockets and in the FIFO
    pending,   \* frames the transport took in while it was sending
    timeout,   \* what select was called with; negative if select rejects it
    passed,    \* seconds since select was called
    unset,     \* timeout.tv_usec has not been assigned yet
    signalled, \* a signal ends the select
    events     \* arrivals and signals so far

timerVars == <<timer, queue, passed>>
nodeVars  == <<infl, joined, have, empty>>
envVars   == <<inbox, pending, signalled, events>>
callVars  == <<timeout, unset>>
vars      == <<phase, timerVars, nodeVars, envVars, callVars>>

(* The loop in order: join_ack_sender_tick, prune_joins and the timeout,   *)
(* select, join_fsm_request_tick, join_fsm_inflight_tick, then the three   *)
(* handlers and the token.                                                 *)
Phase == {"ack", "prepare", "select", "request", "accept",
          "unicast", "broadcast", "token", "ended"}

(* A node that has to join sends its first request before the loop.        *)
Init ==
    /\ phase = "ack"
    /\ joined \in BOOLEAN
    /\ have \in BOOLEAN /\ (have => joined) /\ empty = have
    /\ timer = [k \in Timer |-> IF k = "request" /\ ~joined
                                THEN [age |-> 0, tries |-> 1] ELSE None]
    /\ infl = None
    /\ queue = [j \in Joiner |-> None]
    /\ inbox = [c \in Channel |-> 0] /\ pending = 0
    /\ signalled = FALSE /\ events = 0
    /\ timeout = 0 /\ passed = 0 /\ unset = TRUE

-----------------------------------------------------------------------------
(* Time.                                                                   *)

Running(k) == timer[k] # None

Due(k) == Running(k) /\ timer[k].age >= Period[k]

Exhausted(k) == timer[k].tries >= Retries[k]

Aged(d) == [k \in Timer |-> IF Running(k) THEN [timer[k] EXCEPT !.age = @ + d] ELSE None]

AgedQueue(d) == [j \in Joiner |-> IF queue[j] = None THEN None ELSE queue[j] + d]

Queued == {j \in Joiner : queue[j] # None}

(* A step that takes no time and sends nothing.                            *)
AtOnce == UNCHANGED <<inbox, pending, passed>>

(* A send takes d seconds, in which the transport takes in what comes; it  *)
(* has taken `taken' frames before.                                        *)
Sending(d, taken) ==
    /\ passed' = passed + d
    /\ pending' = pending + inbox["unicast"] - taken
    /\ inbox' = [inbox EXCEPT !["unicast"] = 0]

Goto(p) == phase' = p /\ UNCHANGED <<signalled, events>>

At(p) == phase = p

-----------------------------------------------------------------------------
(* The timers.                                                             *)

(* Variant: the sender goes on although its retries are exhausted.         *)
AckAfterRetries_Kept(t) == t

AckAfterRetries(t) == [t EXCEPT !["ack"] = None]

(* Variant: the send is not counted.                                       *)
Sent_Uncounted(k, d) == [age |-> d, tries |-> timer[k].tries]

(* last_sent is the time before the send, so the send makes it older.      *)
Sent(k, d) == [age |-> d, tries |-> timer[k].tries + 1]

(* join_ack_sender_tick.                                                   *)
AckSenderTick ==
    /\ At("ack") /\ Goto("prepare")
    /\ \/ /\ ~Due("ack")
          /\ AtOnce /\ UNCHANGED <<timer, queue>>
       \/ /\ Due("ack") /\ Exhausted("ack")
          /\ timer' = AckAfterRetries(timer)
          /\ AtOnce /\ UNCHANGED queue
       \/ /\ Due("ack") /\ ~Exhausted("ack")
          /\ \E d \in 0 .. MaxBusy :
                /\ Sending(d, 0)
                /\ timer' = [Aged(d) EXCEPT !["ack"] = Sent("ack", d)]
                /\ queue' = AgedQueue(d)
    /\ UNCHANGED <<nodeVars, callVars>>

(* join_fsm_request_tick.  The loop ends when the retries are exhausted or *)
(* the broadcast fails.                                                    *)
RequestTick ==
    /\ At("request")
    /\ \/ /\ ~Due("request")
          /\ Goto("accept") /\ UNCHANGED timer
       \/ /\ Due("request") /\ ~Exhausted("request")
          /\ Goto("accept") /\ timer' = [timer EXCEPT !["request"] = Sent("request", 0)]
       \/ /\ Due("request")
          /\ Goto("ended") /\ UNCHANGED timer
    /\ AtOnce
    /\ UNCHANGED <<queue, nodeVars, callVars>>

(* The message of the accept timer goes out, at most two sends long.       *)
SendAccepts(was, d) ==
    timer' = [Aged(d) EXCEPT !["accept"] = [age |-> d, tries |-> was + 1]]

(* Variant: the coordinator gives up, and keeps the token.                 *)
AcceptAgain_GiveUp == ~Exhausted("accept")

AcceptAgain == TRUE

(* Where the loop goes after the ticks: a signal skips the handlers, and a *)
(* timeout select rejects ends the loop.                                   *)
AfterTicks ==
    IF timeout < 0 THEN "ended" ELSE IF signalled THEN "ack" ELSE "unicast"

(* join_fsm_inflight_tick.  When the retries are exhausted the token is    *)
(* kept and the count begins again.                                        *)
InflightTick ==
    /\ At("accept")
    /\ phase' = AfterTicks
    /\ signalled' = FALSE /\ UNCHANGED events
    /\ \/ /\ Due("accept") /\ AcceptAgain
          /\ \E d \in 0 .. MaxBusy :
                /\ Sending(d, 0)
                /\ SendAccepts(IF Exhausted("accept") THEN 0 ELSE timer["accept"].tries, d)
                /\ queue' = AgedQueue(d)
       \/ /\ ~(Due("accept") /\ AcceptAgain)
          /\ AtOnce /\ UNCHANGED <<timer, queue>>
    /\ UNCHANGED <<nodeVars, callVars>>

-----------------------------------------------------------------------------
(* select.                                                                 *)

HasTurn == have /\ joined /\ infl = None

Expired(age) == age > TTL

Pruned == [j \in Joiner |-> IF queue[j] # None /\ Expired(queue[j]) THEN None ELSE queue[j]]

(* Variant: the queue is not looked at.                                    *)
Waits_TimersOnly(q) == {Period[k] - timer[k].age : k \in {i \in Timer : Running(i)}}

(* Seconds to each deadline; a queue is looked at every second.            *)
Waits(q) ==
    {Period[k] - timer[k].age : k \in {i \in Timer : Running(i)}}
    \cup {1 : j \in {i \in Joiner : q[i] # None}}

(* set_select_timeout.  Its first branch, a join with both confirmations,  *)
(* never applies: the handler of the second one completes the join.  With  *)
(* no deadline only tv_sec is assigned.  As long as tv_usec never has been *)
(* it may add to the sleep or be negative, which select rejects.           *)
SelectTimeout(q) ==
    \/ /\ pending > 0 \/ HasTurn
       /\ timeout' = 0
    \/ /\ pending = 0 /\ ~HasTurn
       /\ \/ /\ Waits(q) = {}
             /\ timeout' \in IF unset THEN {Sleep, Sleep + 1, -1} ELSE {Sleep}
          \/ \E w \in Waits(q) :
                /\ \A v \in Waits(q) : w <= v
                /\ timeout' = IF w > 0 THEN w ELSE 0

(* prune_joins and the call of select.                                     *)
Prepare ==
    /\ At("prepare") /\ Goto("select")
    /\ queue' = Pruned
    /\ SelectTimeout(Pruned)
    /\ unset' = FALSE
    /\ passed' = 0
    /\ UNCHANGED <<timer, nodeVars, inbox, pending>>

(* A second passes while the loop sleeps.                                  *)
Tick ==
    /\ At("select") /\ passed < timeout
    /\ passed' = passed + 1
    /\ timer' = Aged(1)
    /\ queue' = AgedQueue(1)
    /\ UNCHANGED <<phase, nodeVars, envVars, callVars>>

Ready == \E c \in Channel : inbox[c] > 0

(* select returns: the time is up, something can be read, or a signal.     *)
Return ==
    /\ At("select")
    /\ passed >= timeout \/ Ready \/ signalled
    /\ Goto("request")
    /\ UNCHANGED <<timerVars, nodeVars, inbox, pending, callVars>>

(* Something arrives: a datagram or what a user writes.                    *)
Arrive(c) ==
    /\ events < MaxEvents
    /\ inbox' = [inbox EXCEPT ![c] = @ + 1]
    /\ events' = events + 1
    /\ UNCHANGED <<phase, timerVars, nodeVars, pending, signalled, callVars>>

Signal ==
    /\ At("select") /\ events < MaxEvents
    /\ signalled' = TRUE
    /\ events' = events + 1
    /\ UNCHANGED <<phase, timerVars, nodeVars, inbox, pending, callVars>>

-----------------------------------------------------------------------------
(* The handlers.                                                           *)

Without(q, S) == [j \in Joiner |-> IF j \in S THEN None ELSE q[j]]

(* A frame is taken from the transport's list, or else from the socket.    *)
FrameWaits == At("unicast") /\ pending + inbox["unicast"] > 0

TakeFrame ==
    /\ pending' = IF pending > 0 THEN pending - 1 ELSE pending
    /\ inbox' = IF pending > 0 THEN inbox ELSE [inbox EXCEPT !["unicast"] = @ - 1]
    /\ passed' = passed

(* The unicast handler goes on while the transport holds more.             *)
NextFrame == Goto(IF pending' > 0 THEN "unicast" ELSE "broadcast")

(* Nothing to read, or a frame with no message in it: the loop ends.       *)
NoMessage ==
    /\ At("unicast")
    /\ \/ ~FrameWaits /\ AtOnce
       \/ FrameWaits /\ TakeFrame
    /\ Goto("broadcast")
    /\ UNCHANGED <<timer, queue, nodeVars, callVars>>

(* handle_token_unicast.  There is one token; one that knows of a later    *)
(* join clears the queue.                                                  *)
RecvToken(old) ==
    /\ FrameWaits /\ ~have
    /\ old \in {{}, Joiner} /\ (joined \/ old = {})
    /\ have' = joined
    /\ empty' \in BOOLEAN
    /\ queue' = Without(queue, old)
    /\ TakeFrame /\ NextFrame
    /\ UNCHANGED <<timer, infl, joined, callVars>>

(* handle_join_accept_u, with the first JOIN_ACK_U when the accept means   *)
(* this node.                                                              *)
RecvAccept(new) ==
    /\ FrameWaits
    /\ \/ /\ queue' = Without(queue, new)
          /\ TakeFrame
          /\ UNCHANGED <<timer, joined>>
       \/ \E d \in 0 .. MaxBusy, ok \in BOOLEAN :
             /\ Sending(d, 1)
             /\ joined' = TRUE
             /\ timer' = [Aged(d) EXCEPT
                   !["request"] = None,
                   !["ack"] = IF ok THEN [age |-> 0, tries |-> 1]
                              ELSE [age |-> Period["ack"], tries |-> 0]]
             /\ queue' = Without(AgedQueue(d), new)
    /\ NextFrame
    /\ UNCHANGED <<infl, have, empty, callVars>>

(* Variant: `&&' one confirmation short.                                   *)
Through_Never(got) == FALSE

Through(got) == infl # None /\ got = Both

(* handle_join_ack_u: what it confirms, then up to three answers.          *)
RecvAck(got) ==
    LET all      == infl.got \cup got
        through  == Through(all)
        finished == IF through THEN {infl.joiner} ELSE {}
        stop(t)  == IF through THEN [t EXCEPT !["accept"] = None] ELSE t
    IN  /\ FrameWaits
        /\ infl' = IF infl = None \/ through THEN None ELSE [infl EXCEPT !.got = all]
        /\ \/ /\ TakeFrame
              /\ timer' = stop(timer)
              /\ queue' = Without(queue, finished)
           \/ \E d \in 0 .. MaxBusy :
                 /\ Sending(d, 1)
                 /\ timer' = stop(Aged(d))
                 /\ queue' = Without(AgedQueue(d), finished)
        /\ NextFrame
        /\ UNCHANGED <<joined, have, empty, callVars>>

(* handle_join_ack_ack_u.  got_ack_ack takes the sender out of the timeout *)
(* and its tick does nothing more, so it counts as inactive at once.       *)
RecvAckAck ==
    /\ FrameWaits
    /\ timer' = [timer EXCEPT !["ack"] = None]
    /\ TakeFrame /\ NextFrame
    /\ UNCHANGED <<queue, nodeVars, callVars>>

(* handle_broadcast reads one datagram in an iteration.                    *)
TakeBroadcast ==
    /\ At("broadcast") /\ inbox["broadcast"] > 0
    /\ inbox' = [inbox EXCEPT !["broadcast"] = @ - 1]
    /\ Goto("token")
    /\ UNCHANGED <<pending, passed, joined, have, empty, callVars>>

NoBroadcast ==
    /\ At("broadcast") /\ inbox["broadcast"] = 0
    /\ Goto("token") /\ AtOnce
    /\ UNCHANGED <<timer, queue, nodeVars, callVars>>

(* JOIN_REQUEST: heard again, it is as new.  It is ignored from the joiner *)
(* in flight, and from one that has joined (heard empty).                  *)
RecvRequest(heard) ==
    /\ TakeBroadcast
    /\ queue' = [j \in Joiner |-> IF j \in heard /\ (infl = None \/ infl.joiner # j)
                                  THEN 0 ELSE queue[j]]
    /\ UNCHANGED <<timer, infl>>

(* JOIN_COMMIT, of the join in flight, of the one this node acknowledges,  *)
(* or of another; a new version clears the queue.                          *)
RecvCommit(new, stops) ==
    /\ TakeBroadcast
    /\ queue' = Without(queue, new)
    /\ infl' = IF "accept" \in stops THEN None ELSE infl
    /\ timer' = [k \in Timer |-> IF k \in stops THEN None ELSE timer[k]]

(* handle_cli_if_ready: a message is read while the token in hand is empty.*)
AfterCli ==
    IF inbox["fifo"] > 0 /\ empty THEN [inbox EXCEPT !["fifo"] = @ - 1] ELSE inbox

NoTurn ==
    /\ At("token") /\ ~HasTurn
    /\ Goto("ack")
    /\ inbox' = AfterCli
    /\ UNCHANGED <<timerVars, nodeVars, pending, callVars>>

(* handle_token_if_ready with a request waiting: the oldest.               *)
StartJoin(j) ==
    /\ At("token") /\ HasTurn
    /\ j \in Queued /\ \A k \in Queued : queue[k] <= queue[j]
    /\ Goto("ack")
    /\ \E got \in {{}, {"prev"}} : infl' = [joiner |-> j, got |-> got]
    /\ \E d \in 0 .. MaxBusy :
          /\ passed' = passed + d
          /\ pending' = pending + inbox["unicast"]
          /\ inbox' = [AfterCli EXCEPT !["unicast"] = 0]
          /\ SendAccepts(0, d)
          /\ queue' = Without(AgedQueue(d), {j})
    /\ UNCHANGED <<joined, have, empty, callVars>>

(* ring_on_token: a second of "processing", then the send, which may fail. *)
PassToken ==
    /\ At("token") /\ HasTurn /\ Queued = {}
    /\ Goto("ack")
    /\ \E d \in 1 .. MaxBusy + 1 :
          /\ passed' = passed + d
          /\ timer' = Aged(d)
    /\ pending' = pending + inbox["unicast"]
    /\ inbox' = [AfterCli EXCEPT !["unicast"] = 0]
    /\ \/ have' = FALSE /\ empty' = FALSE
       \/ UNCHANGED <<have, empty>>
    /\ UNCHANGED <<queue, infl, joined, callVars>>

(* Reading a socket or the FIFO fails, or the acknowledgement of a frame:  *)
(* the loop ends.                                                          *)
ReadError ==
    /\ \/ FrameWaits
       \/ At("broadcast") /\ inbox["broadcast"] > 0
       \/ At("token") /\ inbox["fifo"] > 0 /\ empty
    /\ Goto("ended") /\ AtOnce
    /\ UNCHANGED <<timer, queue, nodeVars, callVars>>

-----------------------------------------------------------------------------

Step ==
    \/ AckSenderTick \/ Prepare \/ Return \/ RequestTick \/ InflightTick
    \/ NoMessage \/ RecvAckAck
    \/ \E old \in SUBSET Joiner : RecvToken(old)
    \/ \E new \in SUBSET Joiner : RecvAccept(new)
    \/ \E got \in SUBSET Both : RecvAck(got)
    \/ NoBroadcast
    \/ \E heard \in SUBSET Joiner : RecvRequest(heard)
    \/ \E new \in SUBSET Joiner, stops \in SUBSET {"accept", "ack"} : RecvCommit(new, stops)
    \/ NoTurn \/ PassToken
    \/ \E j \in Joiner : StartJoin(j)

Next ==
    \/ Step
    \/ Tick
    \/ \E c \in Channel : Arrive(c)
    \/ Signal
    \/ ReadError

Spec == Init /\ [][Next]_vars

(* The process runs, and time passes whatever it does: also where select   *)
(* keeps returning, a sleep is from time to time a second long.            *)
FairSpec == Spec /\ WF_vars(Step) /\ SF_vars(Tick)

-----------------------------------------------------------------------------

(* Every variable has its type; a timer runs exactly while there is        *)
(* something to repeat, and the token is in hand only in the ring.         *)
TypeOK ==
    /\ phase \in Phase
    /\ timer \in [Timer -> [age : Nat, tries : Nat] \cup {None}]
    /\ infl \in [joiner : Joiner, got : SUBSET Both] \cup {None}
    /\ queue \in [Joiner -> Nat \cup {None}]
    /\ joined \in BOOLEAN /\ have \in BOOLEAN /\ empty \in BOOLEAN
    /\ inbox \in [Channel -> Nat] /\ pending \in Nat
    /\ timeout \in Int /\ passed \in Nat
    /\ unset \in BOOLEAN /\ signalled \in BOOLEAN /\ events \in Nat
    /\ (Running("request") <=> ~joined)
    /\ (Running("accept") <=> infl # None)
    /\ (have => joined)
    /\ (infl # None => infl.got # Both)

(* The loop never sleeps past a deadline: while it would go on sleeping,   *)
(* no timer is due and no request is too old (ring.c:365-431).  All of     *)
(* join_fsm.c and of join.c's pruning rests on being called in time.       *)
AwakeWhenDue ==
    At("select") /\ passed < timeout =>
        /\ \A k \in Timer : ~Due(k)
        /\ \A j \in Queued : queue[j] <= TTL

(* A node that has neither the token nor a message in its FIFO always goes *)
(* back to sleep: no due timer keeps select from waiting for good.         *)
Settles == []<>(passed > 0 \/ HasTurn \/ inbox["fifo"] > 0 \/ At("ended"))

(* A node that nobody lets in asks its number of times and ends.           *)
GivesUp == []<>(joined \/ At("ended"))

(* join_fsm.c:146: "keeping token and retrying".  JOIN_ACCEPT_U goes out   *)
(* again and again until the join is through, or the process ends.         *)
AcceptsRepeat ==
    \A t \in 0 .. Retries["accept"] :
        Running("accept") /\ timer["accept"].tries = t
            ~> ~Running("accept") \/ timer["accept"].tries # t \/ At("ended")

(* A node stops acknowledging, answered or not.                            *)
AckStops == []<>(~Running("ack") \/ At("ended"))

=============================================================================
