-------------------------- MODULE SelectLoopProofs --------------------------
(***************************************************************************)
(* Theorems about SelectLoop, for all periods, numbers of retries and      *)
(* lengths of a send, and whatever arrives.                                *)
(***************************************************************************)
EXTENDS SelectLoop, TLAPS

TimerType == [Timer -> [age : Nat, tries : Nat] \cup {None}]

QueueType == [Joiner -> Nat \cup {None}]

(* The sleep that is left ends no later than the next deadline, and a      *)
(* queue keeps it within the second.                                       *)
SleepIsShort ==
    At("select") /\ passed < timeout =>
        /\ \A k \in Timer : Running(k) => timer[k].age + (timeout - passed) <= Period[k]
        /\ \A j \in Joiner : queue[j] # None =>
              /\ timeout - passed <= 1
              /\ queue[j] <= TTL

IInv == TypeOK /\ SleepIsShort

(* Time makes the timers older and starts or stops none.                   *)
LEMMA AgedTimers ==
    ASSUME timer \in TimerType, NEW d \in Nat
    PROVE  /\ Aged(d) \in TimerType
           /\ \A k \in Timer : (Aged(d)[k] # None) <=> (timer[k] # None)
BY SelectLoopAssumption DEF Aged, Running, TimerType

LEMMA AgedRequests ==
    ASSUME queue \in QueueType, NEW d \in Nat
    PROVE  AgedQueue(d) \in QueueType
BY SelectLoopAssumption DEF AgedQueue, QueueType

LEMMA SentType ==
    ASSUME timer \in TimerType, NEW k \in Timer, Running(k), NEW d \in Nat
    PROVE  Sent(k, d) \in [age : Nat, tries : Nat]
BY DEF Sent, Running, TimerType

LEMMA InitIInv == Init => IInv
<1> SUFFICES ASSUME Init PROVE IInv
  OBVIOUS
<1>1. TypeOK
  <2>1. joined \in BOOLEAN /\ have \in BOOLEAN /\ empty \in BOOLEAN /\ (have => joined)
    BY Zenon DEF Init
  <2>2. timer \in TimerType /\ (Running("request") <=> ~joined) /\ ~Running("accept")
    <3>1. timer = [k \in Timer |-> IF k = "request" /\ ~joined
                                   THEN [age |-> 0, tries |-> 1] ELSE None]
      BY DEF Init
    <3>2. [age |-> 0, tries |-> 1] \in [age : Nat, tries : Nat]
      OBVIOUS
    <3> QED BY <3>1, <3>2, SelectLoopAssumption DEF TimerType, Timer, Running
  <2>3. infl = None /\ queue \in QueueType /\ inbox \in [Channel -> Nat]
    BY DEF Init, QueueType
  <2>4. phase \in Phase /\ pending \in Nat /\ timeout \in Int /\ passed \in Nat /\ events \in Nat
    BY DEF Init, Phase
  <2>5. unset \in BOOLEAN /\ signalled \in BOOLEAN
    BY Zenon DEF Init
  <2> QED BY <2>1, <2>2, <2>3, <2>4, <2>5, Zenon DEF TypeOK, TimerType, QueueType
<1>2. SleepIsShort
  BY DEF Init, SleepIsShort, At
<1> QED BY <1>1, <1>2 DEF IInv

-----------------------------------------------------------------------------
(* The type invariant in three parts, each disturbed by other steps.       *)

TimersOK ==
    /\ timer \in TimerType
    /\ (Running("request") <=> ~joined)
    /\ (Running("accept") <=> infl # None)

NodeOK ==
    /\ infl \in [joiner : Joiner, got : SUBSET Both] \cup {None}
    /\ joined \in BOOLEAN /\ have \in BOOLEAN /\ empty \in BOOLEAN
    /\ (have => joined)
    /\ (infl # None => infl.got # Both)

WaitingOK == inbox \in [Channel -> Nat] /\ pending \in Nat /\ passed \in Nat

LoopOK ==
    /\ phase \in Phase /\ queue \in QueueType /\ timeout \in Int
    /\ unset \in BOOLEAN /\ signalled \in BOOLEAN /\ events \in Nat

LEMMA TypeParts == TypeOK <=> TimersOK /\ NodeOK /\ WaitingOK /\ LoopOK
BY Zenon DEF TypeOK, TimersOK, NodeOK, WaitingOK, LoopOK, TimerType, QueueType

LEMMA StepOK ==
    ASSUME TimersOK', NodeOK', WaitingOK', LoopOK', SleepIsShort'
    PROVE  IInv'
BY Zenon DEF IInv, TypeOK, TimersOK, NodeOK, WaitingOK, LoopOK, TimerType, QueueType

(* What waits stays a number through a send and through a read.            *)
LEMMA SendingOK ==
    ASSUME WaitingOK, NEW d \in 0 .. MaxBusy, NEW taken \in {0, 1}, Sending(d, taken),
           taken = 1 => FrameWaits
    PROVE  WaitingOK'
BY SelectLoopAssumption DEF WaitingOK, Sending, FrameWaits, Channel

LEMMA TakeFrameOK ==
    ASSUME WaitingOK, FrameWaits, TakeFrame
    PROVE  WaitingOK'
BY DEF WaitingOK, TakeFrame, FrameWaits, Channel

LEMMA AfterCliOK == WaitingOK => AfterCli \in [Channel -> Nat]
BY DEF WaitingOK, AfterCli, Channel

(* Outside select nothing is said about the sleep.                         *)
LEMMA NotAsleep == phase' # "select" => SleepIsShort'
BY DEF SleepIsShort, At

(* The steps of the timers.                                                *)
LEMMA AckSenderStep == TypeOK /\ AckSenderTick => IInv'
<1> SUFFICES ASSUME TypeOK, AckSenderTick PROVE IInv'
  OBVIOUS
<1>0. TimersOK /\ NodeOK /\ WaitingOK /\ LoopOK
  BY TypeParts
<1>1. NodeOK' /\ phase' = "prepare" /\ UNCHANGED <<joined, infl, timeout, unset, signalled, events>>
  BY <1>0, Zenon DEF AckSenderTick, Goto, nodeVars, callVars, NodeOK
<1>2. TimersOK' /\ WaitingOK' /\ queue' \in QueueType
  <2>1. CASE UNCHANGED <<timer, queue>> /\ AtOnce
    BY <2>1, <1>0, <1>1, Zenon DEF TimersOK, WaitingOK, LoopOK, AtOnce, Running
  <2>2. CASE timer' = AckAfterRetries(timer) /\ AtOnce /\ UNCHANGED queue
    <3>1. timer' \in TimerType /\ \A k \in Timer : k # "ack" => timer'[k] = timer[k]
      BY <2>2, <1>0 DEF TimersOK, TimerType, Timer, AckAfterRetries
    <3> QED BY <3>1, <2>2, <1>0, <1>1, Zenon DEF TimersOK, WaitingOK, LoopOK, AtOnce, Running, Timer
  <2>3. ASSUME NEW d \in 0 .. MaxBusy, Due("ack"), Sending(d, 0), queue' = AgedQueue(d),
               timer' = [Aged(d) EXCEPT !["ack"] = Sent("ack", d)]
        PROVE  TimersOK' /\ WaitingOK' /\ queue' \in QueueType
    <3>1. d \in Nat
      BY SelectLoopAssumption
    <3>2. Sent("ack", d) \in [age : Nat, tries : Nat]
      BY <3>1, <2>3, <1>0, SentType DEF TimersOK, Due, Timer
    <3>3. timer' \in TimerType /\ \A k \in Timer : k # "ack" => ((timer'[k] # None) <=> (timer[k] # None))
      BY <3>1, <3>2, <2>3, <1>0, AgedTimers DEF TimersOK, TimerType, Timer
    <3>4. TimersOK'
      BY <3>3, <1>0, <1>1, Zenon DEF TimersOK, Running, Timer
    <3>5. WaitingOK' /\ queue' \in QueueType
      BY <3>1, <2>3, <1>0, SendingOK, AgedRequests DEF LoopOK
    <3> QED BY <3>4, <3>5
  <2> QED BY <2>1, <2>2, <2>3, Zenon DEF AckSenderTick
<1>3. LoopOK'
  BY <1>0, <1>1, <1>2 DEF LoopOK, Phase
<1> QED BY <1>1, <1>2, <1>3, StepOK, NotAsleep

LEMMA RequestStep == TypeOK /\ RequestTick => IInv'
<1> SUFFICES ASSUME TypeOK, RequestTick PROVE IInv'
  OBVIOUS
<1>0. TimersOK /\ NodeOK /\ WaitingOK /\ LoopOK
  BY TypeParts
<1>1. NodeOK' /\ WaitingOK' /\ phase' \in {"accept", "ended"}
  BY <1>0, Zenon DEF RequestTick, Goto, AtOnce, nodeVars, NodeOK, WaitingOK
<1>2. LoopOK'
  BY <1>0, <1>1, Zenon DEF RequestTick, Goto, callVars, LoopOK, Phase
<1>3. TimersOK'
  <2>1. CASE UNCHANGED timer
    BY <2>1, <1>0, Zenon DEF RequestTick, nodeVars, TimersOK, Running
  <2>2. CASE Due("request") /\ timer' = [timer EXCEPT !["request"] = Sent("request", 0)]
    <3>1. Running("request")
      BY <2>2, Zenon DEF Due
    <3>2. Sent("request", 0) \in [age : Nat, tries : Nat]
      BY <3>1, <1>0, SentType DEF TimersOK, Timer
    <3>3. timer' \in TimerType /\ \A k \in Timer : (timer'[k] # None) <=> (timer[k] # None)
      BY <3>1, <3>2, <2>2, <1>0, SelectLoopAssumption DEF TimersOK, TimerType, Timer, Running
    <3> QED BY <3>3, <1>0, Zenon DEF RequestTick, nodeVars, TimersOK, Running, Timer
  <2> QED BY <2>1, <2>2, Zenon DEF RequestTick
<1> QED BY <1>1, <1>2, <1>3, StepOK, NotAsleep

(* Sending the accepts sets the accept timer and makes the others older.   *)
LEMMA AcceptsSent ==
    ASSUME timer \in TimerType, NEW was \in Nat, NEW d \in Nat, SendAccepts(was, d)
    PROVE  /\ timer' \in TimerType /\ timer'["accept"] # None
           /\ \A k \in Timer : k # "accept" => ((timer'[k] # None) <=> (timer[k] # None))
<1>1. Aged(d) \in TimerType /\ \A k \in Timer : (Aged(d)[k] # None) <=> (timer[k] # None)
  BY AgedTimers
<1>2. [age |-> d, tries |-> was + 1] \in [age : Nat, tries : Nat]
  OBVIOUS
<1> QED BY <1>1, <1>2, SelectLoopAssumption DEF SendAccepts, TimerType, Timer

LEMMA InflightStep == TypeOK /\ InflightTick => IInv'
<1> SUFFICES ASSUME TypeOK, InflightTick PROVE IInv'
  OBVIOUS
<1>0. TimersOK /\ NodeOK /\ WaitingOK /\ LoopOK
  BY TypeParts
<1>1. NodeOK' /\ phase' \in {"ended", "ack", "unicast"}
  BY <1>0, Zenon DEF InflightTick, AfterTicks, nodeVars, NodeOK
<1>2. TimersOK' /\ WaitingOK' /\ queue' \in QueueType
  <2>1. CASE UNCHANGED <<timer, queue>> /\ AtOnce
    BY <2>1, <1>0, Zenon DEF InflightTick, nodeVars, TimersOK, WaitingOK, LoopOK, AtOnce, Running
  <2>2. ASSUME Due("accept"), NEW d \in 0 .. MaxBusy, Sending(d, 0), queue' = AgedQueue(d),
               SendAccepts(IF Exhausted("accept") THEN 0 ELSE timer["accept"].tries, d)
        PROVE  TimersOK' /\ WaitingOK' /\ queue' \in QueueType
    <3>1. d \in Nat
      BY SelectLoopAssumption
    <3>2. timer["accept"] \in [age : Nat, tries : Nat]
      BY <2>2, <1>0 DEF Due, Running, TimersOK, TimerType, Timer
    <3>3. /\ timer' \in TimerType
          /\ \A k \in Timer : (timer'[k] # None) <=> (timer[k] # None)
      BY <3>1, <3>2, <2>2, <1>0, AcceptsSent DEF TimersOK, Due, Running
    <3>4. TimersOK'
      BY <3>3, <1>0, Zenon DEF InflightTick, nodeVars, TimersOK, Running, Timer
    <3>5. WaitingOK' /\ queue' \in QueueType
      BY <3>1, <2>2, <1>0, SendingOK, AgedRequests DEF LoopOK
    <3> QED BY <3>4, <3>5
  <2> QED BY <2>1, <2>2, Zenon DEF InflightTick
<1>3. LoopOK'
  BY <1>0, <1>1, <1>2, Zenon DEF InflightTick, callVars, LoopOK, Phase
<1> QED BY <1>1, <1>2, <1>3, StepOK, NotAsleep

(* The steps around select.                                                *)
LEMMA PrepareStep == TypeOK /\ Prepare => IInv'
<1> SUFFICES ASSUME TypeOK, Prepare PROVE IInv'
  OBVIOUS
<1>0. TimersOK /\ NodeOK /\ WaitingOK /\ LoopOK
  BY TypeParts
<1>1. TimersOK' /\ NodeOK' /\ phase' = "select" /\ UNCHANGED timer
  BY <1>0, Zenon DEF Prepare, Goto, nodeVars, TimersOK, NodeOK, Running
<1>2. queue' \in QueueType /\ queue' = Pruned /\ passed' = 0
  BY <1>0 DEF Prepare, Pruned, LoopOK, QueueType
<1>3. WaitingOK'
  BY <1>0, <1>2 DEF Prepare, WaitingOK
<1>4. \A w \in Waits(Pruned) : w \in Int
  BY <1>0, SelectLoopAssumption DEF Waits, Running, TimersOK, TimerType
<1>5. timeout' \in Int
  BY <1>4, SelectLoopAssumption DEF Prepare, SelectTimeout
<1>6. LoopOK'
  <2>1. unset' \in BOOLEAN /\ signalled' \in BOOLEAN /\ events' \in Nat
    BY <1>0, Zenon DEF Prepare, Goto, LoopOK
  <2> QED BY <1>1, <1>2, <1>5, <2>1, Zenon DEF LoopOK, Phase
<1>7. SleepIsShort'
  <2>1. timeout' <= 0 \/ \A w \in Waits(Pruned) : timeout' <= w
    BY <1>4 DEF Prepare, SelectTimeout
  <2>2. CASE timeout' <= 0
    BY <2>2, <1>2, <1>5 DEF SleepIsShort
  <2>3. CASE \A w \in Waits(Pruned) : timeout' <= w
    <3>1. ASSUME NEW k \in Timer, Running(k)
          PROVE  timer[k].age + timeout' <= Period[k]
      <4>1. Period[k] - timer[k].age \in Waits(Pruned)
        BY <3>1 DEF Waits
      <4>2. timer[k].age \in Nat /\ Period[k] \in Nat
        BY <3>1, <1>0, SelectLoopAssumption DEF Running, TimersOK, TimerType
      <4> QED BY <2>3, <4>1, <4>2, <1>5
    <3>2. ASSUME NEW j \in Joiner, queue'[j] # None
          PROVE  timeout' <= 1 /\ queue'[j] <= TTL
      <4>1. 1 \in Waits(Pruned)
        BY <3>2, <1>2 DEF Waits
      <4>2. queue[j] # None /\ ~(queue[j] > TTL) /\ queue'[j] = queue[j]
        BY <3>2, <1>2 DEF Pruned, Expired
      <4> QED BY <2>3, <4>1, <4>2, <1>0, SelectLoopAssumption DEF LoopOK, QueueType
    <3> QED BY <3>1, <3>2, <1>1, <1>2, <1>5 DEF SleepIsShort, Running
  <2> QED BY <2>1, <2>2, <2>3
<1> QED BY <1>1, <1>3, <1>6, <1>7, StepOK

LEMMA TickStep == IInv /\ Tick => IInv'
<1> SUFFICES ASSUME IInv, Tick PROVE IInv'
  OBVIOUS
<1>0. TimersOK /\ NodeOK /\ WaitingOK /\ LoopOK /\ SleepIsShort
  BY TypeParts DEF IInv
<1>1. NodeOK' /\ UNCHANGED <<phase, joined, infl, timeout>>
  BY <1>0, Zenon DEF Tick, nodeVars, callVars, NodeOK
<1>2. timer' \in TimerType /\ \A k \in Timer : (timer'[k] # None) <=> (timer[k] # None)
  BY <1>0, AgedTimers DEF Tick, TimersOK
<1>3. TimersOK'
  BY <1>0, <1>1, <1>2, Zenon DEF TimersOK, Running, Timer
<1>4. WaitingOK'
  BY <1>0 DEF Tick, envVars, WaitingOK
<1>5. queue' \in QueueType
  BY <1>0, AgedRequests DEF Tick, LoopOK
<1>6. LoopOK'
  BY <1>0, <1>1, <1>5, Zenon DEF Tick, envVars, callVars, LoopOK
<1>7. SleepIsShort'
  <2>1. passed \in Nat /\ timeout \in Int /\ passed' = passed + 1 /\ timeout' = timeout
    BY <1>0, <1>1 DEF Tick, WaitingOK, LoopOK
  <2>2. ASSUME NEW k \in Timer, timer'[k] # None, passed' < timeout
        PROVE  timer'[k].age + (timeout - passed') <= Period[k]
    <3>1. timer[k] # None /\ timer[k] \in [age : Nat, tries : Nat]
      BY <2>2, <1>2, <1>0 DEF TimersOK, TimerType
    <3>2. timer'[k].age = timer[k].age + 1
      BY <3>1 DEF Tick, Aged, Running
    <3>3. timer[k].age + (timeout - passed) <= Period[k] /\ Period[k] \in Nat
      BY <3>1, <1>0, SelectLoopAssumption DEF SleepIsShort, Tick, Running
    <3> QED BY <2>1, <3>1, <3>2, <3>3
  <2>3. ASSUME NEW j \in Joiner, queue'[j] # None
        PROVE  ~(passed' < timeout)
    <3>1. queue[j] # None
      BY <2>3 DEF Tick, AgedQueue
    <3>2. timeout - passed <= 1
      BY <3>1, <1>0 DEF SleepIsShort, Tick
    <3> QED BY <2>1, <3>2
  <2> QED BY <1>1, <2>1, <2>2, <2>3 DEF SleepIsShort, Running, At
<1> QED BY <1>1, <1>3, <1>4, <1>6, <1>7, StepOK

LEMMA ReturnStep == TypeOK /\ Return => IInv'
<1> SUFFICES ASSUME TypeOK, Return PROVE IInv'
  OBVIOUS
<1>0. TimersOK /\ NodeOK /\ WaitingOK /\ LoopOK
  BY TypeParts
<1>1. TimersOK' /\ NodeOK' /\ WaitingOK' /\ phase' = "request"
  BY <1>0, Zenon DEF Return, Goto, timerVars, nodeVars, TimersOK, NodeOK, WaitingOK, Running
<1>2. LoopOK'
  BY <1>0, <1>1, Zenon DEF Return, Goto, timerVars, callVars, LoopOK, Phase
<1> QED BY <1>1, <1>2, StepOK, NotAsleep

(* What comes from outside.                                                *)
LEMMA OutsideStep ==
    ASSUME IInv, Signal \/ \E c \in Channel : Arrive(c)
    PROVE  IInv'
<1>0. TimersOK /\ NodeOK /\ WaitingOK /\ LoopOK /\ SleepIsShort
  BY TypeParts DEF IInv
<1>1. UNCHANGED <<phase, timerVars, nodeVars, pending, callVars>>
  BY Zenon DEF Signal, Arrive
<1>2. TimersOK' /\ NodeOK'
  BY <1>0, <1>1, Zenon DEF timerVars, nodeVars, TimersOK, NodeOK, Running
<1>3. SleepIsShort'
  BY <1>0, <1>1 DEF timerVars, callVars, SleepIsShort, At, Running
<1>4. WaitingOK' /\ events' \in Nat
  BY <1>0, <1>1 DEF timerVars, WaitingOK, LoopOK, Signal, Arrive, Channel
<1>5. signalled' \in BOOLEAN
  BY <1>0, Zenon DEF LoopOK, Signal, Arrive
<1>6. LoopOK'
  BY <1>0, <1>1, <1>4, <1>5, Zenon DEF LoopOK, timerVars, callVars
<1> QED BY <1>2, <1>3, <1>4, <1>6, StepOK

(* The handlers.  Each goes to a phase other than select.                  *)
LEMMA WithoutOK ==
    ASSUME NEW q \in QueueType, NEW S
    PROVE  Without(q, S) \in QueueType
BY DEF Without, QueueType

LEMMA NextFrameOK ==
    NextFrame => /\ phase' \in Phase /\ phase' # "select"
                 /\ UNCHANGED <<signalled, events>>
BY DEF NextFrame, Goto, Phase

LEMMA NoMessageStep == TypeOK /\ NoMessage => IInv'
<1> SUFFICES ASSUME TypeOK, NoMessage PROVE IInv'
  OBVIOUS
<1>0. TimersOK /\ NodeOK /\ WaitingOK /\ LoopOK
  BY TypeParts
<1>1. TimersOK' /\ NodeOK' /\ phase' = "broadcast"
  BY <1>0, Zenon DEF NoMessage, Goto, nodeVars, TimersOK, NodeOK, Running
<1>2. WaitingOK'
  <2>1. CASE AtOnce
    BY <2>1, <1>0, Zenon DEF AtOnce, WaitingOK
  <2>2. CASE FrameWaits /\ TakeFrame
    BY <2>2, <1>0, TakeFrameOK
  <2> QED BY <2>1, <2>2, Zenon DEF NoMessage
<1>3. LoopOK'
  BY <1>0, <1>1, Zenon DEF NoMessage, Goto, callVars, LoopOK, Phase
<1> QED BY <1>1, <1>2, <1>3, StepOK, NotAsleep

LEMMA TokenStep == ASSUME TypeOK, NEW old, RecvToken(old) PROVE IInv'
<1>0. TimersOK /\ NodeOK /\ WaitingOK /\ LoopOK
  BY TypeParts
<1>1. TimersOK' /\ NodeOK'
  BY <1>0, Zenon DEF RecvToken, TimersOK, NodeOK, Running
<1>2. WaitingOK' /\ queue' \in QueueType
  BY <1>0, TakeFrameOK, WithoutOK DEF RecvToken, LoopOK
<1>3. phase' # "select" /\ LoopOK'
  BY <1>0, <1>2, NextFrameOK, Zenon DEF RecvToken, callVars, LoopOK
<1> QED BY <1>1, <1>2, <1>3, StepOK, NotAsleep

LEMMA AcceptStep == ASSUME TypeOK, NEW new, RecvAccept(new) PROVE IInv'
<1>0. TimersOK /\ NodeOK /\ WaitingOK /\ LoopOK
  BY TypeParts
<1>1. TimersOK' /\ joined' \in BOOLEAN /\ (joined => joined') /\ WaitingOK' /\ queue' \in QueueType
  <2>1. CASE queue' = Without(queue, new) /\ TakeFrame /\ UNCHANGED <<timer, joined>>
    <3>1. TimersOK' /\ joined' \in BOOLEAN /\ (joined => joined')
      BY <2>1, <1>0, Zenon DEF RecvAccept, TimersOK, NodeOK, Running
    <3>2. WaitingOK' /\ queue' \in QueueType
      BY <2>1, <1>0, TakeFrameOK, WithoutOK DEF RecvAccept, LoopOK
    <3> QED BY <3>1, <3>2
  <2>2. ASSUME NEW d \in 0 .. MaxBusy, NEW ok \in BOOLEAN, Sending(d, 1), joined' = TRUE,
               queue' = Without(AgedQueue(d), new),
               timer' = [Aged(d) EXCEPT
                   !["request"] = None,
                   !["ack"] = IF ok THEN [age |-> 0, tries |-> 1]
                              ELSE [age |-> Period["ack"], tries |-> 0]]
        PROVE  TimersOK' /\ joined' \in BOOLEAN /\ (joined => joined') /\ WaitingOK' /\ queue' \in QueueType
    <3>1. d \in Nat /\ Period["ack"] \in Nat
      BY SelectLoopAssumption DEF Timer
    <3>2. Aged(d) \in TimerType /\ \A k \in Timer : (Aged(d)[k] # None) <=> (timer[k] # None)
      BY <3>1, <1>0, AgedTimers DEF TimersOK
    <3>3. timer' \in TimerType /\ timer'["request"] = None /\ timer'["accept"] = Aged(d)["accept"]
      BY <3>1, <3>2, <2>2 DEF TimerType, Timer
    <3>4. TimersOK'
      BY <3>2, <3>3, <2>2, <1>0, Zenon DEF RecvAccept, TimersOK, Running, Timer
    <3>5. WaitingOK' /\ queue' \in QueueType
      BY <3>1, <2>2, <1>0, SendingOK, AgedRequests, WithoutOK DEF LoopOK, RecvAccept
    <3> QED BY <3>4, <3>5, <2>2, Zenon
  <2> QED BY <2>1, <2>2, Zenon DEF RecvAccept
<1>2. NodeOK'
  BY <1>0, <1>1, Zenon DEF RecvAccept, NodeOK
<1>3. phase' # "select" /\ LoopOK'
  BY <1>0, <1>1, NextFrameOK, Zenon DEF RecvAccept, callVars, LoopOK
<1> QED BY <1>1, <1>2, <1>3, StepOK, NotAsleep

LEMMA AckStep == ASSUME TypeOK, NEW got \in SUBSET Both, RecvAck(got) PROVE IInv'
<1> DEFINE through == Through(infl.got \cup got)
           finished == IF through THEN {infl.joiner} ELSE {}
           stop(t) == IF through THEN [t EXCEPT !["accept"] = None] ELSE t
<1>0. TimersOK /\ NodeOK /\ WaitingOK /\ LoopOK
  BY TypeParts
<1>1. NodeOK' /\ joined' = joined /\ (infl' # None <=> infl # None /\ ~through)
  <2>1. infl' = IF infl = None \/ through THEN None
                ELSE [infl EXCEPT !.got = infl.got \cup got]
    BY Zenon DEF RecvAck
  <2>2. /\ infl' \in [joiner : Joiner, got : SUBSET Both] \cup {None}
        /\ (infl' # None => infl'.got # Both)
        /\ (infl' # None <=> infl # None /\ ~through)
    BY <2>1, <1>0, SelectLoopAssumption DEF NodeOK, Through
  <2> QED BY <2>2, <1>0, Zenon DEF RecvAck, NodeOK
<1>2. ASSUME NEW t \in TimerType, \A k \in Timer : (t[k] # None) <=> (timer[k] # None),
             timer' = stop(t)
      PROVE  TimersOK'
  <2>1. /\ timer' \in TimerType
        /\ (timer'["request"] # None) <=> (timer["request"] # None)
        /\ (timer'["accept"] # None) <=> (timer["accept"] # None /\ ~through)
    BY <1>2 DEF TimerType, Timer
  <2> HIDE DEF through
  <2> QED BY <2>1, <1>0, <1>1, Zenon DEF TimersOK, Running
<1>3. TimersOK' /\ WaitingOK' /\ queue' \in QueueType
  <2>1. CASE TakeFrame /\ timer' = stop(timer) /\ queue' = Without(queue, finished)
    <3>1. TimersOK'
      BY <2>1, <1>0, <1>2 DEF TimersOK
    <3>2. WaitingOK' /\ queue' \in QueueType
      BY <2>1, <1>0, TakeFrameOK, WithoutOK DEF RecvAck, LoopOK
    <3> QED BY <3>1, <3>2
  <2>2. ASSUME NEW d \in 0 .. MaxBusy, Sending(d, 1), timer' = stop(Aged(d)),
               queue' = Without(AgedQueue(d), finished)
        PROVE  TimersOK' /\ WaitingOK' /\ queue' \in QueueType
    <3>1. d \in Nat
      BY SelectLoopAssumption
    <3>2. TimersOK'
      BY <3>1, <2>2, <1>0, <1>2, AgedTimers DEF TimersOK
    <3>3. WaitingOK' /\ queue' \in QueueType
      BY <3>1, <2>2, <1>0, SendingOK, AgedRequests, WithoutOK DEF RecvAck, LoopOK
    <3> QED BY <3>2, <3>3
  <2> QED BY <2>1, <2>2, Zenon DEF RecvAck
<1>4. phase' # "select" /\ LoopOK'
  BY <1>0, <1>3, NextFrameOK, Zenon DEF RecvAck, callVars, LoopOK
<1> QED BY <1>1, <1>3, <1>4, StepOK, NotAsleep

(* A timer that is stopped stops, the others go on.                        *)
LEMMA Stopped ==
    ASSUME timer \in TimerType, NEW S, timer' = [k \in Timer |-> IF k \in S THEN None ELSE timer[k]]
    PROVE  timer' \in TimerType
BY DEF TimerType

LEMMA AckAckStep == ASSUME TypeOK, RecvAckAck PROVE IInv'
<1>0. TimersOK /\ NodeOK /\ WaitingOK /\ LoopOK
  BY TypeParts
<1>1. NodeOK' /\ joined' = joined /\ infl' = infl
  BY <1>0, Zenon DEF RecvAckAck, nodeVars, NodeOK
<1>2. /\ timer' \in TimerType
      /\ timer'["request"] = timer["request"] /\ timer'["accept"] = timer["accept"]
  BY <1>0 DEF RecvAckAck, TimersOK, TimerType, Timer
<1>3. TimersOK'
  BY <1>0, <1>1, <1>2, Zenon DEF TimersOK, Running
<1>4. WaitingOK'
  BY <1>0, TakeFrameOK DEF RecvAckAck
<1>5. phase' # "select" /\ LoopOK'
  BY <1>0, NextFrameOK, Zenon DEF RecvAckAck, callVars, LoopOK
<1> QED BY <1>1, <1>3, <1>4, <1>5, StepOK, NotAsleep

LEMMA NoBroadcastStep == ASSUME TypeOK, NoBroadcast PROVE IInv'
<1>0. TimersOK /\ NodeOK /\ WaitingOK /\ LoopOK
  BY TypeParts
<1>1. TimersOK' /\ NodeOK' /\ WaitingOK' /\ phase' = "token"
  BY <1>0, Zenon DEF NoBroadcast, Goto, AtOnce, nodeVars, TimersOK, NodeOK, WaitingOK, Running
<1>2. LoopOK'
  BY <1>0, <1>1, Zenon DEF NoBroadcast, Goto, callVars, LoopOK, Phase
<1> QED BY <1>1, <1>2, StepOK, NotAsleep

LEMMA ReadErrorStep == ASSUME TypeOK, ReadError PROVE IInv'
<1>0. TimersOK /\ NodeOK /\ WaitingOK /\ LoopOK
  BY TypeParts
<1>1. TimersOK' /\ NodeOK' /\ WaitingOK' /\ phase' = "ended"
  BY <1>0, Zenon DEF ReadError, Goto, AtOnce, nodeVars, TimersOK, NodeOK, WaitingOK, Running
<1>2. LoopOK'
  BY <1>0, <1>1, Zenon DEF ReadError, Goto, callVars, LoopOK, Phase
<1> QED BY <1>1, <1>2, StepOK, NotAsleep

LEMMA TakeBroadcastOK ==
    ASSUME WaitingOK, LoopOK, TakeBroadcast, queue' \in QueueType
    PROVE  WaitingOK' /\ LoopOK' /\ phase' # "select"
<1>1. WaitingOK'
  BY DEF TakeBroadcast, WaitingOK, Channel
<1>2. LoopOK' /\ phase' = "token"
  BY Zenon DEF TakeBroadcast, Goto, callVars, LoopOK, Phase
<1> QED BY <1>1, <1>2

LEMMA RequestHeardStep == ASSUME TypeOK, NEW heard, RecvRequest(heard) PROVE IInv'
<1>0. TimersOK /\ NodeOK /\ WaitingOK /\ LoopOK
  BY TypeParts
<1>1. TimersOK' /\ NodeOK'
  BY <1>0, Zenon DEF RecvRequest, TakeBroadcast, TimersOK, NodeOK, Running
<1>2. queue' \in QueueType
  BY <1>0 DEF RecvRequest, LoopOK, QueueType
<1> QED BY <1>0, <1>1, <1>2, TakeBroadcastOK, StepOK, NotAsleep DEF RecvRequest

LEMMA CommitStep ==
    ASSUME TypeOK, NEW new, NEW stops \in SUBSET {"accept", "ack"}, RecvCommit(new, stops)
    PROVE  IInv'
<1>0. TimersOK /\ NodeOK /\ WaitingOK /\ LoopOK
  BY TypeParts
<1>1. NodeOK' /\ joined' = joined /\ infl' = IF "accept" \in stops THEN None ELSE infl
  BY <1>0, Zenon DEF RecvCommit, TakeBroadcast, NodeOK
<1>2. /\ timer' \in TimerType
      /\ timer'["request"] = timer["request"]
      /\ timer'["accept"] = IF "accept" \in stops THEN None ELSE timer["accept"]
  BY <1>0, Stopped DEF RecvCommit, TimersOK, Timer
<1>3. TimersOK'
  BY <1>0, <1>1, <1>2, Zenon DEF TimersOK, Running
<1>4. queue' \in QueueType
  BY <1>0, WithoutOK DEF RecvCommit, LoopOK
<1> QED BY <1>0, <1>1, <1>3, <1>4, TakeBroadcastOK, StepOK, NotAsleep DEF RecvCommit

LEMMA NoTurnStep == ASSUME TypeOK, NoTurn PROVE IInv'
<1>0. TimersOK /\ NodeOK /\ WaitingOK /\ LoopOK
  BY TypeParts
<1>1. TimersOK' /\ NodeOK' /\ phase' = "ack"
  BY <1>0, Zenon DEF NoTurn, Goto, timerVars, nodeVars, TimersOK, NodeOK, Running
<1>2. WaitingOK'
  BY <1>0, AfterCliOK DEF NoTurn, timerVars, WaitingOK
<1>3. LoopOK'
  BY <1>0, <1>1, Zenon DEF NoTurn, Goto, timerVars, callVars, LoopOK, Phase
<1> QED BY <1>1, <1>2, <1>3, StepOK, NotAsleep

LEMMA JoinStep == ASSUME TypeOK, NEW j \in Joiner, StartJoin(j) PROVE IInv'
<1>0. TimersOK /\ NodeOK /\ WaitingOK /\ LoopOK
  BY TypeParts
<1>1. NodeOK' /\ joined' = joined /\ infl' # None
  <2>1. \E got \in {{}, {"prev"}} : infl' = [joiner |-> j, got |-> got]
    BY Zenon DEF StartJoin
  <2>2. infl' \in [joiner : Joiner, got : SUBSET Both] /\ infl'.got # Both
    BY <2>1 DEF Both
  <2> QED BY <2>2, <1>0, SelectLoopAssumption, Zenon DEF StartJoin, NodeOK
<1>2. PICK d \in 0 .. MaxBusy :
          /\ passed' = passed + d
          /\ pending' = pending + inbox["unicast"]
          /\ inbox' = [AfterCli EXCEPT !["unicast"] = 0]
          /\ SendAccepts(0, d)
          /\ queue' = Without(AgedQueue(d), {j})
  BY Zenon DEF StartJoin
<1>3. d \in Nat
  BY SelectLoopAssumption
<1>4. /\ timer' \in TimerType /\ timer'["accept"] # None
      /\ (timer'["request"] # None) <=> (timer["request"] # None)
  BY <1>0, <1>2, <1>3, AcceptsSent DEF TimersOK, Timer
<1>5. TimersOK'
  BY <1>0, <1>1, <1>4, Zenon DEF TimersOK, Running
<1>6. WaitingOK'
  BY <1>0, <1>2, <1>3, AfterCliOK DEF WaitingOK, Channel
<1>7. queue' \in QueueType
  BY <1>0, <1>2, <1>3, AgedRequests, WithoutOK DEF LoopOK
<1>8. phase' = "ack" /\ LoopOK'
  BY <1>0, <1>7, Zenon DEF StartJoin, Goto, callVars, LoopOK, Phase
<1> QED BY <1>1, <1>5, <1>6, <1>8, StepOK, NotAsleep

LEMMA PassStep == ASSUME TypeOK, PassToken PROVE IInv'
<1>0. TimersOK /\ NodeOK /\ WaitingOK /\ LoopOK
  BY TypeParts
<1>1. NodeOK' /\ joined' = joined /\ infl' = infl
  <2>1. joined' = joined /\ infl' = infl
    BY DEF PassToken
  <2>2. (have' = FALSE /\ empty' = FALSE) \/ (have' = have /\ empty' = empty)
    BY Zenon DEF PassToken
  <2>3. have' \in BOOLEAN /\ empty' \in BOOLEAN /\ (have' => joined)
    <3>1. CASE have' = FALSE /\ empty' = FALSE
      BY <3>1
    <3>2. CASE have' = have /\ empty' = empty
      BY <3>2, <1>0, Zenon DEF NodeOK
    <3> QED BY <2>2, <3>1, <3>2
  <2> QED BY <2>1, <2>3, <1>0, Zenon DEF NodeOK
<1>2. PICK d \in 1 .. MaxBusy + 1 : passed' = passed + d /\ timer' = Aged(d)
  BY Zenon DEF PassToken
<1>3. d \in Nat
  BY SelectLoopAssumption
<1>4. timer' \in TimerType /\ \A k \in Timer : (timer'[k] # None) <=> (timer[k] # None)
  BY <1>0, <1>2, <1>3, AgedTimers DEF TimersOK
<1>5. TimersOK'
  BY <1>0, <1>1, <1>4, Zenon DEF TimersOK, Running, Timer
<1>6. WaitingOK'
  BY <1>0, <1>2, <1>3, AfterCliOK DEF PassToken, WaitingOK, Channel
<1>7. phase' = "ack" /\ LoopOK'
  BY <1>0, Zenon DEF PassToken, Goto, callVars, LoopOK, Phase
<1> QED BY <1>1, <1>5, <1>6, <1>7, StepOK, NotAsleep

-----------------------------------------------------------------------------

LEMMA NextIInv == IInv /\ [Next]_vars => IInv'
<1> SUFFICES ASSUME IInv, [Next]_vars PROVE IInv'
  OBVIOUS
<1>0. TypeOK
  BY DEF IInv
<1>1. CASE Step
  BY <1>0, <1>1, AckSenderStep, RequestStep, InflightStep, PrepareStep, ReturnStep,
     NoMessageStep, TokenStep, AcceptStep, AckStep, AckAckStep, NoBroadcastStep,
     RequestHeardStep, CommitStep, NoTurnStep, JoinStep, PassStep, Zenon DEF Step
<1>2. CASE Tick
  BY <1>2, TickStep
<1>3. CASE Signal \/ \E c \in Channel : Arrive(c)
  BY <1>3, OutsideStep
<1>4. CASE ReadError
  BY <1>0, <1>4, ReadErrorStep
<1>5. CASE UNCHANGED vars
  <2>1. TimersOK /\ NodeOK /\ WaitingOK /\ LoopOK /\ SleepIsShort
    BY TypeParts DEF IInv
  <2>2. TimersOK' /\ NodeOK' /\ WaitingOK' /\ LoopOK'
    BY <1>5, <2>1, Zenon
       DEF vars, timerVars, nodeVars, envVars, callVars, TimersOK, NodeOK, WaitingOK, LoopOK, Running
  <2>3. SleepIsShort'
    BY <1>5, <2>1 DEF vars, timerVars, nodeVars, envVars, callVars, SleepIsShort, At, Running
  <2> QED BY <2>2, <2>3, StepOK
<1> QED BY <1>1, <1>2, <1>3, <1>4, <1>5, Zenon DEF Next

(* Type correctness, with the timers that run while there is something to  *)
(* repeat (ring_state_t in ring.h).                                        *)
THEOREM LoopTypeCorrect == Spec => []TypeOK
<1>1. IInv => TypeOK
  BY DEF IInv
<1> QED BY <1>1, InitIInv, NextIInv, PTL DEF Spec

(* For all periods: while select would go on sleeping, no timer is due and *)
(* no request is older than its TTL (set_select_timeout, prune_joins).     *)
THEOREM LoopWakesInTime == Spec => []AwakeWhenDue
<1>1. IInv => AwakeWhenDue
  <2> SUFFICES ASSUME IInv, At("select"), passed < timeout
               PROVE  /\ \A k \in Timer : ~Due(k)
                      /\ \A j \in Queued : queue[j] <= TTL
    BY DEF AwakeWhenDue
  <2>0. TimersOK /\ WaitingOK /\ LoopOK /\ SleepIsShort
    BY TypeParts DEF IInv
  <2>1. passed \in Nat /\ timeout \in Int
    BY <2>0 DEF WaitingOK, LoopOK
  <2>2. ASSUME NEW k \in Timer, Running(k) PROVE ~(timer[k].age >= Period[k])
    <3>1. timer[k].age + (timeout - passed) <= Period[k]
      BY <2>2, <2>0 DEF SleepIsShort
    <3>2. timer[k].age \in Nat /\ Period[k] \in Nat
      BY <2>2, <2>0, SelectLoopAssumption DEF Running, TimersOK, TimerType
    <3> QED BY <2>1, <3>1, <3>2
  <2> QED BY <2>0, <2>2 DEF SleepIsShort, Due, Queued
<1> QED BY <1>1, InitIInv, NextIInv, PTL DEF Spec

=============================================================================
