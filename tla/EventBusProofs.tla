--------------------------- MODULE EventBusProofs ---------------------------
(* Theorems about EventBus, for every set of events, publishers and         *)
(* handlers, every number of partitions and every queue size.               *)
EXTENDS EventBus, FiniteSetTheorems, SequenceTheorems, TLAPS

LEMMA PartitionIndexType == \A e \in Event : PartitionIndex(e) \in Partition
  BY BusAssumption

LEMMA IdleType ==
  ASSUME NEW pc \in {"unborn", "getting", "delivering", "appending", "exited"}
  PROVE  Idle(pc) \in WorkerState
  BY DEF Idle, WorkerState

LEMMA DeliverType ==
  ASSUME TypeOK, NEW e \in Event, NEW i \in Nat
  PROVE  /\ Deliver(e, i) \in WorkerState
         /\ Deliver(e, i).event = e
         /\ Deliver(e, i).pc \in {"delivering", "appending"}
         /\ Deliver(e, i).pc = "delivering" => Deliver(e, i).handler \in Handler
  <1>1. subscribers[e.type] \in Seq(Handler)
    BY DEF TypeOK, EventType
  <1>2. CASE i \in DOMAIN subscribers[e.type]
    <2>1. subscribers[e.type][i] \in Handler
      BY <1>1, <1>2
    <2> QED
      BY <1>2, <2>1 DEF Deliver, WorkerState
  <1>3. CASE i \notin DOMAIN subscribers[e.type]
    BY <1>3 DEF Deliver, WorkerState
  <1> QED
    BY <1>2, <1>3

(* A worker moves to a well-typed state in which it holds an event. *)
LEMMA MoveType ==
  ASSUME TypeOK, NEW w \in Worker, NEW s \in WorkerState, Move(w, s),
         s.event \in Event, s.pc = "delivering" => s.handler \in Handler
  PROVE  worker' \in [Worker -> WorkerState] /\
         attempts' \in [Event -> [Handler -> Nat]]
  BY DEF TypeOK, Move

LEMMA LoopType == \A w \in Worker : Loop(w) \in WorkerState
  BY IdleType DEF Loop, Waiting, Exited

(* A worker with an event in hand holds one, and no other does. *)
HoldsEvent ==
  \A w \in Worker :
    /\ Holding(w) => worker[w].event \in Event
    /\ ~Holding(w) => worker[w].event = NoEvent
    /\ worker[w].pc = "delivering" => worker[w].handler \in Handler

LEMMA InitType == Init => TypeOK /\ HoldsEvent
  <1> SUFFICES ASSUME Init PROVE TypeOK /\ HoldsEvent
    OBVIOUS
  <1>1. worker \in [Worker -> WorkerState]
    <2>1. Idle("unborn") \in WorkerState
      BY IdleType
    <2> QED
      BY <2>1 DEF Init
  <1>2. HoldsEvent
    BY DEF Init, HoldsEvent, Holding, Idle
  <1>3. [p \in Partition |-> <<>>] \in [Partition -> Seq(Event)]
    OBVIOUS
  <1>4. attempts \in [Event -> [Handler -> Nat]]
    BY DEF Init
  <1>5. starts \in 0 .. MaxStarts /\ subscribers \in [EventType -> Seq(Handler)]
    BY BusAssumption DEF Init
  <1> QED
    BY <1>1, <1>2, <1>3, <1>4, <1>5 DEF Init, TypeOK

LEMMA PutType ==
  ASSUME TypeOK, NEW e \in Event, Put(e)
  PROVE  queue' \in [Partition -> Seq(Event)] /\ accepted' \in [Partition -> Seq(Event)]
  BY PartitionIndexType DEF TypeOK, Put

LEMMA TypeStep == TypeOK /\ HoldsEvent /\ [Next]_vars => TypeOK' /\ HoldsEvent'
  <1> SUFFICES ASSUME TypeOK, HoldsEvent, [Next]_vars
               PROVE  TypeOK' /\ HoldsEvent'
    OBVIOUS
  <1>1. CASE Start
    <2>1. worker' \in [Worker -> WorkerState]
      BY <1>1, IdleType DEF Start, TypeOK, Waiting
    <2>2. starts' \in 0 .. MaxStarts /\ tasks' \subseteq Worker
      BY <1>1, BusAssumption DEF Start, TypeOK, Worker
    <2>3. HoldsEvent'
      BY <1>1 DEF Start, HoldsEvent, Holding, Waiting, Idle, TypeOK
    <2> QED
      BY <1>1, <2>1, <2>2, <2>3 DEF Start, TypeOK, publishVars, deliveryVars
  <1>2. CASE StopBegin
    BY <1>2 DEF StopBegin, TypeOK, HoldsEvent, Holding, publishVars, workVars, deliveryVars
  <1>3. CASE StopEnd
    BY <1>3 DEF StopEnd, TypeOK, HoldsEvent, Holding, publishVars, workVars, deliveryVars
  <1>4. ASSUME NEW w \in Worker, WorkerCancelled(w)
        PROVE  TypeOK' /\ HoldsEvent'
    <2>1. worker' \in [Worker -> WorkerState] /\ HoldsEvent'
      BY <1>4, IdleType DEF WorkerCancelled, TypeOK, HoldsEvent, Holding, Exited, Idle
    <2>2. lost' \subseteq Event
      BY <1>4 DEF WorkerCancelled, TypeOK, WorkerState
    <2> QED
      BY <1>4, <2>1, <2>2 DEF WorkerCancelled, TypeOK, publishVars, deliveryVars
  <1>4a. ASSUME NEW w \in Worker, HandlerSwallowsCancel(w)
         PROVE  TypeOK' /\ HoldsEvent'
    BY <1>4a DEF HandlerSwallowsCancel, TypeOK, HoldsEvent, Holding, publishVars, workVars,
                 deliveryVars
  <1>5. ASSUME NEW w \in Worker, Get(w)
        PROVE  TypeOK' /\ HoldsEvent'
    <2> DEFINE p == PartitionOf(w)
               e == Head(queue[p])
    <2>1. p \in Partition
      BY DEF PartitionOf, Worker
    <2>2. e \in Event /\ queue' \in [Partition -> Seq(Event)]
      BY <1>5, <2>1 DEF Get, TypeOK
    <2>3. /\ Deliver(e, 1) \in WorkerState /\ Deliver(e, 1).event = e
          /\ Deliver(e, 1).pc \in {"delivering", "appending"}
      BY <2>2, DeliverType
    <2>4. Deliver(e, 1).pc = "delivering" => Deliver(e, 1).handler \in Handler
      BY <2>2 DEF Deliver, TypeOK, EventType
    <2>5. Move(w, Deliver(e, 1))
      BY <1>5 DEF Get
    <2>6. worker' \in [Worker -> WorkerState] /\ attempts' \in [Event -> [Handler -> Nat]]
      BY <2>2, <2>3, <2>4, <2>5, MoveType
    <2>7. HoldsEvent'
      BY <2>2, <2>3, <2>4, <2>5 DEF Move, HoldsEvent, Holding, TypeOK
    <2> QED
      BY <1>5, <2>2, <2>6, <2>7 DEF Get, TypeOK, lifecycleVars, publishVars
  <1>6. ASSUME NEW w \in Worker, HandlerReturns(w) \/ HandlerFails(w)
        PROVE  TypeOK' /\ HoldsEvent'
    <2> DEFINE e == worker[w].event
               next == Deliver(e, worker[w].index + 1)
               again == [worker[w] EXCEPT !.attempt = @ + 1]
    <2>1. e \in Event /\ worker[w].handler \in Handler /\ worker[w] \in WorkerState
      BY <1>6 DEF HandlerReturns, HandlerFails, HoldsEvent, Holding, TypeOK
    <2>2. next \in WorkerState /\ next.event = e /\ next.pc \in {"delivering", "appending"}
      BY <2>1, DeliverType DEF WorkerState
    <2>3. next.pc = "delivering" => next.handler \in Handler
      BY <2>1, DeliverType DEF WorkerState
    <2>4. /\ again \in WorkerState /\ again.event = e /\ again.handler \in Handler
          /\ again.pc = "delivering"
      BY <1>6, <2>1 DEF WorkerState, HandlerReturns, HandlerFails
    <2>5. PICK s \in {next, again} : Move(w, s)
      BY <1>6 DEF HandlerReturns, HandlerFails
    <2>6. worker' \in [Worker -> WorkerState] /\ attempts' \in [Event -> [Handler -> Nat]]
      BY <2>1, <2>2, <2>3, <2>4, <2>5, MoveType
    <2>7. HoldsEvent'
      BY <2>1, <2>2, <2>3, <2>4, <2>5 DEF Move, HoldsEvent, Holding, TypeOK
    <2> QED
      BY <1>6, <2>6, <2>7
      DEF HandlerReturns, HandlerFails, TypeOK, lifecycleVars, publishVars
  <1>7. ASSUME NEW w \in Worker, EventStored(w) \/ StoreFails(w)
        PROVE  TypeOK' /\ HoldsEvent'
    <2>1. worker' \in [Worker -> WorkerState] /\ HoldsEvent'
      <3>1. worker' = [worker EXCEPT ![w] = Loop(w)]
        BY <1>7 DEF EventStored, StoreFails
      <3>2. /\ Loop(w) \in WorkerState /\ Loop(w).pc \notin {"delivering", "appending"}
            /\ Loop(w).event = NoEvent
        <4>1. Loop(w) = IF running THEN Idle("getting") ELSE Idle("exited")
          BY DEF Loop, Waiting, Exited
        <4>2. Loop(w).pc \in {"getting", "exited"} /\ Loop(w).event = NoEvent
          BY <4>1 DEF Idle
        <4> QED
          BY <4>2, LoopType
      <3> QED
        BY <3>1, <3>2 DEF TypeOK, HoldsEvent, Holding
    <2>2. stored' \in [Partition -> Seq(Event)]
      <3>1. worker[w].event \in Event /\ PartitionOf(w) \in Partition
        BY <1>7 DEF EventStored, StoreFails, HoldsEvent, Holding, PartitionOf, Worker
      <3>2. stored' = [stored EXCEPT ![PartitionOf(w)] = Append(@, worker[w].event)]
            \/ stored' = stored
        BY <1>7 DEF EventStored, StoreFails
      <3>3. stored[PartitionOf(w)] \in Seq(Event) /\ stored \in [Partition -> Seq(Event)]
        BY <3>1 DEF TypeOK
      <3>4. Append(stored[PartitionOf(w)], worker[w].event) \in Seq(Event)
        BY <3>1, <3>3
      <3> QED
        BY <3>2, <3>3, <3>4
    <2>3. unstored' \subseteq Event
      BY <1>7 DEF EventStored, StoreFails, HoldsEvent, Holding, TypeOK
    <2> QED
      BY <1>7, <2>1, <2>2, <2>3
      DEF EventStored, StoreFails, TypeOK, lifecycleVars, publishVars
  <1>8. ASSUME NEW b \in Publisher, NEW e \in Event,
               PublishRejected(b, e) \/ PublishAccepted(b, e) \/ PublishBlocks(b, e)
        PROVE  TypeOK' /\ HoldsEvent'
    <2>1. queue' \in [Partition -> Seq(Event)] /\ accepted' \in [Partition -> Seq(Event)]
      BY <1>8, PutType DEF PublishRejected, PublishAccepted, PublishBlocks, TypeOK
    <2> QED
      BY <1>8, <2>1
      DEF PublishRejected, PublishAccepted, PublishBlocks, TypeOK, HoldsEvent, Holding,
          lifecycleVars, workVars, deliveryVars
  <1>9. ASSUME NEW b \in Publisher, PutResumes(b)
        PROVE  TypeOK' /\ HoldsEvent'
    <2>1. queue' \in [Partition -> Seq(Event)] /\ accepted' \in [Partition -> Seq(Event)]
      BY <1>9, PutType DEF PutResumes, TypeOK
    <2> QED
      BY <1>9, <2>1 DEF PutResumes, TypeOK, HoldsEvent, Holding, lifecycleVars, workVars,
                        deliveryVars
  <1>10. ASSUME NEW t \in EventType, NEW h \in Handler, Subscribe(t, h) \/ Unsubscribe(t, h)
         PROVE  TypeOK' /\ HoldsEvent'
    <2>1. subscribers' \in [EventType -> Seq(Handler)]
      <3>1. CASE Subscribe(t, h)
        BY <3>1 DEF Subscribe, TypeOK
      <3>2. CASE Unsubscribe(t, h)
        BY <3>2 DEF Unsubscribe, TypeOK
      <3> QED
        BY <1>10, <3>1, <3>2
    <2>2. skipped' \in [Event -> SUBSET Handler]
      <3>1. CASE Subscribe(t, h)
        BY <3>1 DEF Subscribe, TypeOK, workVars, deliveryVars
      <3>2. CASE Unsubscribe(t, h)
        <4>1. PICK i \in DOMAIN subscribers[t] :
                skipped' = [e \in Event |-> skipped[e] \cup PassedOver(t, i, e)]
          BY <3>2 DEF Unsubscribe
        <4>2. ASSUME NEW e \in Event PROVE PassedOver(t, i, e) \subseteq Handler
          <5>1. subscribers[t] \in Seq(Handler) /\ i \in Nat \ {0}
            BY DEF TypeOK
          <5>2. ASSUME NEW w \in Worker, worker[w].index \in i .. Len(subscribers[t]) - 1
                PROVE  subscribers[t][worker[w].index + 1] \in Handler
            <6>1. worker[w].index + 1 \in 1 .. Len(subscribers[t])
              BY <5>1, <5>2
            <6> QED
              BY <5>1, <6>1
          <5> QED
            BY <5>2 DEF PassedOver
        <4> QED
          BY <4>1, <4>2 DEF TypeOK
      <3> QED
        BY <1>10, <3>1, <3>2
    <2> QED
      BY <1>10, <2>1, <2>2
      DEF Subscribe, Unsubscribe, TypeOK, HoldsEvent, Holding,
          lifecycleVars, publishVars, workVars, deliveryVars
  <1>11. CASE UNCHANGED vars
    BY <1>11 DEF vars, TypeOK, HoldsEvent, Holding
  <1> QED
    BY <1>1, <1>2, <1>3, <1>4, <1>4a, <1>5, <1>6, <1>7, <1>8, <1>9, <1>10, <1>11
    DEF Next, WorkerStep

(* Every variable of the bus keeps its type: in particular a worker that    *)
(* delivers holds an event and a handler, whatever stop() interrupted and   *)
(* however the subscriber lists changed under it (event_bus.py:171-264).    *)
THEOREM BusTypeOK == Spec => []TypeOK
  <1>1. Spec => [](TypeOK /\ HoldsEvent)
    BY InitType, TypeStep, PTL DEF Spec
  <1> QED
    BY <1>1, PTL

-----------------------------------------------------------------------------
(* One start(), one set of workers.  When callers wait for stop() before    *)
(* they call start() again, every live worker is of the last start() and    *)
(* registered in _worker_tasks, so the next stop() cancels and gathers all   *)
(* of them.                                                                 *)
OneGeneration ==
  /\ \A w \in Worker : Live(w) => w[1] = starts /\ w \in tasks
  /\ stopping # {} => ~running /\ stopping = {tasks}
  /\ ~running /\ stopping = {} => \A w \in Worker : ~Live(w)

LEMMA GenerationStep ==
  ~OverlapLifecycle /\ TypeOK /\ OneGeneration /\ [Next]_vars => OneGeneration'
  <1> SUFFICES ASSUME ~OverlapLifecycle, TypeOK, OneGeneration, [Next]_vars
               PROVE  OneGeneration'
    OBVIOUS
  (* A step that lets no worker come alive and leaves start() and stop() alone. *)
  <1>1. ASSUME UNCHANGED lifecycleVars, \A w \in Worker : Live(w)' => Live(w)
        PROVE  OneGeneration'
    BY <1>1 DEF OneGeneration, lifecycleVars
  <1>2. CASE Start
    <2>1. \A w \in Worker : Live(w)' => w \in {starts + 1} \X Partition
      BY <1>2 DEF Start, OneGeneration, Live, TypeOK
    <2>2. \A w \in Worker : Live(w)' => w[1] = starts' /\ w \in tasks'
      BY <1>2, <2>1 DEF Start
    <2>3. running' = TRUE /\ stopping' = {}
      BY <1>2 DEF Start, TypeOK
    <2> QED
      BY <2>2, <2>3 DEF OneGeneration
  <1>3. CASE StopBegin
    <2>1. running /\ stopping = {} /\ UNCHANGED <<worker, tasks, starts>> /\ running' = FALSE
      BY <1>3 DEF StopBegin, OneGeneration, workVars
    <2>2. IF tasks = {} THEN stopping' = {} ELSE stopping' = {tasks}
      BY <1>3, <2>1 DEF StopBegin
    <2> QED
      BY <2>1, <2>2 DEF OneGeneration, Live
  <1>4. CASE StopEnd
    <2>1. /\ \A w \in tasks : ~Live(w)
          /\ stopping' = {} /\ running' = running /\ UNCHANGED worker
      BY <1>4 DEF StopEnd, OneGeneration, workVars
    <2>2. \A w \in Worker : ~Live(w)
      BY <2>1 DEF OneGeneration
    <2> QED
      BY <2>1, <2>2 DEF OneGeneration, Live
  <1>5. ASSUME NEW w \in Worker, WorkerCancelled(w)
        PROVE  OneGeneration'
    <2>1. \A v \in Worker : Live(v)' => Live(v) /\ v # w
      BY <1>5 DEF WorkerCancelled, Live, TypeOK, Exited, Idle
    <2> QED
      BY <1>5, <2>1 DEF WorkerCancelled, OneGeneration
  <1>5a. ASSUME NEW w \in Worker, HandlerSwallowsCancel(w)
         PROVE  OneGeneration'
    BY <1>5a DEF HandlerSwallowsCancel, OneGeneration, Live, workVars
  <1>6. ASSUME NEW w \in Worker, WorkerStep(w)
        PROVE  OneGeneration'
    <2>1. Live(w)
      BY <1>6 DEF WorkerStep, Get, HandlerReturns, HandlerFails, EventStored,
                  StoreFails, Live
    <2>2. \A v \in Worker \ {w} : worker'[v] = worker[v]
      BY <1>6 DEF WorkerStep, Get, HandlerReturns, HandlerFails, EventStored,
                  StoreFails, Move, TypeOK
    <2>3. UNCHANGED lifecycleVars
      BY <1>6 DEF WorkerStep, Get, HandlerReturns, HandlerFails, EventStored, StoreFails
    <2> QED
      BY <1>1, <2>1, <2>2, <2>3 DEF Live
  <1>7. ASSUME NEW b \in Publisher, NEW e \in Event,
               PublishRejected(b, e) \/ PublishAccepted(b, e) \/ PublishBlocks(b, e)
        PROVE  OneGeneration'
    BY <1>1, <1>7 DEF PublishRejected, PublishAccepted, PublishBlocks, workVars, Live
  <1>8. ASSUME NEW b \in Publisher, PutResumes(b)
        PROVE  OneGeneration'
    BY <1>1, <1>8 DEF PutResumes, workVars, Live
  <1>9. ASSUME NEW t \in EventType, NEW h \in Handler, Subscribe(t, h) \/ Unsubscribe(t, h)
        PROVE  OneGeneration'
    BY <1>1, <1>9 DEF Subscribe, Unsubscribe, workVars, Live
  <1>10. CASE UNCHANGED vars
    BY <1>1, <1>10 DEF vars, lifecycleVars, Live
  <1> QED
    BY <1>2, <1>3, <1>4, <1>5, <1>5a, <1>6, <1>7, <1>8, <1>9, <1>10 DEF Next

LEMMA GenerationInv == ~OverlapLifecycle /\ Spec => []OneGeneration
  <1> SUFFICES ASSUME ~OverlapLifecycle PROVE Spec => []OneGeneration
    OBVIOUS
  <1>1. Init => OneGeneration
    BY DEF Init, OneGeneration, Live, Idle
  <1>2. TypeOK /\ OneGeneration /\ [Next]_vars => OneGeneration'
    BY GenerationStep
  <1> QED
    BY <1>1, <1>2, BusTypeOK, PTL DEF Spec

LEMMA OneWorker ==
  ASSUME OneGeneration, NEW v \in Worker, NEW w \in Worker, Live(v), Live(w),
         PartitionOf(v) = PartitionOf(w)
  PROVE  v = w
  BY DEF OneGeneration, PartitionOf, Worker

(* Strict ordering (event_bus.py:28, :82): unless start() overtakes a       *)
(* pending stop(), no partition ever has two tasks handling its events.     *)
THEOREM BusSerial == ~OverlapLifecycle /\ Spec => []SerialPerPartition
  <1>1. OneGeneration => SerialPerPartition
    BY OneWorker DEF SerialPerPartition, Holding, Live
  <1> QED
    BY <1>1, GenerationInv, PTL

(* The queue of a partition never exceeds maxsize, whichever of the waiting *)
(* publishers a free slot goes to (event_bus.py:154).                       *)
THEOREM BusQueueBounded == Spec => []QueueBounded
  <1>1. Init => QueueBounded
    BY BusAssumption DEF Init, QueueBounded
  <1>2. TypeOK /\ QueueBounded /\ [Next]_vars => QueueBounded'
    <2> SUFFICES ASSUME TypeOK, QueueBounded, [Next]_vars
                 PROVE  QueueBounded'
      OBVIOUS
    <2>1. ASSUME NEW e \in Event, Put(e), ~Full(PartitionIndex(e))
          PROVE  QueueBounded'
      BY <2>1, PartitionIndexType, BusAssumption DEF Put, Full, QueueBounded, TypeOK
    <2>2. ASSUME NEW w \in Worker, Get(w)
          PROVE  QueueBounded'
      <3>1. PartitionOf(w) \in Partition
        BY DEF PartitionOf, Worker
      <3> QED
        BY <2>2, <3>1, BusAssumption DEF Get, QueueBounded, TypeOK
    <2>3. ASSUME UNCHANGED queue PROVE QueueBounded'
      BY <2>3 DEF QueueBounded
    <2>4. ASSUME NEW b \in Publisher, NEW e \in Event,
                 PublishRejected(b, e) \/ PublishAccepted(b, e) \/ PublishBlocks(b, e)
          PROVE  QueueBounded'
      BY <2>1, <2>3, <2>4 DEF PublishRejected, PublishAccepted, PublishBlocks
    <2>5. ASSUME NEW b \in Publisher, PutResumes(b)
          PROVE  QueueBounded'
      <3>1. putting[b] \in Event
        BY <2>5 DEF PutResumes, TypeOK
      <3> QED
        BY <2>1, <2>5, <3>1 DEF PutResumes
    <2> QED
      BY <2>2, <2>3, <2>4, <2>5
      DEF Next, vars, Start, StopBegin, StopEnd, WorkerCancelled, HandlerSwallowsCancel,
          WorkerStep,
          HandlerReturns, HandlerFails, EventStored, StoreFails, Subscribe, Unsubscribe
  <1> QED
    BY <1>1, <1>2, BusTypeOK, PTL DEF Spec

-----------------------------------------------------------------------------
(* The bus implements PartitionLog.  Current picks the event of the only    *)
(* live worker of a partition, so a step of that worker changes Current at  *)
(* its partition and nowhere else.                                          *)
HeldBy(w) == IF Holding(w) THEN worker[w].event ELSE NoEvent

LEMMA CurrentOfLive ==
  OneGeneration => \A w \in Worker : Live(w) => Current[PartitionOf(w)] = HeldBy(w)
  <1> SUFFICES ASSUME OneGeneration, NEW w \in Worker, Live(w)
               PROVE  Current[PartitionOf(w)] = HeldBy(w)
    OBVIOUS
  <1> DEFINE p == PartitionOf(w)
  <1>1. p \in Partition
    BY DEF PartitionOf, Worker
  <1>2. \A v \in Worker : PartitionOf(v) = p /\ Holding(v) => v = w
    BY OneWorker DEF Holding, Live
  <1>3. CASE Holding(w)
    <2>1. (CHOOSE v \in Worker : PartitionOf(v) = p /\ Holding(v)) = w
      BY <1>2, <1>3
    <2> QED
      BY <1>1, <1>3, <2>1 DEF Current, HeldBy
  <1>4. CASE ~Holding(w)
    BY <1>1, <1>2, <1>4 DEF Current, HeldBy
  <1> QED
    BY <1>3, <1>4

LEMMA CurrentMove ==
  ASSUME OneGeneration, OneGeneration', NEW w \in Worker, Live(w),
         \A v \in Worker \ {w} : worker'[v] = worker[v]
  PROVE  Current' = [Current EXCEPT ![PartitionOf(w)] = HeldBy(w)']
  <1> DEFINE p == PartitionOf(w)
  <1>1. p \in Partition
    BY DEF PartitionOf, Worker
  <1>2. \A v \in Worker : PartitionOf(v) = p /\ Live(v) => v = w
    BY OneWorker
  <1>3. Current'[p] = HeldBy(w)'
    <2>1. \A v \in Worker : PartitionOf(v) = p /\ Holding(v)' => v = w
      BY <1>2 DEF Holding, Live
    <2>2. CASE Holding(w)'
      <3>1. (CHOOSE v \in Worker : PartitionOf(v) = p /\ Holding(v)') = w
        BY <2>1, <2>2
      <3> QED
        BY <1>1, <2>2, <3>1 DEF Current, HeldBy
    <2>3. CASE ~Holding(w)'
      BY <1>1, <2>1, <2>3 DEF Current, HeldBy
    <2> QED
      BY <2>2, <2>3
  <1>4. ASSUME NEW q \in Partition, q # p
        PROVE  Current'[q] = Current[q]
    <2>1. \A v \in Worker : PartitionOf(v) = q => worker'[v] = worker[v]
      BY <1>4
    <2>2. \A v \in Worker : PartitionOf(v) = q => (Holding(v)' <=> Holding(v))
      BY <2>1 DEF Holding
    <2>3. CASE \E v \in Worker : PartitionOf(v) = q /\ Holding(v)
      <3> DEFINE u == CHOOSE v \in Worker : PartitionOf(v) = q /\ Holding(v)
                 u1 == CHOOSE v \in Worker : PartitionOf(v) = q /\ Holding(v)'
      <3>1. u = u1
        BY <2>2
      <3>2. u \in Worker /\ PartitionOf(u) = q
        BY <2>3
      <3>3. Current[q] = worker[u].event
        BY <2>3 DEF Current
      <3>4. Current'[q] = worker'[u1].event
        BY <2>2, <2>3 DEF Current
      <3> QED
        BY <2>1, <3>1, <3>2, <3>3, <3>4
    <2>4. CASE ~\E v \in Worker : PartitionOf(v) = q /\ Holding(v)
      BY <2>2, <2>4 DEF Current
    <2> QED
      BY <2>3, <2>4
  <1>5. Current = [q \in Partition |-> Current[q]] /\ Current' = [q \in Partition |-> Current'[q]]
    BY DEF Current
  <1> HIDE DEF p
  <1> QED
    BY <1>1, <1>3, <1>4, <1>5 DEF p

LEMMA CurrentSame == UNCHANGED worker => UNCHANGED Current
  BY DEF Current, Holding

LEMMA StartCurrent == OneGeneration /\ ~OverlapLifecycle /\ TypeOK /\ Start => UNCHANGED Current
  <1> SUFFICES ASSUME OneGeneration, ~OverlapLifecycle, TypeOK, Start
               PROVE  UNCHANGED Current
    OBVIOUS
  <1>1. \A w \in Worker : ~Holding(w)
    BY DEF Start, OneGeneration, Live, Holding
  <1>2. \A w \in Worker : ~Holding(w)'
    BY <1>1 DEF Start, Holding, Waiting, Idle, TypeOK
  <1> QED
    BY <1>1, <1>2 DEF Current

LEMMA LogStep ==
  /\ ~OverlapLifecycle
  /\ TypeOK /\ HoldsEvent /\ OneGeneration /\ HoldsEvent' /\ OneGeneration' /\ [Next]_vars
  => [Log!Next]_<<queue, Current, stored>>
  <1> SUFFICES ASSUME ~OverlapLifecycle, TypeOK, HoldsEvent, OneGeneration,
                      HoldsEvent', OneGeneration', [Next]_vars
               PROVE  Log!Next \/ UNCHANGED <<queue, Current, stored>>
    OBVIOUS
  <1>1. ASSUME UNCHANGED <<queue, worker, stored>>
        PROVE  UNCHANGED <<queue, Current, stored>>
    BY <1>1, CurrentSame
  <1>2. CASE Start
    BY <1>2, StartCurrent DEF Start, deliveryVars
  <1>3. ASSUME NEW e \in Event, Put(e), UNCHANGED <<worker, stored>>
        PROVE  Log!Next
    <2>1. Log!Accept(PartitionIndex(e), e)
      BY <1>3, CurrentSame DEF Log!Accept, Put
    <2> QED
      BY <2>1, PartitionIndexType DEF Log!Next
  (* What every step of a live worker does to Current. *)
  <1>4. ASSUME NEW w \in Worker, Live(w), \A v \in Worker \ {w} : worker'[v] = worker[v]
        PROVE  /\ PartitionOf(w) \in Partition
               /\ Current[PartitionOf(w)] = HeldBy(w)
               /\ Current' = [Current EXCEPT ![PartitionOf(w)] = HeldBy(w)']
               /\ Current = [Current EXCEPT ![PartitionOf(w)] = HeldBy(w)]
    <2>1. PartitionOf(w) \in Partition
      BY DEF PartitionOf, Worker
    <2>2. Current[PartitionOf(w)] = HeldBy(w)
      BY <1>4, CurrentOfLive
    <2> QED
      BY <1>4, <2>1, <2>2, CurrentMove DEF Current
  (* A worker that gives up its event, or had none. *)
  <1>5. ASSUME NEW w \in Worker, Live(w), \A v \in Worker \ {w} : worker'[v] = worker[v],
               ~Holding(w)', UNCHANGED <<queue, stored>>
        PROVE  Log!Next \/ UNCHANGED <<queue, Current, stored>>
    <2>1. HeldBy(w)' = NoEvent
      BY <1>5 DEF HeldBy
    <2>2. CASE Holding(w)
      <3>1. Current[PartitionOf(w)] # NoEvent
        BY <1>4, <1>5, <2>2, NoneAssumption DEF HeldBy, HoldsEvent
      <3>2. Log!GiveUp(PartitionOf(w))
        BY <1>4, <1>5, <2>1, <3>1 DEF Log!GiveUp
      <3> QED
        BY <1>4, <1>5, <3>2 DEF Log!Next
    <2>3. CASE ~Holding(w)
      BY <1>4, <1>5, <2>1, <2>3 DEF HeldBy
    <2> QED
      BY <2>2, <2>3
  <1>6. ASSUME NEW w \in Worker, WorkerCancelled(w)
        PROVE  Log!Next \/ UNCHANGED <<queue, Current, stored>>
    <2>1. ~Holding(w)' /\ \A v \in Worker \ {w} : worker'[v] = worker[v]
      BY <1>6 DEF WorkerCancelled, Holding, Exited, Idle, TypeOK
    <2>2. CASE Live(w)
      BY <1>5, <1>6, <2>1, <2>2 DEF WorkerCancelled, deliveryVars
    <2>3. CASE ~Live(w)
      <3>1. \A v \in Worker : ~Holding(w) /\ (v # w => worker'[v] = worker[v])
        BY <2>1, <2>3 DEF Live, Holding
      <3>2. UNCHANGED Current
        BY <2>1, <3>1 DEF Current, Holding
      <3> QED
        BY <1>6, <3>2 DEF WorkerCancelled, deliveryVars
    <2> QED
      BY <2>2, <2>3
  <1>7. ASSUME NEW w \in Worker, Get(w)
        PROVE  Log!Next
    <2> DEFINE e == Head(queue[PartitionOf(w)])
    <2>1. Live(w) /\ ~Holding(w)
      BY <1>7 DEF Get, Live, Holding
    <2>2. \A v \in Worker \ {w} : worker'[v] = worker[v]
      BY <1>7 DEF Get, Move, TypeOK
    <2>3. worker'[w] = Deliver(e, 1)
      BY <1>7 DEF Get, Move, TypeOK
    <2>4. Holding(w)' /\ HeldBy(w)' = e
      BY <2>3 DEF Deliver, Holding, HeldBy
    <2>5. Log!Take(PartitionOf(w))
      BY <1>4, <1>7, <2>1, <2>2, <2>4 DEF Get, Log!Take, HeldBy
    <2> QED
      BY <1>4, <2>1, <2>2, <2>5 DEF Log!Next
  <1>8. ASSUME NEW w \in Worker, HandlerReturns(w) \/ HandlerFails(w)
        PROVE  UNCHANGED <<queue, Current, stored>>
    <2> DEFINE next == Deliver(worker[w].event, worker[w].index + 1)
               again == [worker[w] EXCEPT !.attempt = @ + 1]
    <2>1. Live(w) /\ Holding(w) /\ worker[w] \in WorkerState /\ worker[w].pc = "delivering"
      BY <1>8 DEF HandlerReturns, HandlerFails, Live, Holding, TypeOK
    <2>2. PICK s \in {next, again} : Move(w, s)
      BY <1>8 DEF HandlerReturns, HandlerFails
    <2>3. s.pc \in {"delivering", "appending"} /\ s.event = worker[w].event
      BY <2>1 DEF Deliver, WorkerState
    <2>4. worker'[w] = s /\ \A v \in Worker \ {w} : worker'[v] = worker[v]
      BY <2>2 DEF Move, TypeOK
    <2>5. HeldBy(w)' = HeldBy(w)
      BY <2>1, <2>3, <2>4 DEF HeldBy, Holding
    <2> QED
      BY <1>4, <1>8, <2>1, <2>4, <2>5 DEF HandlerReturns, HandlerFails
  <1>9. ASSUME NEW w \in Worker, EventStored(w) \/ StoreFails(w)
        PROVE  Log!Next \/ UNCHANGED <<queue, Current, stored>>
    <2>1. Live(w) /\ Holding(w) /\ worker' = [worker EXCEPT ![w] = Loop(w)]
      BY <1>9 DEF EventStored, StoreFails, Live, Holding
    <2>2. worker'[w] = Loop(w) /\ \A v \in Worker \ {w} : worker'[v] = worker[v]
      BY <2>1 DEF TypeOK
    <2>3. Loop(w).pc \in {"getting", "exited"}
      BY DEF Loop, Waiting, Exited, Idle
    <2>4. ~Holding(w)'
      BY <2>2, <2>3 DEF Holding
    <2>5. CASE StoreFails(w)
      BY <1>5, <2>1, <2>2, <2>4, <2>5 DEF StoreFails
    <2>6. CASE EventStored(w)
      <3>1. Current[PartitionOf(w)] = worker[w].event /\ worker[w].event # NoEvent
        BY <1>4, <2>1, <2>2, NoneAssumption DEF HeldBy, HoldsEvent
      <3>2. HeldBy(w)' = NoEvent
        BY <2>4 DEF HeldBy
      <3>3. Log!Store(PartitionOf(w))
        BY <1>4, <2>1, <2>2, <2>6, <3>1, <3>2 DEF EventStored, Log!Store
      <3> QED
        BY <1>4, <2>1, <2>2, <3>3 DEF Log!Next
    <2> QED
      BY <1>9, <2>5, <2>6
  <1>10. ASSUME NEW b \in Publisher, NEW e \in Event,
                PublishRejected(b, e) \/ PublishAccepted(b, e) \/ PublishBlocks(b, e)
         PROVE  Log!Next \/ UNCHANGED <<queue, Current, stored>>
    BY <1>1, <1>3, <1>10 DEF PublishRejected, PublishAccepted, PublishBlocks, workVars,
                         deliveryVars
  <1>11. ASSUME NEW b \in Publisher, PutResumes(b)
         PROVE  Log!Next
    BY <1>3, <1>11 DEF PutResumes, workVars, deliveryVars, TypeOK
  <1>12. CASE UNCHANGED vars \/ StopBegin \/ StopEnd \/ \E w \in Worker : HandlerSwallowsCancel(w)
    BY <1>1, <1>12 DEF vars, StopBegin, StopEnd, HandlerSwallowsCancel, workVars, deliveryVars
  <1>13. ASSUME NEW t \in EventType, NEW h \in Handler, Subscribe(t, h) \/ Unsubscribe(t, h)
         PROVE  UNCHANGED <<queue, Current, stored>>
    BY <1>1, <1>13 DEF Subscribe, Unsubscribe, workVars, deliveryVars
  <1> QED
    BY <1>2, <1>6, <1>7, <1>8, <1>9, <1>10, <1>11, <1>12, <1>13 DEF Next, WorkerStep

(* Each partition behaves as a first-in first-out log with one consumer     *)
(* that holds one event at a time, unless start() overtakes a pending       *)
(* stop() (event_bus.py:28).                                                *)
THEOREM BusImplementsLog == ~OverlapLifecycle /\ Spec => ImplementsPartitionLog
  <1> SUFFICES ASSUME ~OverlapLifecycle PROVE Spec => Log!Spec
    BY DEF ImplementsPartitionLog
  <1>1. Init => Log!Init
    BY DEF Init, Log!Init, Current, Holding, Idle
  <1>2. /\ TypeOK /\ HoldsEvent /\ OneGeneration /\ HoldsEvent' /\ OneGeneration'
        /\ [Next]_vars
        => [Log!Next]_<<queue, Current, stored>>
    BY LogStep
  <1>3. Spec => [](TypeOK /\ HoldsEvent)
    BY InitType, TypeStep, PTL DEF Spec
  <1>4. Spec => []OneGeneration
    BY GenerationInv
  <1> QED
    BY <1>1, <1>2, <1>3, <1>4, PTL DEF Spec, Log!Spec

-----------------------------------------------------------------------------
(* What a stop costs.  A worker loses an event only on its way out, and      *)
(* there is one worker per partition and start(): the lost events of a       *)
(* partition are no more than its workers that are gone.                     *)
Gone(p) == {g \in 1 .. MaxStarts : worker[<<g, p>>].pc = "exited"}

Holds(w) == worker[w].event # NoEvent

LossInv ==
  /\ \A w \in cancelled : Live(w)
  /\ \A w \in Worker : w[1] > starts => worker[w].pc = "unborn"
  /\ \A w \in Worker : Holds(w) => PartitionIndex(worker[w].event) = PartitionOf(w)
  /\ \A p \in Partition : \A i \in DOMAIN queue[p] : PartitionIndex(queue[p][i]) = p
  /\ IsFiniteSet(lost)
  /\ \A p \in Partition : Cardinality(Interrupted(p)) <= Cardinality(Gone(p))

LEMMA GoneFinite ==
  \A p \in Partition : IsFiniteSet(Gone(p)) /\ Cardinality(Gone(p)) \in Nat
  <1>1. IsFiniteSet(1 .. MaxStarts)
    BY FS_Interval, BusAssumption
  <1>2. \A p \in Partition : Gone(p) \subseteq 1 .. MaxStarts
    BY DEF Gone
  <1> QED
    BY <1>1, <1>2, FS_Subset, FS_CardinalityType

(* A step that loses nothing keeps the comparison: no worker comes back. *)
LEMMA NothingLost ==
  ASSUME LossInv, lost' = lost,
         \A w \in Worker : worker[w].pc = "exited" => worker'[w].pc = "exited"
  PROVE  IsFiniteSet(lost') /\
         \A p \in Partition : Cardinality(Interrupted(p)') <= Cardinality(Gone(p)')
  <1> SUFFICES ASSUME NEW p \in Partition
               PROVE  Cardinality(Interrupted(p)') <= Cardinality(Gone(p)')
    BY DEF LossInv
  <1>1. Interrupted(p)' = Interrupted(p)
    BY DEF Interrupted
  <1>2. Gone(p) \subseteq Gone(p)'
    BY DEF Gone, Worker
  <1>3. IsFiniteSet(Gone(p)')
    <2>1. IsFiniteSet(1 .. MaxStarts) /\ Gone(p)' \subseteq 1 .. MaxStarts
      BY FS_Interval, BusAssumption DEF Gone
    <2> QED
      BY <2>1, FS_Subset
  <1>4. Cardinality(Gone(p)) <= Cardinality(Gone(p)') /\ Cardinality(Gone(p)') \in Nat
    BY <1>2, <1>3, FS_Subset, FS_CardinalityType
  <1>5. Cardinality(Interrupted(p)) \in Nat
    <2>1. IsFiniteSet(Interrupted(p))
      BY FS_Subset DEF LossInv, Interrupted
    <2> QED
      BY <2>1, FS_CardinalityType
  <1>6. Cardinality(Interrupted(p)) <= Cardinality(Gone(p))
    BY DEF LossInv
  <1> QED
    BY <1>1, <1>4, <1>5, <1>6, GoneFinite

LEMMA LossStep == TypeOK /\ HoldsEvent /\ LossInv /\ [Next]_vars => LossInv'
  <1> SUFFICES ASSUME TypeOK, HoldsEvent, LossInv, [Next]_vars
               PROVE  LossInv'
    OBVIOUS
  <1>a. \A w \in Worker : PartitionOf(w) \in Partition
    BY DEF PartitionOf, Worker
  (* A step of publishers or subscribers, or of stop(). *)
  <1>b. ASSUME UNCHANGED <<worker, starts, lost>>, \A w \in cancelled' : Live(w),
               \A p \in Partition : \A i \in DOMAIN queue'[p] : PartitionIndex(queue'[p][i]) = p
        PROVE  LossInv'
    BY <1>b, NothingLost DEF LossInv, Live, Holds
  <1>c. ASSUME NEW e \in Event, Put(e)
        PROVE  \A p \in Partition : \A i \in DOMAIN queue'[p] : PartitionIndex(queue'[p][i]) = p
    BY <1>c, PartitionIndexType DEF Put, LossInv, TypeOK
  <1>1. CASE Start
    <2>1. \A w \in Worker : /\ w[1] = starts + 1 => worker'[w] = Waiting
                            /\ w[1] # starts + 1 => worker'[w] = worker[w]
      BY <1>1 DEF Start, TypeOK, Worker
    <2>2. Waiting.pc = "getting"
      BY DEF Waiting, Idle
    <2>3. starts' = starts + 1 /\ starts \in Nat
      BY <1>1 DEF Start, TypeOK
    <2>4. \A w \in Worker : w[1] \in Nat /\ (w[1] > starts' => worker'[w].pc = "unborn")
      BY <2>1, <2>3 DEF LossInv, Worker
    <2>5. \A w \in Worker : worker[w].pc # "unborn" => worker'[w] = worker[w]
      BY <2>1, <2>3, <2>4 DEF LossInv
    <2>6. IsFiniteSet(lost') /\ \A p \in Partition : Cardinality(Interrupted(p)') <= Cardinality(Gone(p)')
      BY <1>1, <2>5, NothingLost DEF Start
    <2>7. \A w \in cancelled' : Live(w)'
      BY <1>1, <2>5 DEF Start, LossInv, Live, TypeOK
    <2>8. \A w \in Worker : Holds(w)' => Holds(w) /\ worker'[w] = worker[w]
      BY <2>1 DEF Holds, Waiting, Idle
    <2> QED
      BY <1>1, <2>4, <2>6, <2>7, <2>8 DEF Start, LossInv
  <1>2. CASE StopBegin
    BY <1>2, <1>b DEF StopBegin, LossInv, workVars
  <1>3. CASE StopEnd
    BY <1>3, <1>b DEF StopEnd, LossInv, workVars
  <1>3a. ASSUME NEW w \in Worker, HandlerSwallowsCancel(w)
         PROVE  LossInv'
    BY <1>3a, <1>b DEF HandlerSwallowsCancel, LossInv, workVars
  <1>4. ASSUME NEW w \in Worker, WorkerCancelled(w)
        PROVE  LossInv'
    <2> DEFINE q == PartitionOf(w)
    <2>1. Live(w) /\ w = <<w[1], q>> /\ w[1] \in 1 .. MaxStarts /\ q \in Partition
      BY <1>4 DEF WorkerCancelled, LossInv, Worker, PartitionOf
    <2>2. worker'[w].pc = "exited" /\ ~Holds(w)' /\ \A v \in Worker \ {w} : worker'[v] = worker[v]
      BY <1>4 DEF WorkerCancelled, TypeOK, Exited, Idle, Holds
    <2>3. Gone(q)' = Gone(q) \cup {w[1]} /\ w[1] \notin Gone(q)
      BY <2>1, <2>2 DEF Gone, Live, Worker, PartitionOf
    <2>4. \A p \in Partition \ {q} : Gone(p)' = Gone(p)
      BY <2>1, <2>2 DEF Gone, Worker, PartitionOf
    <2>5. Cardinality(Gone(q)') = Cardinality(Gone(q)) + 1
      BY <2>1, <2>3, GoneFinite, FS_AddElement
    <2>6. \A p \in Partition : IsFiniteSet(Interrupted(p)) /\ Cardinality(Interrupted(p)) \in Nat
      <3>1. \A p \in Partition : Interrupted(p) \subseteq lost
        BY DEF Interrupted
      <3> QED
        BY <3>1, FS_Subset, FS_CardinalityType DEF LossInv
    <2>7. CASE worker[w].event = NoEvent
      <3>1. lost' = lost
        BY <1>4, <2>7 DEF WorkerCancelled
      <3>2. \A v \in Worker : worker[v].pc = "exited" => worker'[v].pc = "exited"
        BY <2>2
      <3>3. IsFiniteSet(lost') /\ \A p \in Partition : Cardinality(Interrupted(p)') <= Cardinality(Gone(p)')
        BY <3>1, <3>2, NothingLost
      <3> QED
        BY <1>4, <2>2, <3>3 DEF WorkerCancelled, LossInv, Live, Holds, TypeOK
    <2>8. CASE worker[w].event # NoEvent
      <3> DEFINE e == worker[w].event
      <3>1. lost' = lost \cup {e}
        BY <1>4, <2>8 DEF WorkerCancelled
      <3>2. IsFiniteSet(lost')
        BY <3>1, FS_AddElement DEF LossInv
      <3>3. \A p \in Partition : Interrupted(p)' = Interrupted(p) \/ (p = q /\ Interrupted(p)' = Interrupted(p) \cup {e})
        <4>1. PartitionIndex(e) = q
          BY <2>1, <2>8 DEF LossInv, Holds
        <4> QED
          BY <3>1, <4>1 DEF Interrupted
      <3>4. Cardinality(Interrupted(q)') <= Cardinality(Gone(q)')
        <4>1. Cardinality(Interrupted(q)) <= Cardinality(Gone(q)) /\ Cardinality(Gone(q)) \in Nat
          BY <2>1, GoneFinite DEF LossInv
        <4>2. CASE Interrupted(q)' = Interrupted(q)
          BY <2>1, <2>5, <2>6, <4>1, <4>2
        <4>3. CASE Interrupted(q)' = Interrupted(q) \cup {e}
          <5>a. IsFiniteSet(Interrupted(q)) /\ Cardinality(Interrupted(q)) \in Nat
            BY <2>1, <2>6
          <5>b. Cardinality(Interrupted(q) \cup {e}) =
                  IF e \in Interrupted(q) THEN Cardinality(Interrupted(q)) ELSE Cardinality(Interrupted(q)) + 1
            BY <5>a, FS_AddElement
          <5>1. Cardinality(Interrupted(q)') <= Cardinality(Interrupted(q)) + 1
            BY <4>3, <5>a, <5>b
          <5>2. Cardinality(Interrupted(q)') \in Nat
            BY <4>3, <5>a, <5>b
          <5> QED
            BY <2>1, <2>5, <2>6, <4>1, <5>1, <5>2
        <4> QED
          BY <2>1, <3>3, <4>2, <4>3
      <3>5. \A p \in Partition : Cardinality(Interrupted(p)') <= Cardinality(Gone(p)')
        BY <2>4, <3>3, <3>4 DEF LossInv
      <3> QED
        BY <1>4, <2>2, <3>2, <3>5 DEF WorkerCancelled, LossInv, Live, Holds, TypeOK
    <2> QED
      BY <2>7, <2>8
  <1>5. ASSUME NEW w \in Worker, WorkerStep(w)
        PROVE  LossInv'
    <2>1. /\ Live(w) /\ w \notin cancelled
          /\ \A v \in Worker \ {w} : worker'[v] = worker[v]
          /\ lost' = lost /\ UNCHANGED lifecycleVars
      BY <1>5 DEF WorkerStep, Get, HandlerReturns, HandlerFails, EventStored,
                  StoreFails, Move, TypeOK, Live
    <2>2. \A v \in Worker : worker[v].pc = "exited" => worker'[v].pc = "exited"
      BY <2>1 DEF Live
    <2>3. IsFiniteSet(lost') /\ \A p \in Partition : Cardinality(Interrupted(p)') <= Cardinality(Gone(p)')
      BY <2>1, <2>2, NothingLost
    <2>4. /\ Holds(w)' => PartitionIndex(worker'[w].event) = PartitionOf(w)
          /\ \A p \in Partition : \A i \in DOMAIN queue'[p] : PartitionIndex(queue'[p][i]) = p
      <3>1. CASE Get(w)
        <4> DEFINE p == PartitionOf(w)
                   e == Head(queue[p])
        <4>1. p \in Partition /\ queue[p] \in Seq(Event) /\ queue[p] # <<>>
          BY <1>a, <3>1 DEF Get, TypeOK
        <4>2. e = queue[p][1] /\ 1 \in DOMAIN queue[p]
          BY <4>1
        <4>3. PartitionIndex(e) = p
          BY <4>1, <4>2 DEF LossInv
        <4>4. worker'[w].event = e
          BY <3>1 DEF Get, Move, Deliver, TypeOK
        <4>5. \A r \in Partition : \A i \in DOMAIN queue'[r] : PartitionIndex(queue'[r][i]) = r
          BY <3>1, <4>1 DEF Get, LossInv, TypeOK
        <4> QED
          BY <4>3, <4>4, <4>5
      <3>2. CASE HandlerReturns(w) \/ HandlerFails(w)
        <4>1. worker'[w].event = worker[w].event
          <5> DEFINE next == Deliver(worker[w].event, worker[w].index + 1)
                     again == [worker[w] EXCEPT !.attempt = @ + 1]
          <5>1. worker[w] \in WorkerState
            BY DEF TypeOK
          <5>2. PICK s \in {next, again} : Move(w, s)
            BY <3>2 DEF HandlerReturns, HandlerFails
          <5>3. next.event = worker[w].event /\ again.event = worker[w].event
            BY <5>1 DEF Deliver, WorkerState
          <5> QED
            BY <5>2, <5>3 DEF Move, TypeOK
        <4>2. queue' = queue /\ (Holds(w) => PartitionIndex(worker[w].event) = PartitionOf(w))
          BY <3>2 DEF HandlerReturns, HandlerFails, LossInv
        <4> QED
          BY <4>1, <4>2 DEF LossInv, Holds
      <3>3. CASE EventStored(w) \/ StoreFails(w)
        BY <3>3 DEF EventStored, StoreFails, Loop, Waiting, Exited, Idle, LossInv, Holds, TypeOK
      <3> QED
        BY <1>5, <3>1, <3>2, <3>3 DEF WorkerStep
    <2>5. worker[w].pc # "unborn"
      BY <2>1 DEF Live
    <2>6. \A v \in Worker : v[1] > starts' => worker'[v].pc = "unborn"
      BY <2>1, <2>5 DEF LossInv, lifecycleVars
    <2>7. \A v \in cancelled' : Live(v)'
      BY <2>1 DEF LossInv, Live, TypeOK, lifecycleVars
    <2>8. \A v \in Worker : Holds(v)' => PartitionIndex(worker'[v].event) = PartitionOf(v)
      BY <2>1, <2>4 DEF LossInv, Holds
    <2> QED
      BY <2>3, <2>4, <2>6, <2>7, <2>8 DEF LossInv
  <1>6. ASSUME NEW b \in Publisher, NEW e \in Event,
               PublishRejected(b, e) \/ PublishAccepted(b, e) \/ PublishBlocks(b, e)
        PROVE  LossInv'
    BY <1>6, <1>b, <1>c
    DEF PublishRejected, PublishAccepted, PublishBlocks, LossInv, lifecycleVars, workVars
  <1>7. ASSUME NEW b \in Publisher, PutResumes(b)
        PROVE  LossInv'
    <2>1. putting[b] \in Event
      BY <1>7 DEF PutResumes, TypeOK
    <2> QED
      BY <1>7, <2>1, <1>b, <1>c DEF PutResumes, LossInv, lifecycleVars, workVars
  <1>8. ASSUME NEW t \in EventType, NEW h \in Handler, Subscribe(t, h) \/ Unsubscribe(t, h)
        PROVE  LossInv'
    BY <1>8, <1>b DEF Subscribe, Unsubscribe, LossInv, lifecycleVars, workVars
  <1>9. CASE UNCHANGED vars
    BY <1>9, <1>b DEF vars, LossInv
  <1> QED
    BY <1>1, <1>2, <1>3, <1>3a, <1>4, <1>5, <1>6, <1>7, <1>8, <1>9 DEF Next

LEMMA LossInit == Init => LossInv
  <1> SUFFICES ASSUME Init PROVE LossInv
    OBVIOUS
  <1>1. \A p \in Partition : Interrupted(p) = {} /\ Gone(p) = {}
    BY DEF Init, Interrupted, Gone, Idle, Worker
  <1>2. IsFiniteSet({}) /\ Cardinality({}) = 0
    BY FS_EmptySet
  <1>3. \A w \in Worker : worker[w].pc = "unborn" /\ worker[w].event = NoEvent
    BY DEF Init, Idle
  <1>4. \A p \in Partition : queue[p] = <<>>
    BY DEF Init
  <1>5. \A p \in Partition : Cardinality(Interrupted(p)) <= Cardinality(Gone(p))
    BY <1>1, <1>2
  <1>6. cancelled = {} /\ IsFiniteSet(lost)
    BY <1>2 DEF Init
  <1> QED
    BY <1>3, <1>4, <1>5, <1>6 DEF LossInv, Holds

LEMMA LossBound ==
  ASSUME TypeOK, LossInv, NEW p \in Partition
  PROVE  Cardinality(Interrupted(p)) <= starts
  <1>1. Gone(p) \subseteq 1 .. starts /\ starts \in Nat
    <2>1. starts \in Nat
      BY BusAssumption DEF TypeOK
    <2>2. ASSUME NEW g \in Gone(p) PROVE g \in 1 .. starts
      <3>1. g \in 1 .. MaxStarts /\ worker[<<g, p>>].pc # "unborn"
        BY <2>2 DEF Gone
      <3>2. <<g, p>> \in Worker
        BY <3>1 DEF Worker
      <3>3. ~(g > starts)
        BY <3>1, <3>2 DEF LossInv
      <3> QED
        BY <2>1, <3>1, <3>3, BusAssumption
    <2> QED
      BY <2>1, <2>2
  <1>2. IsFiniteSet(1 .. starts) /\ Cardinality(1 .. starts) = starts
    BY <1>1, FS_Interval
  <1>3. Cardinality(Gone(p)) <= starts
    BY <1>1, <1>2, FS_Subset
  <1>4. IsFiniteSet(Interrupted(p))
    BY FS_Subset DEF LossInv, Interrupted
  <1>5. Cardinality(Interrupted(p)) \in Nat
    BY <1>4, FS_CardinalityType
  <1>6. Cardinality(Interrupted(p)) <= Cardinality(Gone(p))
    BY DEF LossInv
  <1> QED
    BY <1>1, <1>3, <1>5, <1>6, GoneFinite

-----------------------------------------------------------------------------
(* Where an event is.  It goes from publisher to queue to worker, and ends  *)
(* in the event store or outside; it is in one place at a time, and nothing *)
(* accepted is nowhere.                                                     *)
Suspended(e) == \E b \in Publisher : putting[b] = e
Accepted(e) == \E p \in Partition : \E i \in DOMAIN accepted[p] : accepted[p][i] = e
Ended(e) == Kept(e) \/ e \in lost \/ e \in unstored

OnePlace ==
  \A e \in Event :
    /\ e \notin offered => ~Suspended(e) /\ ~Queued(e) /\ ~Held(e) /\ ~Ended(e)
    /\ Suspended(e) => ~Queued(e) /\ ~Held(e) /\ ~Ended(e)
    /\ Queued(e) => ~Held(e) /\ ~Ended(e)
    /\ Held(e) => ~Ended(e)
    /\ Kept(e) => e \notin lost /\ e \notin unstored
    /\ e \in lost => e \notin unstored
    /\ Accepted(e) => Queued(e) \/ Held(e) \/ Ended(e)

OneCopy ==
  /\ \A b, c \in Publisher : putting[b] = putting[c] /\ putting[b] \in Event => b = c
  /\ \A p, q \in Partition : \A i \in DOMAIN queue[p], j \in DOMAIN queue[q] :
       queue[p][i] = queue[q][j] => p = q /\ i = j
  /\ \A v, w \in Worker :
       Holding(v) /\ Holding(w) /\ worker[v].event = worker[w].event => v = w

(* A step that moves no event, and lets no worker take one or give it up.   *)
LEMMA StandStill ==
  ASSUME OnePlace, OneCopy, offered \subseteq offered',
         UNCHANGED <<queue, putting, accepted, stored, lost, unstored>>,
         \A w \in Worker : /\ Holding(w)' <=> Holding(w)
                           /\ Holding(w) => worker'[w].event = worker[w].event
  PROVE  OnePlace' /\ OneCopy'
  <1>1. \A e \in Event : /\ Suspended(e)' <=> Suspended(e)
                         /\ Queued(e)' <=> Queued(e)
                         /\ Kept(e)' <=> Kept(e)
                         /\ Held(e)' <=> Held(e)
                         /\ Accepted(e)' <=> Accepted(e)
                         /\ Ended(e)' <=> Ended(e)
    BY DEF Suspended, Queued, Kept, Held, Accepted, Ended
  <1>2. OnePlace'
    BY <1>1 DEF OnePlace
  <1>3. OneCopy'
    BY DEF OneCopy
  <1> QED
    BY <1>2, <1>3

LEMMA PutPlaces ==
  ASSUME TypeOK, OneCopy, NEW e \in Event, Put(e), ~Queued(e)
  PROVE  /\ \A f \in Event : Queued(f)' <=> Queued(f) \/ f = e
         /\ \A f \in Event : Accepted(f)' => Accepted(f) \/ f = e
         /\ \A p, q \in Partition : \A i \in DOMAIN queue'[p], j \in DOMAIN queue'[q] :
              queue'[p][i] = queue'[q][j] => p = q /\ i = j
  <1> DEFINE r == PartitionIndex(e)
             n == Len(queue[r]) + 1
  <1>1. r \in Partition /\ queue[r] \in Seq(Event) /\ accepted[r] \in Seq(Event)
    BY PartitionIndexType DEF TypeOK
  <1>2. /\ DOMAIN queue'[r] = 1 .. n /\ n \in Nat \ {0} /\ queue'[r][n] = e
        /\ DOMAIN queue[r] = 1 .. n - 1
        /\ \A i \in 1 .. n - 1 : queue'[r][i] = queue[r][i]
        /\ \A p \in Partition \ {r} : queue'[p] = queue[p]
    BY <1>1 DEF Put, TypeOK
  <1>3. \A p \in Partition : \A i \in DOMAIN queue'[p] :
          \/ i \in DOMAIN queue[p] /\ queue'[p][i] = queue[p][i]
          \/ p = r /\ i = n /\ queue'[p][i] = e
    BY <1>2
  <1>4. \A p \in Partition : \A i \in DOMAIN queue[p] :
          i \in DOMAIN queue'[p] /\ queue'[p][i] = queue[p][i]
    BY <1>2
  <1>5. \A f \in Event : Accepted(f)' => Accepted(f) \/ f = e
    <2>1. \A p \in Partition : \A i \in DOMAIN accepted'[p] :
            \/ i \in DOMAIN accepted[p] /\ accepted'[p][i] = accepted[p][i]
            \/ accepted'[p][i] = e
      BY <1>1 DEF Put, TypeOK
    <2> QED
      BY <2>1 DEF Accepted
  <1> HIDE DEF r, n
  <1>6. \A f \in Event : Queued(f)' <=> Queued(f) \/ f = e
    BY <1>1, <1>2, <1>3, <1>4 DEF Queued
  <1>7. \A p \in Partition : \A i \in DOMAIN queue[p] : queue[p][i] # e
    BY DEF Queued
  <1>8. \A p, q \in Partition : \A i \in DOMAIN queue'[p], j \in DOMAIN queue'[q] :
          queue'[p][i] = queue'[q][j] => p = q /\ i = j
    BY <1>3, <1>7 DEF OneCopy
  <1> QED
    BY <1>5, <1>6, <1>8

(* The places after e went into its queue, from the publisher's hands or    *)
(* from nowhere.                                                            *)
LEMMA Enqueued ==
  ASSUME TypeOK, OnePlace, OneCopy, NEW e \in Event, Put(e),
         ~Queued(e), ~Held(e), ~Ended(e), e \in offered', offered \subseteq offered',
         \A f \in Event : Suspended(f)' => Suspended(f) /\ f # e,
         \A c, d \in Publisher : putting'[c] = putting'[d] /\ putting'[c] \in Event => c = d,
         UNCHANGED <<worker, stored, lost, unstored>>
  PROVE  OnePlace' /\ OneCopy'
  <1>1. /\ \A f \in Event : Queued(f)' <=> Queued(f) \/ f = e
        /\ \A f \in Event : Accepted(f)' => Accepted(f) \/ f = e
        /\ \A p, q \in Partition : \A i \in DOMAIN queue'[p], j \in DOMAIN queue'[q] :
             queue'[p][i] = queue'[q][j] => p = q /\ i = j
    BY PutPlaces
  <1>2. \A f \in Event : /\ Held(f)' <=> Held(f)
                         /\ Kept(f)' <=> Kept(f)
                         /\ Ended(f)' <=> Ended(f)
    BY DEF Held, Kept, Holding, Ended
  <1>3. OnePlace'
    BY <1>1, <1>2 DEF OnePlace
  <1>4. OneCopy'
    BY <1>1 DEF OneCopy, Holding
  <1> QED
    BY <1>3, <1>4

(* The places after a worker gave up its event, which ended in one of three. *)
LEMMA GivenUp ==
  ASSUME OnePlace, OneCopy, NEW w \in Worker, NEW e \in Event,
         Holding(w), worker[w].event = e, ~Holding(w)',
         \A v \in Worker \ {w} : worker'[v] = worker[v],
         UNCHANGED <<queue, putting, offered, accepted>>,
         \/ /\ \A f \in Event : Kept(f)' <=> Kept(f) \/ f = e
            /\ lost' = lost /\ unstored' = unstored
         \/ /\ \A f \in Event : Kept(f)' <=> Kept(f)
            /\ lost' = lost \cup {e} /\ unstored' = unstored
         \/ /\ \A f \in Event : Kept(f)' <=> Kept(f)
            /\ lost' = lost /\ unstored' = unstored \cup {e}
  PROVE  OnePlace' /\ OneCopy'
  <1>1. Held(e) /\ ~Ended(e) /\ ~Suspended(e) /\ ~Queued(e) /\ e \in offered
    BY DEF Held, OnePlace
  <1>2. \A v \in Worker : Holding(v)' => Holding(v) /\ worker'[v] = worker[v] /\ v # w
    BY DEF Holding
  <1>3. \A f \in Event : Held(f)' <=> Held(f) /\ f # e
    <2>1. \A f \in Event : Held(f)' => Held(f) /\ f # e
      BY <1>2 DEF Held, OneCopy
    <2>2. \A f \in Event : Held(f) /\ f # e => Held(f)'
      BY DEF Held, Holding
    <2> QED
      BY <2>1, <2>2
  <1>4. \A f \in Event : /\ Suspended(f)' <=> Suspended(f)
                         /\ Queued(f)' <=> Queued(f)
                         /\ Accepted(f)' <=> Accepted(f)
                         /\ Ended(f)' <=> Ended(f) \/ f = e
    BY DEF Suspended, Queued, Accepted, Ended
  <1>5. OnePlace'
    BY <1>1, <1>3, <1>4 DEF OnePlace, Ended
  <1>6. OneCopy'
    BY <1>2 DEF OneCopy
  <1> QED
    BY <1>5, <1>6

LEMMA PlacesStep ==
  TypeOK /\ HoldsEvent /\ LossInv /\ OnePlace /\ OneCopy /\ [Next]_vars => OnePlace' /\ OneCopy'
  <1> SUFFICES ASSUME TypeOK, HoldsEvent, LossInv, OnePlace, OneCopy, [Next]_vars
               PROVE  OnePlace' /\ OneCopy'
    OBVIOUS
  <1>1. CASE Start
    <2>1. \A w \in Worker : \/ worker'[w] = worker[w]
                            \/ worker'[w] = Waiting /\ w[1] = starts + 1
      BY <1>1 DEF Start, TypeOK
    <2>2. \A w \in Worker : w[1] = starts + 1 => ~Holding(w)
      <3>1. starts \in Nat /\ starts + 1 > starts
        BY BusAssumption DEF TypeOK
      <3> QED
        BY <3>1 DEF LossInv, Holding
    <2>3. Waiting.pc = "getting"
      BY DEF Waiting, Idle
    <2>4. \A w \in Worker : /\ Holding(w)' <=> Holding(w)
                            /\ Holding(w) => worker'[w].event = worker[w].event
      BY <2>1, <2>2, <2>3 DEF Holding
    <2> QED
      BY <1>1, <2>4, StandStill DEF Start, publishVars, deliveryVars
  <1>2. CASE StopBegin \/ StopEnd \/ UNCHANGED vars
    BY <1>2, StandStill DEF StopBegin, StopEnd, vars, publishVars, workVars, deliveryVars, Holding
  <1>3. ASSUME NEW w \in Worker, HandlerSwallowsCancel(w)
        PROVE  OnePlace' /\ OneCopy'
    BY <1>3, StandStill DEF HandlerSwallowsCancel, publishVars, workVars, deliveryVars, Holding
  <1>4. ASSUME NEW t \in EventType, NEW h \in Handler, Subscribe(t, h) \/ Unsubscribe(t, h)
        PROVE  OnePlace' /\ OneCopy'
    BY <1>4, StandStill DEF Subscribe, Unsubscribe, publishVars, workVars, deliveryVars, Holding
  <1>5. ASSUME NEW w \in Worker, WorkerCancelled(w)
        PROVE  OnePlace' /\ OneCopy'
    <2>1. ~Holding(w)' /\ \A v \in Worker \ {w} : worker'[v] = worker[v]
      BY <1>5 DEF WorkerCancelled, TypeOK, Exited, Idle, Holding
    <2>2. UNCHANGED <<queue, putting, offered, accepted, stored, unstored>>
      BY <1>5 DEF WorkerCancelled, publishVars, deliveryVars
    <2>3. CASE ~Holding(w)
      <3>1. lost' = lost
        BY <1>5, <2>3 DEF WorkerCancelled, HoldsEvent
      <3>2. \A v \in Worker : /\ Holding(v)' <=> Holding(v)
                              /\ Holding(v) => worker'[v].event = worker[v].event
        BY <2>1, <2>3 DEF Holding
      <3> QED
        BY <2>2, <3>1, <3>2, StandStill
    <2>4. CASE Holding(w)
      <3> DEFINE e == worker[w].event
      <3>1. e \in Event /\ lost' = lost \cup {e}
        BY <1>5, <2>2, <2>4, NoneAssumption DEF WorkerCancelled, HoldsEvent
      <3>2. \A f \in Event : Kept(f)' <=> Kept(f)
        BY <2>2 DEF Kept
      <3> HIDE DEF e
      <3> QED
        BY <2>1, <2>2, <2>4, <3>1, <3>2, GivenUp DEF e
    <2> QED
      BY <2>3, <2>4
  <1>6. ASSUME NEW w \in Worker, EventStored(w) \/ StoreFails(w)
        PROVE  OnePlace' /\ OneCopy'
    <2> DEFINE e == worker[w].event
               p == PartitionOf(w)
    <2>1. /\ Holding(w) /\ e \in Event /\ p \in Partition
          /\ worker' = [worker EXCEPT ![w] = Loop(w)]
          /\ UNCHANGED <<queue, putting, offered, accepted, lost>>
      BY <1>6 DEF EventStored, StoreFails, HoldsEvent, Holding, PartitionOf, Worker, publishVars
    <2>2. Loop(w).pc \in {"getting", "exited"}
      BY DEF Loop, Waiting, Exited, Idle
    <2>3. ~Holding(w)' /\ \A v \in Worker \ {w} : worker'[v] = worker[v]
      BY <2>1, <2>2 DEF Holding, TypeOK
    <2>5. CASE StoreFails(w)
      <3>1. unstored' = unstored \cup {e}
        BY <2>5 DEF StoreFails
      <3>2. \A f \in Event : Kept(f)' <=> Kept(f)
        BY <2>5 DEF StoreFails, Kept
      <3> HIDE DEF e, p
      <3> QED
        BY <2>1, <2>3, <3>1, <3>2, GivenUp DEF e
    <2>6. CASE EventStored(w)
      <3>1. unstored' = unstored
        BY <2>6 DEF EventStored
      <3>2. stored' = [stored EXCEPT ![p] = Append(@, e)] /\ stored[p] \in Seq(Event)
        BY <2>1, <2>6 DEF EventStored, TypeOK
      <3>3. /\ \A i \in DOMAIN stored'[p] :
                 \/ stored'[p][i] = e
                 \/ i \in DOMAIN stored[p] /\ stored'[p][i] = stored[p][i]
            /\ \A i \in DOMAIN stored[p] : i \in DOMAIN stored'[p] /\ stored'[p][i] = stored[p][i]
            /\ \E i \in DOMAIN stored'[p] : stored'[p][i] = e
            /\ \A q \in Partition \ {p} : stored'[q] = stored[q]
        <4>1. /\ DOMAIN stored'[p] = 1 .. Len(stored[p]) + 1
              /\ stored'[p][Len(stored[p]) + 1] = e
              /\ \A i \in 1 .. Len(stored[p]) : stored'[p][i] = stored[p][i]
              /\ DOMAIN stored[p] = 1 .. Len(stored[p]) /\ Len(stored[p]) \in Nat
          BY <2>1, <3>2 DEF TypeOK
        <4>2. \A q \in Partition \ {p} : stored'[q] = stored[q]
          BY <2>1, <3>2 DEF TypeOK
        <4> HIDE DEF e, p
        <4> QED
          BY <4>1, <4>2
      <3> HIDE DEF e, p
      <3>4. \A f \in Event : Kept(f)' <=> Kept(f) \/ f = e
        BY <2>1, <3>3 DEF Kept
      <3> QED
        BY <2>1, <2>3, <3>1, <3>4, GivenUp DEF e
    <2> QED
      BY <1>6, <2>5, <2>6
  <1>7. ASSUME NEW b \in Publisher, NEW e \in Event, PublishRejected(b, e)
        PROVE  OnePlace' /\ OneCopy'
    BY <1>7, StandStill DEF PublishRejected, workVars, deliveryVars, Holding
  <1>8. ASSUME NEW b \in Publisher, NEW e \in Event, PublishAccepted(b, e)
        PROVE  OnePlace' /\ OneCopy'
    <2>1. /\ e \notin offered /\ offered' = offered \cup {e} /\ Put(e)
          /\ UNCHANGED <<putting, worker, stored, lost, unstored>>
      BY <1>8 DEF PublishAccepted, workVars, deliveryVars
    <2>2. \A f \in Event : Suspended(f)' => Suspended(f) /\ f # e
      BY <2>1 DEF OnePlace, Suspended
    <2>3. \A c, d \in Publisher : putting'[c] = putting'[d] /\ putting'[c] \in Event => c = d
      BY <2>1 DEF OneCopy
    <2> QED
      BY <2>1, <2>2, <2>3, Enqueued DEF OnePlace
  <1>9. ASSUME NEW b \in Publisher, NEW e \in Event, PublishBlocks(b, e)
        PROVE  OnePlace' /\ OneCopy'
    <2>1. /\ e \notin offered /\ offered' = offered \cup {e}
          /\ putting' = [putting EXCEPT ![b] = e] /\ putting[b] = NoEvent
          /\ UNCHANGED <<queue, accepted, worker, stored, lost, unstored>>
      BY <1>9 DEF PublishBlocks, workVars, deliveryVars
    <2>2. ~Suspended(e) /\ ~Queued(e) /\ ~Held(e) /\ ~Ended(e)
      BY <2>1 DEF OnePlace
    <2>3. \A f \in Event : Suspended(f)' <=> Suspended(f) \/ f = e
      BY <2>1, NoneAssumption DEF Suspended, TypeOK
    <2>4. \A f \in Event : /\ Queued(f)' <=> Queued(f)
                           /\ Held(f)' <=> Held(f)
                           /\ Kept(f)' <=> Kept(f)
                           /\ Ended(f)' <=> Ended(f)
                           /\ Accepted(f)' <=> Accepted(f)
      BY <2>1 DEF Queued, Held, Kept, Holding, Ended, Accepted
    <2>5. OnePlace'
      BY <2>1, <2>2, <2>3, <2>4 DEF OnePlace
    <2>6. \A c \in Publisher : putting[c] # e
      BY <2>2 DEF Suspended
    <2>7. \A c, d \in Publisher : putting'[c] = putting'[d] /\ putting'[c] \in Event => c = d
      BY <2>1, <2>6 DEF OneCopy, TypeOK
    <2> QED
      BY <2>1, <2>5, <2>7 DEF OneCopy, Holding
  <1>10. ASSUME NEW b \in Publisher, PutResumes(b)
         PROVE  OnePlace' /\ OneCopy'
    <2> DEFINE e == putting[b]
    <2>1. /\ e \in Event /\ Put(e) /\ offered' = offered
          /\ putting' = [putting EXCEPT ![b] = NoEvent]
          /\ UNCHANGED <<worker, stored, lost, unstored>>
      BY <1>10 DEF PutResumes, TypeOK, workVars, deliveryVars
    <2>2. Suspended(e)
      BY DEF Suspended
    <2>3. ~Queued(e) /\ ~Held(e) /\ ~Ended(e) /\ e \in offered
      BY <2>1, <2>2 DEF OnePlace
    <2>4. \A f \in Event : Suspended(f)' => Suspended(f) /\ f # e
      BY <2>1, NoneAssumption DEF Suspended, OneCopy, TypeOK
    <2>5. \A c, d \in Publisher : putting'[c] = putting'[d] /\ putting'[c] \in Event => c = d
      BY <2>1, NoneAssumption DEF OneCopy, TypeOK
    <2> HIDE DEF e
    <2> QED
      BY <2>1, <2>3, <2>4, <2>5, Enqueued
  <1>11. ASSUME NEW w \in Worker, Get(w)
         PROVE  OnePlace' /\ OneCopy'
    <2> DEFINE p == PartitionOf(w)
               e == Head(queue[p])
               s == Deliver(e, 1)
    <2>1. /\ p \in Partition /\ queue[p] \in Seq(Event) /\ queue[p] # <<>>
          /\ e \in Event /\ e = queue[p][1] /\ 1 \in DOMAIN queue[p]
      BY <1>11 DEF Get, TypeOK, PartitionOf, Worker
    <2>2. s.event = e /\ s.pc \in {"delivering", "appending"}
      BY <2>1, DeliverType
    <2>3. worker'[w] = s /\ \A v \in Worker \ {w} : worker'[v] = worker[v]
      BY <1>11 DEF Get, Move, TypeOK
    <2>4. Queued(e)
      BY <2>1 DEF Queued
    <2>5. ~Suspended(e) /\ ~Held(e) /\ ~Ended(e) /\ e \in offered
      BY <2>1, <2>4 DEF OnePlace
    <2>6. UNCHANGED <<putting, offered, accepted, stored, lost, unstored>>
      BY <1>11 DEF Get, publishVars
    <2>7. \A q \in Partition : \A i \in DOMAIN queue'[q] :
            IF q = p THEN i + 1 \in DOMAIN queue[p] /\ queue'[p][i] = queue[p][i + 1] /\ i \in Nat \ {0}
                     ELSE i \in DOMAIN queue[q] /\ queue'[q][i] = queue[q][i]
      BY <1>11, <2>1 DEF Get, TypeOK
    <2>8. \A q \in Partition : \A i \in DOMAIN queue[q] :
            \/ q = p /\ i = 1
            \/ \E j \in DOMAIN queue'[q] : queue'[q][j] = queue[q][i]
      <3> SUFFICES ASSUME NEW q \in Partition, NEW i \in DOMAIN queue[q], ~(q = p /\ i = 1)
                   PROVE  \E j \in DOMAIN queue'[q] : queue'[q][j] = queue[q][i]
        OBVIOUS
      <3>1. queue' = [queue EXCEPT ![p] = Tail(@)]
        BY <1>11 DEF Get
      <3>2. CASE q # p
        BY <3>1, <3>2 DEF TypeOK
      <3>3. CASE q = p
        <4>1. queue'[q] = Tail(queue[p]) /\ i \in 2 .. Len(queue[p])
          BY <2>1, <3>1, <3>3 DEF TypeOK
        <4>2. i - 1 \in DOMAIN queue'[q] /\ queue'[q][i - 1] = queue[q][i]
          BY <2>1, <3>3, <4>1
        <4> QED
          BY <4>2
      <3> QED
        BY <3>2, <3>3
    <2> HIDE DEF p, e, s
    <2>9. \A f \in Event : Queued(f)' => Queued(f) /\ f # e
      <3> SUFFICES ASSUME NEW f \in Event, NEW q \in Partition, NEW i \in DOMAIN queue'[q],
                          queue'[q][i] = f
                   PROVE  Queued(f) /\ f # e
        BY DEF Queued
      <3>1. CASE q = p
        <4>1. i + 1 \in DOMAIN queue[p] /\ queue[p][i + 1] = f /\ i + 1 # 1
          BY <2>7, <3>1
        <4>2. f # e
          BY <2>1, <4>1 DEF OneCopy
        <4> QED
          BY <2>1, <4>1, <4>2 DEF Queued
      <3>2. CASE q # p
        <4>1. i \in DOMAIN queue[q] /\ queue[q][i] = f
          BY <2>7, <3>2
        <4>2. f # e
          BY <2>1, <3>2, <4>1 DEF OneCopy
        <4> QED
          BY <4>1, <4>2 DEF Queued
      <3> QED
        BY <3>1, <3>2
    <2>10. \A f \in Event : Queued(f) => Queued(f)' \/ f = e
      BY <2>1, <2>8 DEF Queued
    <2>11. \A f \in Event : /\ Suspended(f)' <=> Suspended(f)
                            /\ Kept(f)' <=> Kept(f)
                            /\ Ended(f)' <=> Ended(f)
                            /\ Accepted(f)' <=> Accepted(f)
      BY <2>6 DEF Suspended, Kept, Ended, Accepted
    <2>12. \A f \in Event : Held(f)' <=> Held(f) \/ f = e
      <3>1. Holding(w)' /\ ~Holding(w) /\ worker'[w].event = e
        BY <1>11, <2>2, <2>3 DEF Get, Holding
      <3>2. \A v \in Worker \ {w} : Holding(v)' <=> Holding(v)
        BY <2>3 DEF Holding
      <3> QED
        BY <2>3, <3>1, <3>2 DEF Held
    <2>13. OnePlace'
      BY <2>4, <2>5, <2>6, <2>9, <2>10, <2>11, <2>12 DEF OnePlace
    <2>14. \A q, r \in Partition : \A i \in DOMAIN queue'[q], j \in DOMAIN queue'[r] :
             queue'[q][i] = queue'[r][j] => q = r /\ i = j
      <3> SUFFICES ASSUME NEW q \in Partition, NEW r \in Partition,
                          NEW i \in DOMAIN queue'[q], NEW j \in DOMAIN queue'[r],
                          queue'[q][i] = queue'[r][j]
                   PROVE  q = r /\ i = j
        OBVIOUS
      <3> DEFINE k == IF q = p THEN i + 1 ELSE i
                 l == IF r = p THEN j + 1 ELSE j
      <3>1. /\ k \in DOMAIN queue[q] /\ queue[q][k] = queue'[q][i]
            /\ l \in DOMAIN queue[r] /\ queue[r][l] = queue'[r][j]
        BY <2>7
      <3>2. q = r /\ k = l
        BY <3>1 DEF OneCopy
      <3> QED
        BY <2>7, <3>2
    <2>15. \A v \in Worker \ {w} : Holding(v)' => Holding(v) /\ worker[v].event # e
      BY <2>3, <2>5 DEF Holding, Held
    <2>16. \A u, v \in Worker :
             Holding(u)' /\ Holding(v)' /\ worker'[u].event = worker'[v].event => u = v
      BY <2>2, <2>3, <2>15 DEF OneCopy
    <2> QED
      BY <2>6, <2>13, <2>14, <2>16 DEF OneCopy
  <1>12. ASSUME NEW w \in Worker, HandlerReturns(w) \/ HandlerFails(w)
         PROVE  OnePlace' /\ OneCopy'
    <2> DEFINE e == worker[w].event
               next == Deliver(e, worker[w].index + 1)
               again == [worker[w] EXCEPT !.attempt = @ + 1]
    <2>1. /\ worker[w].pc = "delivering" /\ Holding(w) /\ e \in Event
          /\ worker[w] \in WorkerState /\ worker[w].index \in Nat
      BY <1>12 DEF HandlerReturns, HandlerFails, HoldsEvent, Holding, TypeOK, WorkerState
    <2>2. PICK s \in {next, again} : Move(w, s)
      BY <1>12 DEF HandlerReturns, HandlerFails
    <2>3. s.event = e /\ s.pc \in {"delivering", "appending"}
      <3>1. next.event = e /\ next.pc \in {"delivering", "appending"}
        BY <2>1, DeliverType
      <3>2. again.event = e /\ again.pc = "delivering"
        BY <2>1 DEF WorkerState
      <3> QED
        BY <3>1, <3>2
    <2>4. worker'[w] = s /\ \A v \in Worker \ {w} : worker'[v] = worker[v]
      BY <2>2 DEF Move, TypeOK
    <2>5. \A v \in Worker : /\ Holding(v)' <=> Holding(v)
                            /\ Holding(v) => worker'[v].event = worker[v].event
      BY <2>1, <2>3, <2>4 DEF Holding
    <2> QED
      BY <1>12, <2>5, StandStill DEF HandlerReturns, HandlerFails, publishVars
  <1> QED
    BY <1>1, <1>2, <1>3, <1>4, <1>5, <1>6, <1>7, <1>8, <1>9, <1>10, <1>11, <1>12
    DEF Next, WorkerStep

LEMMA PlacesInit == Init => OnePlace /\ OneCopy
  <1> SUFFICES ASSUME Init PROVE OnePlace /\ OneCopy
    OBVIOUS
  <1>1. \A w \in Worker : ~Holding(w)
    BY DEF Init, Idle, Holding
  <1>2. \A e \in Event : ~Suspended(e) /\ ~Queued(e) /\ ~Held(e) /\ ~Kept(e) /\ ~Ended(e) /\ ~Accepted(e)
    BY <1>1, NoneAssumption DEF Init, Suspended, Queued, Held, Kept, Ended, Accepted
  <1>3. OneCopy
    BY <1>1, NoneAssumption DEF Init, OneCopy
  <1> QED
    BY <1>2, <1>3 DEF OnePlace, Init

LEMMA PlacesInv == Spec => [](TypeOK /\ HoldsEvent /\ LossInv /\ OnePlace /\ OneCopy)
  BY InitType, TypeStep, LossInit, LossStep, PlacesInit, PlacesStep, PTL DEF Spec

(* Every accepted event is in exactly one place: in its queue, with one     *)
(* worker, in the event store, refused by it (event_bus.py:190, :201), or   *)
(* interrupted by a stop (:199), the last at most once per partition and    *)
(* run of the bus; also when start() overtakes a pending stop().            *)
THEOREM BusAcceptedAccounted == Spec => []AcceptedAccounted
  <1>1. TypeOK /\ LossInv /\ OnePlace => AcceptedAccounted
    <2> SUFFICES ASSUME TypeOK, LossInv, OnePlace
                 PROVE  AcceptedAccounted
      OBVIOUS
    <2>1. ASSUME NEW p \in Partition, NEW i \in DOMAIN accepted[p]
          PROVE  \E k \in 1 .. 5 : \A j \in 1 .. 5 : Places(accepted[p][i])[j] <=> j = k
      <3> DEFINE e == accepted[p][i]
      <3>1. e \in Event /\ Accepted(e)
        BY DEF TypeOK, Accepted
      <3> HIDE DEF e
      <3>2. \/ Queued(e) /\ ~Held(e) /\ ~Kept(e) /\ e \notin lost /\ e \notin unstored
            \/ ~Queued(e) /\ Held(e) /\ ~Kept(e) /\ e \notin lost /\ e \notin unstored
            \/ ~Queued(e) /\ ~Held(e) /\ Kept(e) /\ e \notin lost /\ e \notin unstored
            \/ ~Queued(e) /\ ~Held(e) /\ ~Kept(e) /\ e \in lost /\ e \notin unstored
            \/ ~Queued(e) /\ ~Held(e) /\ ~Kept(e) /\ e \notin lost /\ e \in unstored
        BY <3>1 DEF OnePlace, Ended
      <3>3. /\ Places(e)[1] <=> Queued(e)
            /\ Places(e)[2] <=> Held(e)
            /\ Places(e)[3] <=> Kept(e)
            /\ Places(e)[4] <=> e \in lost
            /\ Places(e)[5] <=> e \in unstored
        BY DEF Places
      <3>4. \A j \in 1 .. 5 : j = 1 \/ j = 2 \/ j = 3 \/ j = 4 \/ j = 5
        OBVIOUS
      <3>5. \E k \in 1 .. 5 : \A j \in 1 .. 5 : Places(e)[j] <=> j = k
        <4>1. CASE Places(e)[1]
          <5>1. \A j \in 1 .. 5 : Places(e)[j] <=> j = 1
            BY <3>2, <3>3, <3>4, <4>1
          <5> QED
            BY <5>1
        <4>2. CASE Places(e)[2]
          <5>1. \A j \in 1 .. 5 : Places(e)[j] <=> j = 2
            BY <3>2, <3>3, <3>4, <4>2
          <5> QED
            BY <5>1
        <4>3. CASE Places(e)[3]
          <5>1. \A j \in 1 .. 5 : Places(e)[j] <=> j = 3
            BY <3>2, <3>3, <3>4, <4>3
          <5> QED
            BY <5>1
        <4>4. CASE Places(e)[4]
          <5>1. \A j \in 1 .. 5 : Places(e)[j] <=> j = 4
            BY <3>2, <3>3, <3>4, <4>4
          <5> QED
            BY <5>1
        <4>5. CASE Places(e)[5]
          <5>1. \A j \in 1 .. 5 : Places(e)[j] <=> j = 5
            BY <3>2, <3>3, <3>4, <4>5
          <5> QED
            BY <5>1
        <4> QED
          BY <3>2, <3>3, <4>1, <4>2, <4>3, <4>4, <4>5
      <3> QED
        BY <3>5 DEF e
    <2> QED
      BY <2>1, LossBound DEF AcceptedAccounted
  <1> QED
    BY <1>1, PlacesInv, PTL

-----------------------------------------------------------------------------
(* What is stored was delivered.  A subscriber that stays is registered     *)
(* once for a type; the order of those that stay and those that come and go *)
(* is arbitrary.                                                            *)
PermanentOnce ==
  \A t \in EventType : \A i, j \in DOMAIN InitialSubscribers[t] :
    InitialSubscribers[t][i] = InitialSubscribers[t][j]
      /\ InitialSubscribers[t][i] \notin Dynamic => i = j

(* The list always holds those that stay, each at one place. *)
ListOf(l, t) ==
  /\ \A i, j \in DOMAIN l : l[i] = l[j] /\ l[i] \notin Dynamic => i = j
  /\ \A k \in DOMAIN InitialSubscribers[t] :
       InitialSubscribers[t][k] \notin Dynamic =>
         \E j \in DOMAIN l : l[j] = InitialSubscribers[t][k]

Lists == \A t \in EventType : ListOf(subscribers[t], t)

(* Nobody was called with an event that no worker has taken yet. *)
Untouched ==
  \A e \in Event : e \notin offered \/ Suspended(e) \/ Queued(e) =>
    \A h \in Handler : attempts[e][h] = 0

(* The iterator is done with handler h. *)
Reached(e, h) ==
  /\ attempts[e][h] <= MaxRetries + 1
  /\ attempts[e][h] = 0 => h \in skipped[e]

(* How far an iterator with event e, that has called handler h at position  *)
(* i, has got in list l: what is behind i is still to be called.            *)
GotTo(e, l, i, h) ==
  \A j \in DOMAIN l : l[j] \notin Dynamic =>
    /\ j > i => attempts[e][l[j]] = 0 /\ l[j] # h
    /\ j <= i => Reached(e, l[j])

Progress(w) ==
  LET e == worker[w].event
      l == subscribers[e.type]
  IN
  /\ worker[w].pc = "delivering" =>
       /\ worker[w].index \in Nat \ {0}
       /\ worker[w].attempt \in 1 .. MaxRetries + 1
       /\ worker[w].handler \notin Dynamic =>
            attempts[e][worker[w].handler] = worker[w].attempt
       /\ GotTo(e, l, worker[w].index, worker[w].handler)
  /\ worker[w].pc = "appending" =>
       \A j \in DOMAIN l : l[j] \notin Dynamic => Reached(e, l[j])

Delivered(e) ==
  \A k \in DOMAIN InitialSubscribers[e.type] :
    InitialSubscribers[e.type][k] \notin Dynamic =>
      Reached(e, InitialSubscribers[e.type][k])

DeliveryInv ==
  /\ Lists /\ Untouched
  /\ \A w \in Worker : Progress(w)
  /\ \A e \in Event : Kept(e) => Delivered(e)

LEMMA AssumedTypes ==
  /\ \A e \in Event : e.type \in EventType /\ InitialSubscribers[e.type] \in Seq(Handler)
  /\ MaxRetries \in Nat
  BY BusAssumption DEF EventType

(* What a step leaves alone that leaves the calls with e and the handlers   *)
(* skipped alone.                                                           *)
LEMMA SameCalls ==
  ASSUME NEW e, attempts'[e] = attempts[e], skipped'[e] = skipped[e]
  PROVE  /\ \A h : Reached(e, h)' <=> Reached(e, h)
         /\ \A l, i, h : GotTo(e, l, i, h)' <=> GotTo(e, l, i, h)
  BY DEF Reached, GotTo

LEMMA SameProgress ==
  ASSUME NEW w \in Worker, Progress(w), worker'[w] = worker[w], subscribers' = subscribers,
         attempts'[worker[w].event] = attempts[worker[w].event],
         skipped'[worker[w].event] = skipped[worker[w].event]
  PROVE  Progress(w)'
  <1> DEFINE e == worker[w].event
  <1>1. /\ \A h : Reached(e, h)' <=> Reached(e, h)
        /\ \A l, i, h : GotTo(e, l, i, h)' <=> GotTo(e, l, i, h)
    BY SameCalls
  <1> QED
    BY <1>1 DEF Progress

(* A step that calls nobody, and lets holders only give up what they hold.  *)
LEMMA GivingUp ==
  ASSUME DeliveryInv, offered \subseteq offered',
         UNCHANGED <<subscribers, queue, putting, stored, attempts, skipped>>,
         \A w \in Worker : Holding(w)' => Holding(w) /\ worker'[w] = worker[w]
  PROVE  DeliveryInv'
  <1>1. \A e \in Event : /\ Suspended(e)' <=> Suspended(e)
                         /\ Queued(e)' <=> Queued(e)
                         /\ Kept(e)' <=> Kept(e)
    BY DEF Suspended, Queued, Kept
  <1>2. Lists' /\ Untouched'
    BY <1>1 DEF DeliveryInv, Lists, Untouched
  <1>3. ASSUME NEW w \in Worker PROVE Progress(w)'
    <2>1. CASE Holding(w)'
      <3>1. worker'[w] = worker[w] /\ Progress(w)
        BY <2>1 DEF DeliveryInv
      <3> QED
        BY <3>1, SameProgress
    <2>2. CASE ~Holding(w)'
      BY <2>2 DEF Progress, Holding
    <2> QED
      BY <2>1, <2>2
  <1>4. \A e \in Event : Kept(e)' => Delivered(e)'
    BY <1>1 DEF DeliveryInv, Delivered, Reached
  <1> QED
    BY <1>2, <1>3, <1>4 DEF DeliveryInv

(* A step that moves an event on its way to a worker. *)
LEMMA OnTheWay ==
  ASSUME DeliveryInv, UNCHANGED <<subscribers, stored, worker, attempts, skipped>>,
         Untouched'
  PROVE  DeliveryInv'
  <1>1. \A w \in Worker : Progress(w)'
    BY SameProgress DEF DeliveryInv
  <1>2. \A e \in Event : Kept(e)' => Delivered(e)'
    BY DEF DeliveryInv, Delivered, Reached, Kept
  <1> QED
    BY <1>1, <1>2 DEF DeliveryInv, Lists

(* What a move of worker w to state s does to the calls. *)
LEMMA MoveCalls ==
  ASSUME TypeOK, NEW w \in Worker, NEW s \in WorkerState, Move(w, s),
         s.event \in Event, s.pc = "delivering" => s.handler \in Handler
  PROVE  /\ worker'[w] = s /\ \A v \in Worker \ {w} : worker'[v] = worker[v]
         /\ \A f \in Event \ {s.event} : attempts'[f] = attempts[f]
         /\ \A h \in Handler :
              attempts'[s.event][h] =
                IF s.pc = "delivering" /\ h = s.handler /\ h \notin Dynamic
                THEN attempts[s.event][h] + 1 ELSE attempts[s.event][h]
  BY DEF TypeOK, Move

LEMMA DeliverProgress ==
  ASSUME TypeOK, Lists, NEW w \in Worker, NEW e \in Event,
         NEW i \in Nat \ {0}, Move(w, Deliver(e, i)), UNCHANGED <<subscribers, skipped>>,
         \A j \in DOMAIN subscribers[e.type] : subscribers[e.type][j] \notin Dynamic =>
           /\ j < i => Reached(e, subscribers[e.type][j])
           /\ j >= i => attempts[e][subscribers[e.type][j]] = 0
  PROVE  Progress(w)'
  <1> DEFINE s == Deliver(e, i)
             l == subscribers[e.type]
             n == Len(l)
  <1>1. s \in WorkerState /\ s.event = e /\ (s.pc = "delivering" => s.handler \in Handler)
    BY DeliverType
  <1>2. /\ worker'[w] = s
        /\ \A h \in Handler :
             attempts'[e][h] = IF s.pc = "delivering" /\ h = s.handler /\ h \notin Dynamic
                               THEN attempts[e][h] + 1 ELSE attempts[e][h]
    BY <1>1, MoveCalls
  <1>3. /\ e.type \in EventType /\ n \in Nat /\ DOMAIN l = 1 .. n
        /\ \A j \in 1 .. n : l[j] \in Handler /\ attempts[e][l[j]] \in Nat
    BY AssumedTypes DEF TypeOK
  <1>4. \A j, k \in 1 .. n : l[j] = l[k] /\ l[j] \notin Dynamic => j = k
    BY <1>3 DEF Lists, ListOf
  <1>5. MaxRetries \in Nat
    BY AssumedTypes
  <1>6. \A j \in 1 .. n : l[j] \notin Dynamic =>
          /\ j < i => attempts[e][l[j]] <= MaxRetries + 1 /\ (attempts[e][l[j]] = 0 => l[j] \in skipped[e])
          /\ j >= i => attempts[e][l[j]] = 0
    BY <1>3 DEF Reached
  <1>7. CASE i \in DOMAIN l
    <2>1. s.pc = "delivering" /\ s.handler = l[i] /\ s.index = i /\ s.attempt = 1 /\ i \in 1 .. n
      BY <1>3, <1>7 DEF Deliver
    <2> HIDE DEF s, l, n
    <2>2. \A j \in 1 .. n : l[j] \notin Dynamic /\ j # i => attempts'[e][l[j]] = attempts[e][l[j]] /\ l[j] # l[i]
      BY <1>2, <1>3, <1>4, <2>1
    <2>3. l[i] \notin Dynamic => attempts'[e][l[i]] = 1
      BY <1>2, <1>3, <1>6, <2>1
    <2>4. \A j \in 1 .. n : l[j] \notin Dynamic =>
            /\ j > i => attempts'[e][l[j]] = 0 /\ l[j] # l[i]
            /\ j <= i => /\ attempts'[e][l[j]] <= MaxRetries + 1
                         /\ attempts'[e][l[j]] = 0 => l[j] \in skipped[e]
      <3> SUFFICES ASSUME NEW j \in 1 .. n, l[j] \notin Dynamic
                   PROVE  /\ j > i => attempts'[e][l[j]] = 0 /\ l[j] # l[i]
                          /\ j <= i => /\ attempts'[e][l[j]] <= MaxRetries + 1
                                       /\ attempts'[e][l[j]] = 0 => l[j] \in skipped[e]
        OBVIOUS
      <3>1. CASE j = i
        BY <1>3, <1>5, <2>1, <2>3, <3>1
      <3>2. CASE j # i
        <4>1. attempts'[e][l[j]] = attempts[e][l[j]] /\ l[j] # l[i]
          BY <2>2, <3>2
        <4>2. j \in Nat /\ i \in Nat /\ (j < i \/ j > i)
          BY <1>3, <2>1, <3>2
        <4>3. /\ j < i => attempts[e][l[j]] <= MaxRetries + 1 /\ (attempts[e][l[j]] = 0 => l[j] \in skipped[e])
              /\ j >= i => attempts[e][l[j]] = 0
          BY <1>6
        <4> QED
          BY <4>1, <4>2, <4>3
      <3> QED
        BY <3>1, <3>2
    <2>5. GotTo(e, l, i, l[i])'
      <3>1. skipped' = skipped /\ l' = l
        BY DEF l
      <3>2. DOMAIN l = 1 .. n
        BY <1>3
      <3> QED
        BY <2>4, <3>1, <3>2 DEF GotTo, Reached
    <2>6. worker'[w].event = e /\ worker'[w].pc = "delivering" /\ worker'[w].index = i
          /\ worker'[w].attempt = 1 /\ worker'[w].handler = l[i]
      BY <1>1, <1>2, <2>1
    <2>7. 1 \in 1 .. MaxRetries + 1 /\ l' = l /\ l = subscribers[e.type]
      BY <1>5 DEF l
    <2> QED
      BY <2>3, <2>5, <2>6, <2>7 DEF Progress
  <1>8. CASE i \notin DOMAIN l
    <2>1. s.pc = "appending"
      BY <1>8 DEF Deliver
    <2>2. \A j \in 1 .. n : j < i /\ attempts'[e][l[j]] = attempts[e][l[j]]
      BY <1>2, <1>3, <1>8, <2>1
    <2>3. worker'[w].event = e /\ worker'[w].pc = "appending"
      BY <1>1, <1>2, <2>1
    <2>4. \A j \in 1 .. n : l[j] \notin Dynamic =>
            /\ attempts'[e][l[j]] <= MaxRetries + 1
            /\ attempts'[e][l[j]] = 0 => l[j] \in skipped[e]
      BY <1>6, <2>2
    <2> HIDE DEF s, n
    <2>5. DOMAIN l = 1 .. n /\ l' = l /\ skipped' = skipped
      BY <1>3
    <2> QED
      BY <2>3, <2>4, <2>5 DEF Progress, Reached
  <1> QED
    BY <1>7, <1>8

LEMMA RetryProgress ==
  ASSUME TypeOK, HoldsEvent, NEW w \in Worker, Progress(w),
         worker[w].pc = "delivering", ~(worker[w].attempt > MaxRetries),
         NEW s, s = [worker[w] EXCEPT !.attempt = @ + 1], Move(w, s),
         UNCHANGED <<subscribers, skipped>>
  PROVE  Progress(w)'
  <1>0. PICK e \in Event : e = worker[w].event
    BY DEF HoldsEvent, Holding
  <1>1. PICK i, a \in Nat : i = worker[w].index /\ a = worker[w].attempt
    BY DEF TypeOK, WorkerState
  <1>2. PICK h \in Handler : h = worker[w].handler
    BY DEF HoldsEvent
  <1>3. /\ s \in WorkerState /\ s.pc = "delivering" /\ s.event = e /\ s.index = i
        /\ s.handler = h /\ s.attempt = a + 1
    <2>1. worker[w] \in WorkerState
      BY DEF TypeOK
    <2> QED
      BY <1>0, <1>1, <1>2, <2>1 DEF WorkerState
  <1>4. /\ worker'[w] = s
        /\ \A g \in Handler :
             attempts'[e][g] = IF g = h /\ g \notin Dynamic
                               THEN attempts[e][g] + 1 ELSE attempts[e][g]
    <2>1. s.event \in Event /\ (s.pc = "delivering" => s.handler \in Handler)
      BY <1>3
    <2>2. /\ worker'[w] = s
          /\ \A g \in Handler :
               attempts'[s.event][g] =
                 IF s.pc = "delivering" /\ g = s.handler /\ g \notin Dynamic
                 THEN attempts[s.event][g] + 1 ELSE attempts[s.event][g]
      BY <1>3, <2>1, MoveCalls
    <2> QED
      BY <1>3, <2>2
  <1> DEFINE l == subscribers[e.type]
             n == Len(l)
  <1>5. /\ n \in Nat /\ DOMAIN l = 1 .. n
        /\ \A j \in 1 .. n : l[j] \in Handler /\ attempts[e][l[j]] \in Nat
    BY AssumedTypes DEF TypeOK
  <1>6. /\ i # 0 /\ a \in 1 .. MaxRetries + 1 /\ MaxRetries \in Nat
        /\ h \notin Dynamic => attempts[e][h] = a
        /\ GotTo(e, l, i, h)
    BY <1>0, <1>1, <1>2, AssumedTypes DEF Progress
  <1>7. a <= MaxRetries /\ a + 1 \in 1 .. MaxRetries + 1
    BY <1>1, <1>6
  <1> HIDE DEF n, l
  <1>8. h \notin Dynamic => attempts'[e][h] = a + 1
    BY <1>4, <1>6
  <1>9. \A j \in 1 .. n : l[j] # h => attempts'[e][l[j]] = attempts[e][l[j]]
    BY <1>4, <1>5
  <1>10. l' = l /\ skipped' = skipped
    BY DEF l
  <1>11. GotTo(e, l, i, h)'
    <2> SUFFICES ASSUME NEW j \in 1 .. n, l[j] \notin Dynamic
                 PROVE  /\ j > i => attempts'[e][l[j]] = 0 /\ l[j] # h
                        /\ j <= i => /\ attempts'[e][l[j]] <= MaxRetries + 1
                                     /\ attempts'[e][l[j]] = 0 => l[j] \in skipped[e]
      BY <1>5, <1>10 DEF GotTo, Reached
    <2>1. /\ j > i => attempts[e][l[j]] = 0 /\ l[j] # h
          /\ j <= i => /\ attempts[e][l[j]] <= MaxRetries + 1
                       /\ attempts[e][l[j]] = 0 => l[j] \in skipped[e]
      BY <1>5, <1>6 DEF GotTo, Reached
    <2>2. CASE l[j] # h
      BY <1>9, <2>1, <2>2
    <2>3. CASE l[j] = h
      <3>1. attempts'[e][l[j]] = a + 1 /\ ~(j > i)
        BY <1>8, <2>1, <2>3
      <3> QED
        BY <1>6, <1>7, <2>3, <3>1
    <2> QED
      BY <2>2, <2>3
  <1>12. /\ worker'[w].event = e /\ worker'[w].pc = "delivering"
         /\ worker'[w].index = i /\ worker'[w].attempt = a + 1
         /\ worker'[w].handler = h /\ i \in Nat \ {0}
    BY <1>1, <1>3, <1>4, <1>6
  <1> QED
    BY <1>7, <1>8, <1>10, <1>11, <1>12 DEF Progress, l

(* A move of a worker with an event leaves the calls of all other events,   *)
(* and so the progress of the other workers, alone.                         *)
LEMMA OthersProgress ==
  ASSUME TypeOK, DeliveryInv, NEW w \in Worker, NEW e \in Event,
         \A v \in Worker \ {w} : worker'[v] = worker[v],
         \A f \in Event \ {e} : attempts'[f] = attempts[f],
         \A v \in Worker \ {w} : Holding(v) => worker[v].event # e,
         HoldsEvent, ~Kept(e), UNCHANGED <<stored, subscribers, skipped>>
  PROVE  /\ \A v \in Worker \ {w} : Progress(v)'
         /\ \A f \in Event : Kept(f)' => Delivered(f)'
  <1>1. ASSUME NEW v \in Worker \ {w} PROVE Progress(v)'
    <2>1. CASE Holding(v)
      <3>1. worker'[v] = worker[v] /\ attempts'[worker[v].event] = attempts[worker[v].event]
        BY <1>1, <2>1 DEF HoldsEvent
      <3>2. Progress(v)
        BY <1>1 DEF DeliveryInv
      <3> QED
        BY <3>1, <3>2, SameProgress
    <2>2. CASE ~Holding(v)
      BY <1>1, <2>2 DEF Progress, Holding
    <2> QED
      BY <2>1, <2>2
  <1>2. ASSUME NEW f \in Event, Kept(f)'
        PROVE  Delivered(f)'
    <2>1. Kept(f) /\ f # e
      BY <1>2 DEF Kept
    <2> QED
      BY <2>1 DEF DeliveryInv, Delivered, Reached
  <1> QED
    BY <1>1, <1>2

(* list.remove() of the element at position i, from what is before and      *)
(* behind it.                                                              *)
LEMMA RemoveAt ==
  ASSUME NEW l \in Seq(Handler), NEW i \in 1 .. Len(l),
         NEW a \in Seq(Handler), Len(a) = i - 1, \A j \in 1 .. i - 1 : a[j] = l[j],
         NEW c \in Seq(Handler), Len(c) = Len(l) - i, \A j \in 1 .. Len(l) - i : c[j] = l[i + j]
  PROVE  /\ a \o c \in Seq(Handler) /\ Len(a \o c) = Len(l) - 1
         /\ \A j \in 1 .. Len(l) - 1 :
              (a \o c)[j] = IF j < i THEN l[j] ELSE l[j + 1]
  <1>1. /\ a \o c \in Seq(Handler) /\ Len(a \o c) = Len(a) + Len(c)
        /\ \A j \in 1 .. Len(a) + Len(c) :
             (a \o c)[j] = IF j <= Len(a) THEN a[j] ELSE c[j - Len(a)]
    BY ConcatProperties
  <1>2. Len(l) \in Nat /\ i \in Nat \ {0} /\ i <= Len(l)
    OBVIOUS
  <1>3. Len(a) + Len(c) = Len(l) - 1
    BY <1>2
  <1>4. ASSUME NEW j \in 1 .. Len(l) - 1
        PROVE  (a \o c)[j] = IF j < i THEN l[j] ELSE l[j + 1]
    <2>1. (a \o c)[j] = IF j <= Len(a) THEN a[j] ELSE c[j - Len(a)]
      BY <1>1, <1>3
    <2>2. CASE j < i
      <3>1. j <= Len(a) /\ j \in 1 .. i - 1
        BY <1>2, <2>2
      <3> QED
        BY <2>1, <2>2, <3>1
    <2>3. CASE ~(j < i)
      <3> DEFINE k == j - Len(a)
      <3>1. ~(j <= Len(a)) /\ k \in 1 .. Len(l) - i /\ i + k = j + 1
        BY <1>2, <2>3
      <3>2. (a \o c)[j] = c[k]
        BY <2>1, <3>1
      <3> HIDE DEF k
      <3> QED
        BY <2>3, <3>1, <3>2
    <2> QED
      BY <2>2, <2>3
  <1> QED
    BY <1>1, <1>3, <1>4

(* What unsubscribe() leaves of the list: every element behind position r   *)
(* has moved one place to the front.                                        *)
LEMMA Removed ==
  ASSUME TypeOK, NEW t \in EventType, NEW h \in Handler, Unsubscribe(t, h)
  PROVE  \E r \in DOMAIN subscribers[t] :
           /\ subscribers[t][r] = h
           /\ subscribers'[t] \in Seq(Handler)
           /\ DOMAIN subscribers'[t] = 1 .. Len(subscribers[t]) - 1
           /\ \A j \in 1 .. Len(subscribers[t]) - 1 :
                subscribers'[t][j] = IF j < r THEN subscribers[t][j] ELSE subscribers[t][j + 1]
           /\ skipped' = [e \in Event |-> skipped[e] \cup PassedOver(t, r, e)]
  <1> DEFINE l == subscribers[t]
             m == subscribers'[t]
  <1>1. PICK r \in DOMAIN l : /\ l[r] = h
                              /\ m = SubSeq(l, 1, r - 1) \o SubSeq(l, r + 1, Len(l))
                              /\ skipped' = [e \in Event |-> skipped[e] \cup PassedOver(t, r, e)]
    BY DEF Unsubscribe, TypeOK
  <1>2. l \in Seq(Handler) /\ r \in 1 .. Len(l)
    BY <1>1 DEF TypeOK
  <1> HIDE DEF l, m
  <1> DEFINE a == SubSeq(l, 1, r - 1)
             c == SubSeq(l, r + 1, Len(l))
  <1>3. a \in Seq(Handler) /\ Len(a) = r - 1 /\ \A j \in 1 .. r - 1 : a[j] = l[j]
    BY <1>2
  <1>4. c \in Seq(Handler) /\ Len(c) = Len(l) - r /\ \A j \in 1 .. Len(l) - r : c[j] = l[r + j]
    BY <1>2
  <1>5. m = a \o c
    BY <1>1
  <1> HIDE DEF a, c
  <1>6. /\ a \o c \in Seq(Handler) /\ Len(a \o c) = Len(l) - 1
        /\ \A j \in 1 .. Len(l) - 1 :
             (a \o c)[j] = IF j < r THEN l[j] ELSE l[j + 1]
    BY <1>2, <1>3, <1>4, RemoveAt
  <1>7. m \in Seq(Handler) /\ DOMAIN m = 1 .. Len(l) - 1
    BY <1>2, <1>5, <1>6
  <1>8. \A j \in 1 .. Len(l) - 1 : m[j] = IF j < r THEN l[j] ELSE l[j + 1]
    BY <1>5, <1>6
  <1> QED
    BY <1>1, <1>7, <1>8 DEF l, m

(* unsubscribe() under the workers' iterators. *)
LEMMA UnsubscribeStep ==
  ASSUME TypeOK, HoldsEvent, DeliveryInv, NEW t \in EventType, NEW h \in Handler, Unsubscribe(t, h)
  PROVE  DeliveryInv'
  <1>1. UNCHANGED <<queue, putting, offered, worker, stored, attempts>> /\ h \in Dynamic
    BY DEF Unsubscribe, publishVars
  <1> DEFINE l == subscribers[t]
             m == subscribers'[t]
             n == Len(l)
  <1>2. PICK r \in DOMAIN l :
          /\ l[r] = h
          /\ DOMAIN m = 1 .. n - 1
          /\ \A j \in 1 .. n - 1 : m[j] = IF j < r THEN l[j] ELSE l[j + 1]
          /\ skipped' = [e \in Event |-> skipped[e] \cup PassedOver(t, r, e)]
    BY Removed
  <1>3. l \in Seq(Handler) /\ n \in Nat /\ DOMAIN l = 1 .. n /\ r \in 1 .. n
    BY DEF TypeOK
  <1>4. \A u \in EventType \ {t} : subscribers'[u] = subscribers[u]
    BY DEF Unsubscribe, TypeOK
  <1>5. \A e \in Event : skipped[e] \subseteq skipped'[e]
    BY <1>2
  <1>6. \A e \in Event : \A g : Reached(e, g) => Reached(e, g)'
    BY <1>1, <1>5 DEF Reached
  <1>7. \A e \in Event : /\ Suspended(e)' <=> Suspended(e)
                         /\ Queued(e)' <=> Queued(e)
                         /\ Kept(e)' <=> Kept(e)
    BY <1>1 DEF Suspended, Queued, Kept
  <1> HIDE DEF l, m, n
  <1>8. ListOf(l, t) /\ DeliveryInv
    BY DEF DeliveryInv, Lists, l
  <1>9. ListOf(m, t)
    <2>1. ASSUME NEW i \in 1 .. n - 1, NEW j \in 1 .. n - 1, m[i] = m[j], m[i] \notin Dynamic
          PROVE  i = j
      <3> DEFINE k(x) == IF x < r THEN x ELSE x + 1
      <3>1. k(i) \in 1 .. n /\ k(j) \in 1 .. n /\ l[k(i)] = m[i] /\ l[k(j)] = m[j]
        BY <1>2, <1>3
      <3>2. k(i) = k(j)
        BY <1>3, <1>8, <2>1, <3>1 DEF ListOf
      <3> QED
        BY <1>3, <3>2
    <2>2. ASSUME NEW k \in DOMAIN InitialSubscribers[t], InitialSubscribers[t][k] \notin Dynamic
          PROVE  \E j \in 1 .. n - 1 : m[j] = InitialSubscribers[t][k]
      <3>1. PICK i \in 1 .. n : l[i] = InitialSubscribers[t][k]
        BY <1>3, <1>8, <2>2 DEF ListOf
      <3>2. i # r
        BY <1>1, <1>2, <2>2, <3>1
      <3>3. CASE i < r
        <4>1. i \in 1 .. n - 1 /\ m[i] = l[i]
          BY <1>2, <1>3, <3>3
        <4> QED
          BY <3>1, <4>1
      <3>4. CASE ~(i < r)
        <4>1. i - 1 \in 1 .. n - 1 /\ ~(i - 1 < r) /\ i - 1 + 1 = i
          BY <1>3, <3>2, <3>4
        <4>2. m[i - 1] = l[i]
          BY <1>2, <4>1
        <4> QED
          BY <3>1, <4>1, <4>2
      <3> QED
        BY <3>3, <3>4
    <2> QED
      BY <1>2, <2>1, <2>2 DEF ListOf
  <1>10. Lists'
    BY <1>4, <1>9 DEF Lists, DeliveryInv, m
  <1>11. Untouched'
    BY <1>1, <1>7 DEF DeliveryInv, Untouched
  <1>12. \A e \in Event : Kept(e)' => Delivered(e)'
    BY <1>6, <1>7 DEF DeliveryInv, Delivered
  <1>13. ASSUME NEW w \in Worker PROVE Progress(w)'
    <2> DEFINE e == worker[w].event
               i == worker[w].index
               g == worker[w].handler
    <2>1. Progress(w) /\ worker'[w] = worker[w]
      BY <1>1 DEF DeliveryInv
    <2>2. CASE ~Holding(w)
      BY <2>1, <2>2 DEF Progress, Holding
    <2>3. CASE Holding(w) /\ e.type # t
      <3>1. e \in Event /\ e.type \in EventType
        BY <2>3, AssumedTypes DEF HoldsEvent
      <3>2. subscribers'[e.type] = subscribers[e.type]
        BY <1>4, <2>3, <3>1
      <3>3. \A k, x, y : GotTo(e, k, x, y) => GotTo(e, k, x, y)'
        BY <1>1, <1>6, <3>1 DEF GotTo
      <3> QED
        BY <1>1, <1>6, <2>1, <3>1, <3>2, <3>3 DEF Progress
    <2>4. CASE Holding(w) /\ e.type = t
      <3>1. e \in Event /\ i \in Nat
        BY <2>4 DEF HoldsEvent, TypeOK, WorkerState
      <3>2. PICK f \in Event : f = e
        BY <3>1
      <3>3. PICK k \in Nat : k = i
        BY <3>1
      <3>4. PICK x : x = g
        OBVIOUS
      <3>5. PICK y : y = m
        OBVIOUS
      <3>6. /\ \A z : Reached(f, z) => Reached(f, z)'
            /\ attempts'[f] = attempts[f]
        BY <1>1, <1>6
      <3>7. /\ DOMAIN y = 1 .. n - 1
            /\ \A j \in 1 .. n - 1 : y[j] = IF j < r THEN l[j] ELSE l[j + 1]
        BY <1>2, <3>5
      <3>8. CASE worker[w].pc = "appending"
        <4>1. \A j \in 1 .. n : l[j] \notin Dynamic => Reached(f, l[j])
          BY <1>3, <2>1, <2>4, <3>2, <3>8 DEF Progress, l
        <4>2. \A j \in 1 .. n - 1 : y[j] \notin Dynamic => Reached(f, y[j])
          <5>1. \A j \in 1 .. n - 1 : j \in 1 .. n /\ j + 1 \in 1 .. n
            BY <1>3
          <5> QED
            BY <3>7, <4>1, <5>1
        <4>3. \A j \in DOMAIN y : y[j] \notin Dynamic => Reached(f, y[j])'
          BY <3>6, <3>7, <4>2
        <4>4. /\ worker'[w].event = f /\ worker'[w].pc = "appending"
              /\ subscribers'[f.type] = y
          BY <2>1, <2>4, <3>2, <3>5, <3>8 DEF m
        <4> QED
          BY <4>3, <4>4 DEF Progress
      <3>9. CASE worker[w].pc = "delivering"
        <4>1. GotTo(f, l, k, x)
          BY <2>1, <2>4, <3>2, <3>3, <3>4, <3>9 DEF Progress, l
        (* The handler that moved to the place of the one being called. *)
        <4>2. k \in r .. n - 1 /\ l[k + 1] \notin Dynamic => l[k + 1] \in skipped'[f]
          <5>1. k \in r .. n - 1 /\ l[k + 1] \notin Dynamic => l[k + 1] \in PassedOver(t, r, f)
            BY <2>4, <3>2, <3>3, <3>9 DEF PassedOver, l, n
          <5> QED
            BY <1>2, <5>1
        <4>3. ASSUME NEW j \in 1 .. n - 1, y[j] \notin Dynamic
              PROVE  /\ j > k => attempts'[f][y[j]] = 0 /\ y[j] # x
                     /\ j <= k => Reached(f, y[j])'
          <5>1. CASE j < r
            <6>1. y[j] = l[j] /\ j \in DOMAIN l
              BY <1>3, <3>7, <5>1
            <6>2. /\ j > k => attempts[f][y[j]] = 0 /\ y[j] # x
                  /\ j <= k => Reached(f, y[j])
              BY <4>1, <4>3, <6>1 DEF GotTo
            <6> QED
              BY <3>6, <6>2
          <5>2. CASE ~(j < r)
            <6>1. y[j] = l[j + 1] /\ j + 1 \in DOMAIN l
              BY <1>3, <3>7, <5>2
            <6>2. /\ j + 1 > k => attempts[f][y[j]] = 0 /\ y[j] # x
                  /\ j + 1 <= k => Reached(f, y[j])
              BY <4>1, <4>3, <6>1 DEF GotTo
            <6>3. CASE j > k
              <7>1. j + 1 > k /\ ~(j <= k)
                BY <1>3, <6>3
              <7> QED
                BY <3>6, <6>2, <6>3, <7>1
            <6>4. CASE j + 1 <= k
              <7>1. ~(j > k)
                BY <1>3, <6>4
              <7> QED
                BY <3>6, <6>2, <6>4, <7>1
            <6>5. CASE j = k
              <7>1. j + 1 > k /\ ~(j > k) /\ k \in r .. n - 1
                BY <1>3, <5>2, <6>5
              <7>2. attempts'[f][y[j]] = 0 /\ y[j] \in skipped'[f]
                BY <3>6, <4>2, <4>3, <6>1, <6>2, <6>5, <7>1
              <7>3. 0 <= MaxRetries + 1
                BY AssumedTypes
              <7> QED
                BY <7>1, <7>2, <7>3 DEF Reached
            <6>6. j > k \/ j + 1 <= k \/ j = k
              BY <1>3
            <6> QED
              BY <6>3, <6>4, <6>5, <6>6
          <5> QED
            BY <5>1, <5>2
        <4>4. GotTo(f, y, k, x)'
          BY <3>7, <4>3 DEF GotTo
        <4>5. /\ worker'[w].event = f /\ worker'[w].pc = "delivering"
              /\ worker'[w].index = k /\ worker'[w].handler = x
              /\ subscribers'[f.type] = y
          BY <2>1, <2>4, <3>2, <3>3, <3>4, <3>5, <3>9 DEF m
        <4>6. /\ k \in Nat \ {0} /\ worker'[w].attempt \in 1 .. MaxRetries + 1
              /\ x \notin Dynamic => attempts'[f][x] = worker'[w].attempt
          BY <2>1, <3>2, <3>3, <3>4, <3>6, <3>9 DEF Progress
        <4> QED
          BY <4>4, <4>5, <4>6 DEF Progress
      <3> QED
        BY <2>4, <3>8, <3>9 DEF Holding
    <2> QED
      BY <2>2, <2>3, <2>4
  <1> QED
    BY <1>10, <1>11, <1>12, <1>13 DEF DeliveryInv

(* subscribe() appends a handler that comes and goes. *)
LEMMA SubscribeStep ==
  ASSUME TypeOK, HoldsEvent, DeliveryInv, NEW t \in EventType, NEW h \in Handler, Subscribe(t, h)
  PROVE  DeliveryInv'
  <1>1. /\ UNCHANGED <<queue, putting, offered, worker, stored, attempts, skipped>>
        /\ h \in Dynamic
    BY DEF Subscribe, publishVars, workVars, deliveryVars
  <1> DEFINE l == subscribers[t]
             m == subscribers'[t]
             n == Len(l)
  <1>2. /\ l \in Seq(Handler) /\ n \in Nat /\ DOMAIN l = 1 .. n
        /\ DOMAIN m = 1 .. n + 1 /\ m[n + 1] = h /\ \A j \in 1 .. n : m[j] = l[j]
    BY DEF Subscribe, TypeOK
  <1>3. \A u \in EventType \ {t} : subscribers'[u] = subscribers[u]
    BY DEF Subscribe, TypeOK
  <1> HIDE DEF l, m, n
  <1>4. \A j \in DOMAIN m : m[j] \notin Dynamic => j \in DOMAIN l /\ m[j] = l[j]
    BY <1>1, <1>2
  <1>5. \A j \in DOMAIN l : j \in DOMAIN m /\ m[j] = l[j]
    BY <1>2
  <1>6. Lists'
    <2>1. ListOf(l, t)
      BY DEF DeliveryInv, Lists, l
    <2>2. ListOf(m, t)
      BY <1>4, <1>5, <2>1 DEF ListOf
    <2> QED
      BY <1>3, <2>2 DEF DeliveryInv, Lists, m
  <1>7. Untouched' /\ \A e \in Event : Kept(e)' => Delivered(e)'
    BY <1>1 DEF DeliveryInv, Untouched, Suspended, Queued, Kept, Delivered, Reached
  <1>8. ASSUME NEW w \in Worker PROVE Progress(w)'
    <2>1. Progress(w) /\ worker'[w] = worker[w]
      BY <1>1 DEF DeliveryInv
    <2>2. CASE ~Holding(w)
      BY <2>1, <2>2 DEF Progress, Holding
    <2>3. CASE Holding(w) /\ worker[w].event.type # t
      <3>1. worker[w].event \in Event /\ worker[w].event.type \in EventType
        BY <2>3, AssumedTypes DEF HoldsEvent
      <3>2. subscribers'[worker[w].event.type] = subscribers[worker[w].event.type]
        BY <1>3, <2>3, <3>1
      <3>3. PICK e \in Event : e = worker[w].event
        BY <3>1
      <3>4. /\ \A z : Reached(e, z)' <=> Reached(e, z)
            /\ \A k, x, y : GotTo(e, k, x, y)' <=> GotTo(e, k, x, y)
        BY <1>1, SameCalls
      <3> QED
        BY <1>1, <2>1, <3>2, <3>3, <3>4 DEF Progress
    <2>4. CASE Holding(w) /\ worker[w].event.type = t
      <3>1. PICK e \in Event : e = worker[w].event
        BY <2>4 DEF HoldsEvent
      <3>2. /\ \A z : Reached(e, z)' <=> Reached(e, z)
            /\ \A k, x, y : GotTo(e, k, x, y)' <=> GotTo(e, k, x, y)
        BY <1>1, SameCalls
      <3>3. PICK y : y = m
        OBVIOUS
      <3>4. \A x, g : GotTo(e, l, x, g) => GotTo(e, y, x, g)
        BY <1>4, <3>3 DEF GotTo
      <3>5. subscribers'[e.type] = y /\ subscribers[e.type] = l
        BY <2>4, <3>1, <3>3 DEF l, m
      <3>6. \A j \in DOMAIN y : y[j] \notin Dynamic => j \in DOMAIN l /\ y[j] = l[j]
        BY <1>4, <3>3
      <3> QED
        BY <1>1, <2>1, <3>1, <3>2, <3>4, <3>5, <3>6 DEF Progress
    <2> QED
      BY <2>2, <2>3, <2>4
  <1> QED
    BY <1>6, <1>7, <1>8 DEF DeliveryInv

LEMMA DeliveryStep ==
  TypeOK /\ HoldsEvent /\ OnePlace /\ OneCopy /\ DeliveryInv /\ [Next]_vars
    => DeliveryInv'
  <1> SUFFICES ASSUME TypeOK, HoldsEvent, OnePlace, OneCopy, DeliveryInv, [Next]_vars
               PROVE  DeliveryInv'
    OBVIOUS
  <1>1. CASE Start
    <2>1. \A w \in Worker : Holding(w)' => Holding(w) /\ worker'[w] = worker[w]
      <3>1. \A w \in Worker : worker'[w] = Waiting \/ worker'[w] = worker[w]
        BY <1>1 DEF Start, TypeOK
      <3>2. Waiting.pc = "getting"
        BY DEF Waiting, Idle
      <3> QED
        BY <3>1, <3>2 DEF Holding
    <2> QED
      BY <1>1, <2>1, GivingUp DEF Start, publishVars, deliveryVars
  <1>2. CASE StopBegin \/ StopEnd \/ UNCHANGED vars
    BY <1>2, GivingUp DEF StopBegin, StopEnd, vars, publishVars, workVars, deliveryVars, Holding
  <1>3. ASSUME NEW w \in Worker, HandlerSwallowsCancel(w)
        PROVE  DeliveryInv'
    BY <1>3, GivingUp DEF HandlerSwallowsCancel, publishVars, workVars, deliveryVars, Holding
  <1>4. ASSUME NEW w \in Worker, WorkerCancelled(w)
        PROVE  DeliveryInv'
    <2>1. \A v \in Worker : Holding(v)' => Holding(v) /\ worker'[v] = worker[v]
      BY <1>4 DEF WorkerCancelled, TypeOK, Exited, Idle, Holding
    <2> QED
      BY <1>4, <2>1, GivingUp DEF WorkerCancelled, publishVars, deliveryVars
  <1>5. ASSUME NEW t \in EventType, NEW h \in Handler, Subscribe(t, h)
        PROVE  DeliveryInv'
    BY <1>5, SubscribeStep
  <1>6. ASSUME NEW t \in EventType, NEW h \in Handler, Unsubscribe(t, h)
        PROVE  DeliveryInv'
    BY <1>6, UnsubscribeStep
  <1>7. ASSUME NEW b \in Publisher, NEW e \in Event, PublishRejected(b, e)
        PROVE  DeliveryInv'
    BY <1>7, GivingUp DEF PublishRejected, workVars, deliveryVars, Holding
  <1>8. ASSUME NEW b \in Publisher, NEW e \in Event, PublishAccepted(b, e)
        PROVE  DeliveryInv'
    <2>1. /\ e \notin offered /\ offered' = offered \cup {e} /\ Put(e)
          /\ UNCHANGED <<subscribers, putting, stored, worker, attempts, skipped>>
      BY <1>8 DEF PublishAccepted, workVars, deliveryVars
    <2>2. ~Queued(e)
      BY <2>1 DEF OnePlace
    <2>3. \A f \in Event : Queued(f)' <=> Queued(f) \/ f = e
      BY <2>1, <2>2, PutPlaces
    <2>4. \A f \in Event : Suspended(f)' <=> Suspended(f)
      BY <2>1 DEF Suspended
    <2>5. Untouched'
      BY <2>1, <2>3, <2>4 DEF DeliveryInv, Untouched
    <2> QED
      BY <2>1, <2>5, OnTheWay
  <1>9. ASSUME NEW b \in Publisher, NEW e \in Event, PublishBlocks(b, e)
        PROVE  DeliveryInv'
    <2>1. /\ e \notin offered /\ offered' = offered \cup {e}
          /\ putting' = [putting EXCEPT ![b] = e]
          /\ UNCHANGED <<subscribers, queue, stored, worker, attempts, skipped>>
      BY <1>9 DEF PublishBlocks, workVars, deliveryVars
    <2>2. \A f \in Event : /\ Suspended(f)' => Suspended(f) \/ f = e
                           /\ Queued(f)' <=> Queued(f)
      BY <2>1 DEF Suspended, Queued, TypeOK
    <2>3. Untouched'
      BY <2>1, <2>2 DEF DeliveryInv, Untouched
    <2> QED
      BY <2>1, <2>3, OnTheWay
  <1>10. ASSUME NEW b \in Publisher, PutResumes(b)
         PROVE  DeliveryInv'
    <2> DEFINE e == putting[b]
    <2>1. /\ e \in Event /\ Put(e) /\ offered' = offered
          /\ putting' = [putting EXCEPT ![b] = NoEvent]
          /\ UNCHANGED <<subscribers, stored, worker, attempts, skipped>>
      BY <1>10 DEF PutResumes, TypeOK, workVars, deliveryVars
    <2>2. Suspended(e)
      BY DEF Suspended
    <2>3. ~Queued(e)
      BY <2>1, <2>2 DEF OnePlace
    <2>4. \A f \in Event : Suspended(f)' => Suspended(f)
      BY <2>1, NoneAssumption DEF Suspended, TypeOK
    <2> HIDE DEF e
    <2>5. \A f \in Event : Queued(f)' <=> Queued(f) \/ f = e
      BY <2>1, <2>3, PutPlaces
    <2>6. Untouched'
      BY <2>1, <2>2, <2>4, <2>5 DEF DeliveryInv, Untouched
    <2> QED
      BY <2>1, <2>6, OnTheWay
  <1>11. ASSUME NEW w \in Worker, Get(w)
         PROVE  DeliveryInv'
    <2> DEFINE p == PartitionOf(w)
               e == Head(queue[p])
               s == Deliver(e, 1)
    <2>1. /\ p \in Partition /\ queue[p] \in Seq(Event) /\ queue[p] # <<>>
          /\ e \in Event /\ e = queue[p][1] /\ 1 \in DOMAIN queue[p]
      BY <1>11 DEF Get, TypeOK, PartitionOf, Worker
    <2>2. s \in WorkerState /\ s.event = e /\ (s.pc = "delivering" => s.handler \in Handler)
      BY <2>1, DeliverType
    <2>3. Move(w, s) /\ UNCHANGED <<subscribers, putting, offered, stored, skipped>>
      BY <1>11 DEF Get, publishVars
    <2>4. \A q \in Partition : \A i \in DOMAIN queue'[q] :
            IF q = p THEN i + 1 \in DOMAIN queue[p] /\ queue'[p][i] = queue[p][i + 1] /\ i \in Nat \ {0}
                     ELSE i \in DOMAIN queue[q] /\ queue'[q][i] = queue[q][i]
      BY <1>11, <2>1 DEF Get, TypeOK
    <2>5. Queued(e)
      BY <2>1 DEF Queued
    <2>6. ~Suspended(e) /\ ~Held(e) /\ ~Kept(e) /\ e \in offered
      BY <2>1, <2>5 DEF OnePlace, Ended
    <2> HIDE DEF p, e
    <2>7. \A f \in Event : Queued(f)' => Queued(f) /\ f # e
      <3> SUFFICES ASSUME NEW f \in Event, NEW q \in Partition, NEW i \in DOMAIN queue'[q],
                          queue'[q][i] = f
                   PROVE  Queued(f) /\ f # e
        BY DEF Queued
      <3>1. CASE q = p
        <4>1. i + 1 \in DOMAIN queue[p] /\ queue[p][i + 1] = f /\ i + 1 # 1
          BY <2>4, <3>1
        <4>2. f # e
          BY <2>1, <4>1 DEF OneCopy
        <4> QED
          BY <2>1, <4>1, <4>2 DEF Queued
      <3>2. CASE q # p
        <4>1. i \in DOMAIN queue[q] /\ queue[q][i] = f
          BY <2>4, <3>2
        <4>2. f # e
          BY <2>1, <3>2, <4>1 DEF OneCopy
        <4> QED
          BY <4>1, <4>2 DEF Queued
      <3> QED
        BY <3>1, <3>2
    <2>8. /\ worker'[w] = s /\ \A v \in Worker \ {w} : worker'[v] = worker[v]
          /\ \A f \in Event \ {e} : attempts'[f] = attempts[f]
      <3> HIDE DEF s
      <3> QED
        BY <2>1, <2>2, <2>3, MoveCalls
    <2>9. Untouched'
      <3>1. \A f \in Event : Suspended(f)' <=> Suspended(f)
        BY <2>3 DEF Suspended
      <3> QED
        BY <2>3, <2>6, <2>7, <2>8, <3>1 DEF DeliveryInv, Untouched
    <2>10. Progress(w)'
      <3>1. \A h \in Handler : attempts[e][h] = 0
        BY <2>1, <2>5 DEF DeliveryInv, Untouched
      <3>2. \A j \in DOMAIN subscribers[e.type] :
              j \in Nat \ {0} /\ subscribers[e.type][j] \in Handler
        BY <2>1, AssumedTypes DEF TypeOK
      <3>3. \A j \in DOMAIN subscribers[e.type] : subscribers[e.type][j] \notin Dynamic =>
              /\ j < 1 => Reached(e, subscribers[e.type][j])
              /\ j >= 1 => attempts[e][subscribers[e.type][j]] = 0
        BY <3>1, <3>2
      <3> QED
        BY <2>1, <2>3, <3>3, DeliverProgress DEF DeliveryInv
    <2>11. \A v \in Worker \ {w} : Holding(v) => worker[v].event # e
      BY <2>6 DEF Held
    <2>12. /\ \A v \in Worker \ {w} : Progress(v)'
           /\ \A f \in Event : Kept(f)' => Delivered(f)'
      BY <2>1, <2>3, <2>6, <2>8, <2>11, OthersProgress
    <2> QED
      BY <2>3, <2>9, <2>10, <2>12 DEF DeliveryInv, Lists
  <1>12. ASSUME NEW w \in Worker, HandlerReturns(w) \/ HandlerFails(w)
         PROVE  DeliveryInv'
    <2> DEFINE e == worker[w].event
               next == Deliver(e, worker[w].index + 1)
               again == [worker[w] EXCEPT !.attempt = @ + 1]
    <2>1. /\ worker[w].pc = "delivering" /\ Holding(w) /\ e \in Event
          /\ worker[w].handler \in Handler /\ worker[w] \in WorkerState
          /\ worker[w].index \in Nat
      BY <1>12 DEF HandlerReturns, HandlerFails, HoldsEvent, Holding, TypeOK, WorkerState
    <2>2. PICK s \in {next, again} :
            /\ Move(w, s)
            /\ s = next \/ (s = again /\ ~(worker[w].attempt > MaxRetries))
      BY <1>12 DEF HandlerReturns, HandlerFails
    <2>3. next \in WorkerState /\ next.event = e /\ (next.pc = "delivering" => next.handler \in Handler)
      BY <2>1, DeliverType
    <2>4. again \in WorkerState /\ again.event = e /\ again.handler \in Handler /\ again.pc = "delivering"
      BY <2>1 DEF WorkerState
    <2>5. next.pc \in {"delivering", "appending"}
      BY DEF Deliver
    <2> HIDE DEF next, again, e
    <2>6. /\ worker'[w] = s /\ \A v \in Worker \ {w} : worker'[v] = worker[v]
          /\ \A f \in Event \ {e} : attempts'[f] = attempts[f]
      <3>1. /\ s \in WorkerState /\ s.event = e /\ e \in Event
            /\ s.pc = "delivering" => s.handler \in Handler
        BY <2>1, <2>2, <2>3, <2>4
      <3> QED
        BY <2>2, <3>1, MoveCalls
    <2>7. UNCHANGED <<subscribers, queue, putting, offered, stored, skipped>>
      BY <1>12 DEF HandlerReturns, HandlerFails, publishVars
    <2>8. Held(e) /\ ~Kept(e) /\ ~Queued(e) /\ ~Suspended(e) /\ e \in offered
      <3>1. Held(e)
        BY <2>1 DEF Held, e
      <3> QED
        BY <2>1, <3>1 DEF OnePlace, Ended
    <2>9. Untouched'
      <3>1. \A f \in Event : /\ Suspended(f)' <=> Suspended(f)
                             /\ Queued(f)' <=> Queued(f)
        BY <2>7 DEF Suspended, Queued
      <3> QED
        BY <2>6, <2>7, <2>8, <3>1 DEF DeliveryInv, Untouched
    <2>10. Progress(w)
      BY DEF DeliveryInv
    <2>11. Progress(w)'
      <3>1. CASE s = next
        <4> DEFINE i == worker[w].index
                   l == subscribers[e.type]
        <4>1. /\ i \in Nat /\ GotTo(e, l, i, worker[w].handler)
              /\ \A j \in DOMAIN l : j \in Nat
          BY <2>1, <2>10, AssumedTypes DEF Progress, TypeOK, e
        <4> HIDE DEF i, l
        <4>2. \A j \in DOMAIN l : l[j] \notin Dynamic =>
                /\ j < i + 1 => Reached(e, l[j])
                /\ j >= i + 1 => attempts[e][l[j]] = 0
          BY <4>1 DEF GotTo
        <4>3. Move(w, Deliver(e, i + 1)) /\ i + 1 \in Nat \ {0}
          BY <2>2, <3>1, <4>1 DEF next, i
        <4> QED
          BY <2>1, <2>7, <4>2, <4>3, DeliverProgress DEF DeliveryInv, l
      <3>2. CASE s # next
        <4>1. s = [worker[w] EXCEPT !.attempt = @ + 1] /\ ~(worker[w].attempt > MaxRetries)
          BY <2>2, <3>2 DEF again
        <4> QED
          BY <2>1, <2>2, <2>7, <2>10, <4>1, RetryProgress
      <3> QED
        BY <3>1, <3>2
    <2>12. \A v \in Worker \ {w} : Holding(v) => worker[v].event # e
      BY <2>1 DEF OneCopy, e
    <2>13. /\ \A v \in Worker \ {w} : Progress(v)'
           /\ \A f \in Event : Kept(f)' => Delivered(f)'
      BY <2>1, <2>6, <2>7, <2>8, <2>12, OthersProgress
    <2> QED
      BY <2>7, <2>9, <2>11, <2>13 DEF DeliveryInv, Lists
  <1>13. ASSUME NEW w \in Worker, EventStored(w) \/ StoreFails(w)
         PROVE  DeliveryInv'
    <2> DEFINE e == worker[w].event
               p == PartitionOf(w)
    <2>1. /\ worker[w].pc = "appending" /\ Holding(w) /\ e \in Event /\ p \in Partition
          /\ worker' = [worker EXCEPT ![w] = Loop(w)]
          /\ UNCHANGED <<subscribers, queue, putting, offered, attempts, skipped>>
      BY <1>13 DEF EventStored, StoreFails, HoldsEvent, Holding, PartitionOf, Worker, publishVars
    <2>2. Loop(w).pc \in {"getting", "exited"}
      BY DEF Loop, Waiting, Exited, Idle
    <2>3. \A v \in Worker : Holding(v)' => Holding(v) /\ worker'[v] = worker[v]
      <3>1. ~Holding(w)' /\ \A v \in Worker \ {w} : worker'[v] = worker[v]
        BY <2>1, <2>2 DEF Holding, TypeOK
      <3> QED
        BY <3>1 DEF Holding
    <2>4. CASE StoreFails(w)
      BY <2>1, <2>3, <2>4, GivingUp DEF StoreFails
    <2>5. CASE EventStored(w)
      <3>1. \A f \in Event : Kept(f)' => Kept(f) \/ f = e
        <4>1. stored' = [stored EXCEPT ![p] = Append(@, e)] /\ stored[p] \in Seq(Event)
          BY <2>1, <2>5 DEF EventStored, TypeOK
        <4>2. /\ \A i \in DOMAIN stored'[p] : stored'[p][i] = e \/
                   (i \in DOMAIN stored[p] /\ stored'[p][i] = stored[p][i])
              /\ \A q \in Partition \ {p} : stored'[q] = stored[q]
          BY <2>1, <4>1 DEF TypeOK
        <4> QED
          BY <4>2 DEF Kept
      <3>2. \A f \in Event : /\ Suspended(f)' <=> Suspended(f)
                             /\ Queued(f)' <=> Queued(f)
        BY <2>1 DEF Suspended, Queued
      <3>3. Lists' /\ Untouched'
        BY <2>1, <3>2 DEF DeliveryInv, Lists, Untouched
      <3>4. ASSUME NEW v \in Worker PROVE Progress(v)'
        <4>1. CASE Holding(v)'
          <5>1. worker'[v] = worker[v] /\ Progress(v)
            BY <2>3, <4>1 DEF DeliveryInv
          <5> QED
            BY <2>1, <5>1, SameProgress
        <4>2. CASE ~Holding(v)'
          BY <4>2 DEF Progress, Holding
        <4> QED
          BY <4>1, <4>2
      <3>5. Delivered(e)
        <4>1. \A j \in DOMAIN subscribers[e.type] :
                subscribers[e.type][j] \notin Dynamic => Reached(e, subscribers[e.type][j])
          BY <2>1 DEF DeliveryInv, Progress
        <4>2. ListOf(subscribers[e.type], e.type)
          BY <2>1, AssumedTypes DEF DeliveryInv, Lists
        <4> HIDE DEF e
        <4> QED
          BY <4>1, <4>2 DEF Delivered, ListOf
      <3> HIDE DEF e, p
      <3>6. \A f \in Event : Kept(f)' => Delivered(f)
        BY <3>1, <3>5 DEF DeliveryInv
      <3>7. \A f \in Event : Kept(f)' => Delivered(f)'
        BY <2>1, <3>6 DEF Delivered, Reached
      <3> QED
        BY <3>3, <3>4, <3>7 DEF DeliveryInv
    <2> QED
      BY <1>13, <2>4, <2>5
  <1> QED
    BY <1>1, <1>2, <1>3, <1>4, <1>5, <1>6, <1>7, <1>8, <1>9, <1>10, <1>11, <1>12, <1>13
    DEF Next, WorkerStep

(* An event is stored only after every handler that stays was called with   *)
(* it (event_bus.py:183), except one that an unsubscribe moved past the     *)
(* iterator, and none more often than the retry limit allows (:245),        *)
(* whatever handlers come and go between them.                              *)
THEOREM BusStoredAfterDelivery == PermanentOnce /\ Spec => []StoredAfterDelivery
  <1> SUFFICES ASSUME PermanentOnce PROVE Spec => []StoredAfterDelivery
    OBVIOUS
  <1>1. Init => DeliveryInv
    <2> SUFFICES ASSUME Init PROVE DeliveryInv
      OBVIOUS
    <2>1. \A w \in Worker : worker[w].pc = "unborn"
      BY DEF Init, Idle
    <2>2. \A e \in Event : ~Kept(e)
      BY DEF Init, Kept
    <2>3. Lists
      BY DEF Init, Lists, ListOf, PermanentOnce
    <2>4. Untouched
      BY DEF Init, Untouched
    <2>5. \A w \in Worker : Progress(w)
      BY <2>1 DEF Progress
    <2> QED
      BY <2>2, <2>3, <2>4, <2>5 DEF DeliveryInv
  <1>2. TypeOK /\ DeliveryInv => StoredAfterDelivery
    <2> SUFFICES ASSUME TypeOK, DeliveryInv, NEW p \in Partition, NEW i \in DOMAIN stored[p]
                 PROVE  Delivered(stored[p][i])
      BY DEF StoredAfterDelivery, Delivered, Reached
    <2>1. stored[p][i] \in Event /\ Kept(stored[p][i])
      BY DEF TypeOK, Kept
    <2> QED
      BY <2>1 DEF DeliveryInv
  <1> QED
    BY <1>1, <1>2, PlacesInv, DeliveryStep, PTL DEF Spec

-----------------------------------------------------------------------------
(* A running bus has for every partition a worker that lives and that       *)
(* nobody has cancelled, also when start() has overtaken a pending stop():  *)
(* nothing queued, and no publisher that waits for room, waits for nobody   *)
(* (event_bus.py:178-202: only a cancellation ends the loop of a worker     *)
(* while the bus runs).                                                     *)
PartitionsServed ==
  running => \A p \in Partition : \E w \in Worker :
    PartitionOf(w) = p /\ Live(w) /\ w \notin cancelled

(* They are the workers of the last start().                                *)
LastStartServes ==
  running => \A p \in Partition :
    <<starts, p>> \in Worker /\ Live(<<starts, p>>) /\ <<starts, p>> \notin cancelled

(* Only a cancellation ends a worker, and only start() makes one.            *)
LEMMA ServesStep ==
  ASSUME TypeOK, LossInv, LastStartServes, [Next]_vars
  PROVE  LastStartServes'
  (* A step that ends no worker and leaves start() and stop() alone. *)
  <1>1. ASSUME UNCHANGED lifecycleVars,
               running => \A w \in Worker : Live(w) => Live(w)'
        PROVE  LastStartServes'
    BY <1>1 DEF LastStartServes, lifecycleVars
  <1>2. CASE Start
    <2> DEFINE spawned == {starts + 1} \X Partition
    <2>1. starts + 1 \in 1 .. MaxStarts /\ starts + 1 > starts
      BY <1>2, BusAssumption DEF Start, TypeOK
    <2>2. \A p \in Partition : <<starts + 1, p>> \in Worker /\ worker'[<<starts + 1, p>>] = Waiting
      BY <1>2, <2>1 DEF Start, Worker
    <2>3. \A p \in Partition : worker[<<starts + 1, p>>].pc = "unborn"
      BY <2>1, <2>2 DEF LossInv
    <2>4. \A p \in Partition : <<starts + 1, p>> \notin cancelled
      BY <2>3 DEF LossInv, Live
    <2>5. starts' = starts + 1 /\ cancelled' = cancelled
      BY <1>2 DEF Start
    <2> QED
      BY <2>2, <2>4, <2>5 DEF LastStartServes, Live, Waiting, Idle
  <1>3. CASE StopBegin
    BY <1>3 DEF StopBegin, LastStartServes
  <1>4. CASE StopEnd
    BY <1>4 DEF StopEnd, LastStartServes, Live, workVars
  <1>5. ASSUME NEW w \in Worker, WorkerCancelled(w)
        PROVE  LastStartServes'
    <2>1. \A v \in Worker \ {w} : worker'[v] = worker[v]
      BY <1>5 DEF WorkerCancelled, TypeOK
    <2>2. w \in cancelled /\ cancelled' = cancelled \ {w} /\ running' = running /\ starts' = starts
      BY <1>5 DEF WorkerCancelled
    <2> QED
      BY <2>1, <2>2 DEF LastStartServes, Live
  <1>5a. ASSUME NEW w \in Worker, HandlerSwallowsCancel(w)
         PROVE  LastStartServes'
    BY <1>5a DEF HandlerSwallowsCancel, LastStartServes, Live, workVars
  <1>6. ASSUME NEW w \in Worker, WorkerStep(w)
        PROVE  LastStartServes'
    <2>1. UNCHANGED lifecycleVars
      BY <1>6 DEF WorkerStep, Get, HandlerReturns, HandlerFails, EventStored, StoreFails
    <2>2. \A v \in Worker \ {w} : worker'[v] = worker[v]
      BY <1>6 DEF WorkerStep, Get, HandlerReturns, HandlerFails, EventStored,
                  StoreFails, Move, TypeOK
    <2>3. ASSUME running PROVE Live(w)'
      <3>1. CASE EventStored(w) \/ StoreFails(w)
        <4>1. worker'[w] = Waiting
          BY <2>3, <3>1 DEF EventStored, StoreFails, Loop, TypeOK
        <4> QED
          BY <4>1 DEF Live, Waiting, Idle
      <3>2. CASE Get(w) \/ HandlerReturns(w) \/ HandlerFails(w)
        <4>1. \A e, i : Deliver(e, i).pc \in {"delivering", "appending"}
          BY DEF Deliver
        <4>2. ASSUME HandlerFails(w), worker[w].attempt <= MaxRetries
              PROVE  worker'[w] = [worker[w] EXCEPT !.attempt = @ + 1] /\ worker[w].pc = "delivering"
          <5>1. worker[w].attempt \in Nat /\ MaxRetries \in Nat
            BY BusAssumption DEF TypeOK, WorkerState
          <5> QED
            BY <4>2, <5>1 DEF HandlerFails, Move, TypeOK
        <4>3. ASSUME HandlerFails(w), ~(worker[w].attempt <= MaxRetries)
              PROVE  worker'[w] = Deliver(worker[w].event, worker[w].index + 1)
          <5>1. worker[w].attempt \in Nat /\ MaxRetries \in Nat
            BY BusAssumption DEF TypeOK, WorkerState
          <5> QED
            BY <4>3, <5>1 DEF HandlerFails, Move, TypeOK
        <4>4. worker[w] \in WorkerState
          BY DEF TypeOK
        <4>5. CASE Get(w) \/ HandlerReturns(w)
          BY <4>1, <4>5 DEF Get, HandlerReturns, Move, TypeOK, Live
        <4> QED
          BY <3>2, <4>1, <4>2, <4>3, <4>4, <4>5 DEF Live, WorkerState
      <3> QED
        BY <1>6, <3>1, <3>2 DEF WorkerStep
    <2> QED
      BY <1>1, <2>1, <2>2, <2>3 DEF Live
  <1>7. ASSUME UNCHANGED <<lifecycleVars, worker>>
        PROVE  LastStartServes'
    BY <1>1, <1>7 DEF Live
  <1>8. ASSUME NEW b \in Publisher, NEW e \in Event,
               PublishRejected(b, e) \/ PublishAccepted(b, e) \/ PublishBlocks(b, e) \/ PutResumes(b)
        PROVE  LastStartServes'
    BY <1>7, <1>8 DEF PublishRejected, PublishAccepted, PublishBlocks, PutResumes, workVars
  <1>9. ASSUME NEW t \in EventType, NEW h \in Handler, Subscribe(t, h) \/ Unsubscribe(t, h)
        PROVE  LastStartServes'
    BY <1>7, <1>9 DEF Subscribe, Unsubscribe, workVars
  <1>10. ASSUME NEW b \in Publisher, PutResumes(b)
         PROVE  LastStartServes'
    BY <1>7, <1>10 DEF PutResumes, workVars
  <1>11. CASE UNCHANGED vars
    BY <1>7, <1>11 DEF vars, lifecycleVars
  <1> QED
    BY <1>2, <1>3, <1>4, <1>5, <1>5a, <1>6, <1>8, <1>9, <1>10, <1>11 DEF Next

(* What a liveness property of the bus rests on, for any number of          *)
(* partitions, starts and stops: while the bus runs, every partition has a  *)
(* worker that will take its events.                                        *)
THEOREM BusPartitionsServed == Spec => []PartitionsServed
  <1>1. Init => LastStartServes
    BY DEF Init, LastStartServes
  <1>2. LastStartServes => PartitionsServed
    BY DEF LastStartServes, PartitionsServed, PartitionOf
  <1>3. Spec => [](TypeOK /\ HoldsEvent)
    BY InitType, TypeStep, PTL DEF Spec
  <1>4. TypeOK /\ LossInv /\ LastStartServes /\ [Next]_vars => LastStartServes'
    BY ServesStep
  <1> QED
    BY <1>1, <1>2, <1>3, <1>4, LossInit, LossStep, PTL DEF Spec

=============================================================================
