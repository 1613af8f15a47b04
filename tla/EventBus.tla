------------------------------- MODULE EventBus -------------------------------
(***************************************************************************)
(* The partitioned asyncio event bus of qtrader/core/event_bus.py, with    *)
(* the routing of partition_manager.py and the load shedding of            *)
(* backpressure_controller.py.                                             *)
(*                                                                         *)
(* A coroutine runs without interruption between two awaits, so an action  *)
(* is what one coroutine does from one suspension point to the next.       *)
(***************************************************************************)
EXTENDS Integers, Sequences, FiniteSets

CONSTANTS
  Event,              \* the events producers may publish, each at most once
  Publisher,          \* coroutines that call publish()
  Handler,            \* subscriber callbacks
  NumPartitions,      \* PartitionManager.num_partitions
  Hash,               \* md5 of a partition key, as a natural number
  Capacity,           \* asyncio.Queue(maxsize)
  WarningThreshold, ThrottleThreshold,
  MaxRetries,         \* redeliveries of one handler call
  InitialSubscribers, \* event type -> handlers subscribed before start()
  Dynamic,            \* handlers that may (un)subscribe while the bus runs
  MaxStarts,          \* bound: how often start() is called
  OverlapLifecycle    \* TRUE: start() may be called while a stop() is pending

Partition == 0 .. NumPartitions - 1
EventType == {e.type : e \in Event}

(* PartitionManager.get_partition_key: symbol, else order id, else default. *)
PartitionKey(e) ==
  CASE e.symbol # ""                    -> e.symbol
    [] e.symbol = "" /\ e.order_id # "" -> e.order_id
    [] OTHER                            -> "system_default"

PartitionIndex(e) == Hash[PartitionKey(e)] % NumPartitions

ASSUME BusAssumption ==
  /\ NumPartitions \in Nat \ {0}
  /\ Capacity \in Nat \ {0}
  /\ WarningThreshold \in Nat /\ ThrottleThreshold \in Nat
  /\ MaxRetries \in Nat
  /\ MaxStarts \in Nat
  /\ OverlapLifecycle \in BOOLEAN
  /\ Dynamic \subseteq Handler
  /\ \A e \in Event : PartitionIndex(e) \in Partition
  /\ InitialSubscribers \in [EventType -> Seq(Handler)]

NoEvent == [type |-> "none"]
NoHandler == "no handler"
ASSUME NoneAssumption == NoEvent \notin Event /\ NoHandler \notin Handler

-----------------------------------------------------------------------------
(* BackpressureController *)

CriticalTypes ==
  {"ORDER", "FILL", "RISK", "SIGNAL", "GAP_DETECTED", "SYSTEM", "ERROR"}
LowPriorityTypes == {"HEARTBEAT", "CLOCK_SYNC", "FEEDBACK_UPDATE", "DRIFT"}

Priority(type) ==
  CASE type \in CriticalTypes                    -> "CRITICAL"
    [] type \in LowPriorityTypes \ CriticalTypes -> "LOW"
    [] OTHER                                     -> "NORMAL"

ShouldDrop(size, type) ==
  \/ Priority(type) = "LOW" /\ size > WarningThreshold
  \/ Priority(type) = "NORMAL" /\ size > ThrottleThreshold

-----------------------------------------------------------------------------
(* One worker task per call of start() and partition. *)
Worker == (1 .. MaxStarts) \X Partition
PartitionOf(w) == w[2]

WorkerState ==
  [pc : {"unborn", "getting", "delivering", "appending", "exited"},
   event : Event \cup {NoEvent},
   handler : Handler \cup {NoHandler},   \* the handler being called
   index : Nat,          \* position in the live subscriber list
   attempt : Nat]        \* attempt of the current handler call

VARIABLES
  running,      \* _running
  subscribers,  \* _subscribers
  queue,        \* _queues
  putting,      \* the event a publisher is suspended on in queue.put()
  worker,       \* the state of each worker task
  tasks,        \* _worker_tasks
  cancelled,    \* workers with a cancellation still to be thrown
  stopping,     \* per suspended stop(), the tasks its gather() waits for
  starts,       \* calls of start() so far
  \* history
  offered,      \* events some publish() was called with
  accepted,     \* per partition, events in the order put() completed
  stored,       \* per partition, the events in the event store
  attempts,     \* calls of each permanent handler with each event
  skipped,      \* permanent handlers that an unsubscribe moved to a place
                \* the worker with the event had already passed
  lost,         \* events a cancelled worker had taken from its queue
  unstored      \* events the event store refused

vars == <<running, subscribers, queue, putting, worker, tasks, cancelled,
          stopping, starts, offered, accepted, stored, attempts, skipped, lost,
          unstored>>

lifecycleVars == <<running, tasks, cancelled, stopping, starts>>
publishVars == <<putting, offered, accepted>>
deliveryVars == <<stored, attempts, skipped, unstored>>
workVars == <<worker, deliveryVars, lost>>

(* Mutant: the attempt counter starts one too low. *)
IdleLow(pc) == [pc |-> pc, event |-> NoEvent, handler |-> NoHandler,
                index |-> 0, attempt |-> -1]

Idle(pc) == [pc |-> pc, event |-> NoEvent, handler |-> NoHandler,
             index |-> 0, attempt |-> 0]
Waiting == Idle("getting")
Exited == Idle("exited")

Init ==
  /\ running = FALSE
  /\ subscribers = InitialSubscribers
  /\ queue = [p \in Partition |-> <<>>]
  /\ putting = [b \in Publisher |-> NoEvent]
  /\ worker = [w \in Worker |-> Idle("unborn")]
  /\ tasks = {}
  /\ cancelled = {}
  /\ stopping = {}
  /\ starts = 0
  /\ offered = {}
  /\ accepted = [p \in Partition |-> <<>>]
  /\ stored = [p \in Partition |-> <<>>]
  /\ attempts = [e \in Event |-> [h \in Handler |-> 0]]
  /\ skipped = [e \in Event |-> {}]
  /\ lost = {} /\ unstored = {}

-----------------------------------------------------------------------------
(* start() and stop() *)

Start ==
  /\ ~running
  /\ stopping # {} => OverlapLifecycle
  /\ starts < MaxStarts
  /\ LET spawned == {starts + 1} \X Partition IN
       /\ worker' = [w \in Worker |-> IF w \in spawned THEN Waiting ELSE worker[w]]
       /\ tasks' = tasks \cup spawned
  /\ running' = TRUE
  /\ starts' = starts + 1
  /\ UNCHANGED <<subscribers, queue, cancelled, stopping, publishVars,
                 deliveryVars, lost>>

Live(w) == worker[w].pc \notin {"unborn", "exited"}

(* stop() up to the await of gather(): every registered task is cancelled.  *)
(* Without a registered task there is nothing to gather and no await.       *)
StopBegin ==
  /\ running
  /\ running' = FALSE
  /\ cancelled' = cancelled \cup {w \in tasks : Live(w)}
  /\ stopping' = IF tasks = {} THEN stopping ELSE stopping \cup {tasks}
  /\ UNCHANGED <<subscribers, queue, tasks, starts, publishVars, workVars>>

(* Mutant: a cancelled worker drops its whole queue. *)
CancelDrains(w) ==
  /\ w \in cancelled
  /\ cancelled' = cancelled \ {w}
  /\ worker' = [worker EXCEPT ![w] = Exited]
  /\ queue' = [queue EXCEPT ![PartitionOf(w)] = <<>>]
  /\ lost' = lost \cup ({worker[w].event} \ {NoEvent})
            \cup {queue[PartitionOf(w)][i] : i \in DOMAIN queue[PartitionOf(w)]}
  /\ UNCHANGED <<running, subscribers, tasks, stopping, starts,
                 publishVars, deliveryVars>>

(* Mutant: a worker that waits for an event misses its cancellation. *)
CancelledInDelivery(w) ==
  /\ w \in cancelled /\ worker[w].pc # "getting"
  /\ cancelled' = cancelled \ {w}
  /\ worker' = [worker EXCEPT ![w] = Exited]
  /\ lost' = lost \cup ({worker[w].event} \ {NoEvent})
  /\ UNCHANGED <<running, subscribers, queue, tasks, stopping, starts,
                 publishVars, deliveryVars>>

(* CancelledError leaves the worker's loop, wherever it is suspended; an    *)
(* event it holds is neither stored nor put back.                          *)
WorkerCancelled(w) ==
  /\ w \in cancelled
  /\ cancelled' = cancelled \ {w}
  /\ worker' = [worker EXCEPT ![w] = Exited]
  /\ lost' = lost \cup ({worker[w].event} \ {NoEvent})
  /\ UNCHANGED <<running, subscribers, queue, tasks, stopping, starts,
                 publishVars, deliveryVars>>

(* The handler catches the CancelledError and runs on: the worker goes on   *)
(* with its event and leaves the loop, if ever, at its head.                *)
HandlerSwallowsCancel(w) ==
  /\ w \in cancelled /\ worker[w].pc = "delivering"
  /\ cancelled' = cancelled \ {w}
  /\ UNCHANGED <<running, subscribers, queue, tasks, stopping, starts,
                 publishVars, workVars>>

(* Mutant: stop() does not wait for its tasks. *)
StopEndEarly ==
  \E gathered \in stopping :
    /\ stopping' = stopping \ {gathered}
    /\ tasks' = {}
    /\ UNCHANGED <<running, subscribers, queue, cancelled, starts, publishVars,
                   workVars>>

(* One gather() has returned: that stop() forgets every registered task,    *)
(* also those a start() has added meanwhile.                                *)
StopEnd ==
  \E gathered \in stopping :
    /\ \A w \in gathered : ~Live(w)
    /\ stopping' = stopping \ {gathered}
    /\ tasks' = {}
    /\ UNCHANGED <<running, subscribers, queue, cancelled, starts, publishVars,
                   workVars>>

-----------------------------------------------------------------------------
(* publish() *)

(* Mutant: critical events jump the queue. *)
PutUrgent(e) ==
  /\ queue' = [queue EXCEPT ![PartitionIndex(e)] =
                 IF Priority(e.type) = "CRITICAL" THEN <<e>> \o @ ELSE Append(@, e)]
  /\ accepted' = [accepted EXCEPT ![PartitionIndex(e)] = Append(@, e)]

Put(e) ==
  /\ queue' = [queue EXCEPT ![PartitionIndex(e)] = Append(@, e)]
  /\ accepted' = [accepted EXCEPT ![PartitionIndex(e)] = Append(@, e)]

Full(p) == Len(queue[p]) >= Capacity

(* publish() returns FALSE: the bus is stopped, or the event is shed. *)
PublishRejected(b, e) ==
  /\ e \notin offered /\ putting[b] = NoEvent
  /\ ~running \/ ShouldDrop(Len(queue[PartitionIndex(e)]), e.type)
  /\ offered' = offered \cup {e}
  /\ UNCHANGED <<subscribers, queue, putting, accepted, lifecycleVars, workVars>>

PublishAccepted(b, e) ==
  /\ e \notin offered /\ putting[b] = NoEvent
  /\ running /\ ~ShouldDrop(Len(queue[PartitionIndex(e)]), e.type)
  /\ ~Full(PartitionIndex(e))
  /\ offered' = offered \cup {e}
  /\ Put(e)
  /\ UNCHANGED <<subscribers, putting, lifecycleVars, workVars>>

(* Queue.put() does not raise QueueFull: the publisher waits for room. *)
PublishBlocks(b, e) ==
  /\ e \notin offered /\ putting[b] = NoEvent
  /\ running /\ ~ShouldDrop(Len(queue[PartitionIndex(e)]), e.type)
  /\ Full(PartitionIndex(e))
  /\ offered' = offered \cup {e}
  /\ putting' = [putting EXCEPT ![b] = e]
  /\ UNCHANGED <<subscribers, queue, accepted, lifecycleVars, workVars>>

(* A waiting put() finds room. asyncio wakes one waiter per free slot, and  *)
(* a waiter overtaken by a direct put queues up again: any waiter may win.  *)
(* _running is not read again.                                             *)
PutResumes(b) ==
  /\ putting[b] # NoEvent
  /\ ~Full(PartitionIndex(putting[b]))
  /\ Put(putting[b])
  /\ putting' = [putting EXCEPT ![b] = NoEvent]
  /\ UNCHANGED <<subscribers, offered, lifecycleVars, workVars>>

-----------------------------------------------------------------------------
(* _partition_worker() and _safe_deliver() *)

(* Mutant: the worker ends after one event. *)
LoopOnce(w) == Exited

(* The worker after its event is done with: the head of `while _running`. *)
Loop(w) == IF running THEN Waiting ELSE Exited

(* The worker with event e when its iterator over the live subscriber list  *)
(* reaches position i: it calls the handler there, or has run off the end.  *)
Deliver(e, i) ==
  IF i \in DOMAIN subscribers[e.type]
  THEN [pc |-> "delivering", event |-> e, handler |-> subscribers[e.type][i],
        index |-> i, attempt |-> 1]
  ELSE [pc |-> "appending", event |-> e, handler |-> NoHandler,
        index |-> i, attempt |-> 0]

(* w moves to state s; entering "delivering" is one call of s.handler.      *)
Move(w, s) ==
  /\ worker' = [worker EXCEPT ![w] = s]
  /\ attempts' = IF s.pc = "delivering" /\ s.handler \notin Dynamic
                 THEN [attempts EXCEPT ![s.event][s.handler] = @ + 1]
                 ELSE attempts

Get(w) ==
  /\ worker[w].pc = "getting" /\ w \notin cancelled
  /\ queue[PartitionOf(w)] # <<>>
  /\ Move(w, Deliver(Head(queue[PartitionOf(w)]), 1))
  /\ queue' = [queue EXCEPT ![PartitionOf(w)] = Tail(@)]
  /\ UNCHANGED <<subscribers, lifecycleVars, publishVars, stored, skipped,
                 lost, unstored>>

HandlerReturns(w) ==
  /\ worker[w].pc = "delivering" /\ w \notin cancelled
  /\ Move(w, Deliver(worker[w].event, worker[w].index + 1))
  /\ UNCHANGED <<subscribers, queue, lifecycleVars, publishVars, stored, skipped,
                 lost, unstored>>

(* Mutant: a handler that gave up ends the delivery to the others. *)
HandlerAborts(w) ==
  /\ worker[w].pc = "delivering" /\ w \notin cancelled
  /\ Move(w, IF worker[w].attempt > MaxRetries
             THEN [worker[w] EXCEPT !.pc = "appending", !.handler = NoHandler]
             ELSE [worker[w] EXCEPT !.attempt = @ + 1])
  /\ UNCHANGED <<subscribers, queue, lifecycleVars, publishVars, stored, skipped,
                 lost, unstored>>

(* An exception or a timeout: the same handler again, at once, until its    *)
(* attempts are used up; then the next handler.                             *)
HandlerFails(w) ==
  /\ worker[w].pc = "delivering" /\ w \notin cancelled
  /\ Move(w, IF worker[w].attempt > MaxRetries
             THEN Deliver(worker[w].event, worker[w].index + 1)
             ELSE [worker[w] EXCEPT !.attempt = @ + 1])
  /\ UNCHANGED <<subscribers, queue, lifecycleVars, publishVars, stored, skipped,
                 lost, unstored>>

EventStored(w) ==
  /\ worker[w].pc = "appending" /\ w \notin cancelled
  /\ stored' = [stored EXCEPT ![PartitionOf(w)] = Append(@, worker[w].event)]
  /\ worker' = [worker EXCEPT ![w] = Loop(w)]
  /\ UNCHANGED <<subscribers, queue, lifecycleVars, publishVars, attempts,
                 skipped, lost, unstored>>

(* append() raised: logged, and the event is neither stored nor put back. *)
StoreFails(w) ==
  /\ worker[w].pc = "appending" /\ w \notin cancelled
  /\ unstored' = unstored \cup {worker[w].event}
  /\ worker' = [worker EXCEPT ![w] = Loop(w)]
  /\ UNCHANGED <<subscribers, queue, lifecycleVars, publishVars, stored,
                 attempts, skipped, lost>>

-----------------------------------------------------------------------------
(* subscribe() and unsubscribe() change the list a worker iterates over.   *)

Subscribe(t, h) ==
  /\ h \in Dynamic
  /\ \A i \in DOMAIN subscribers[t] : subscribers[t][i] # h
  /\ subscribers' = [subscribers EXCEPT ![t] = Append(@, h)]
  /\ UNCHANGED <<queue, lifecycleVars, publishVars, workVars>>

(* The permanent handlers that a worker with event e is about to call, and  *)
(* steps over when the list loses position i: they move to its own position. *)
PassedOver(t, i, e) ==
  {subscribers[t][worker[w].index + 1] :
     w \in {v \in Worker : /\ worker[v].pc = "delivering"
                           /\ worker[v].event = e /\ e.type = t
                           /\ worker[v].index \in i .. Len(subscribers[t]) - 1}}
  \ Dynamic

Unsubscribe(t, h) ==
  /\ h \in Dynamic
  /\ \E i \in DOMAIN subscribers[t] :
       /\ subscribers[t][i] = h
       /\ \A j \in 1 .. i - 1 : subscribers[t][j] # h
       /\ subscribers' = [subscribers EXCEPT ![t] =
            SubSeq(@, 1, i - 1) \o SubSeq(@, i + 1, Len(@))]
       /\ skipped' = [e \in Event |-> skipped[e] \cup PassedOver(t, i, e)]
  /\ UNCHANGED <<queue, lifecycleVars, publishVars, worker, stored, attempts,
                 lost, unstored>>

-----------------------------------------------------------------------------
WorkerStep(w) ==
  \/ Get(w)
  \/ HandlerReturns(w) \/ HandlerFails(w)
  \/ EventStored(w) \/ StoreFails(w)

Next ==
  \/ Start \/ StopBegin \/ StopEnd
  \/ \E w \in Worker :
       WorkerCancelled(w) \/ HandlerSwallowsCancel(w) \/ WorkerStep(w)
  \/ \E b \in Publisher :
       \/ \E e \in Event :
            PublishRejected(b, e) \/ PublishAccepted(b, e) \/ PublishBlocks(b, e)
       \/ PutResumes(b)
  \/ \E t \in EventType, h \in Handler : Subscribe(t, h) \/ Unsubscribe(t, h)

Spec == Init /\ [][Next]_vars

(* The event loop runs every coroutine that can run: a worker whose handler *)
(* returns or times out, a cancelled task, a stop() whose gather is done.   *)
(* Nothing obliges anyone to call start(), stop() or publish().             *)
Fairness ==
  /\ \A w \in Worker : WF_vars(WorkerStep(w)) /\ WF_vars(WorkerCancelled(w))
  /\ \A b \in Publisher : SF_vars(PutResumes(b))
  /\ WF_vars(StopEnd)

FairSpec == Spec /\ Fairness

-----------------------------------------------------------------------------
(* Type invariant of the bus. *)
TypeOK ==
  /\ running \in BOOLEAN /\ stopping \subseteq SUBSET Worker
  /\ subscribers \in [EventType -> Seq(Handler)]
  /\ queue \in [Partition -> Seq(Event)]
  /\ putting \in [Publisher -> Event \cup {NoEvent}]
  /\ worker \in [Worker -> WorkerState]
  /\ tasks \subseteq Worker /\ cancelled \subseteq Worker
  /\ starts \in 0 .. MaxStarts
  /\ offered \subseteq Event /\ lost \subseteq Event /\ unstored \subseteq Event
  /\ accepted \in [Partition -> Seq(Event)]
  /\ stored \in [Partition -> Seq(Event)]
  /\ attempts \in [Event -> [Handler -> Nat]]
  /\ skipped \in [Event -> SUBSET Handler]

Holding(w) == worker[w].pc \in {"delivering", "appending"}

(* Strict ordering, event_bus.py:28 and :82: no two tasks handle events of  *)
(* one partition at the same time.  Needs every stop() to have cancelled    *)
(* every task of the start() before.                                        *)
SerialPerPartition ==
  \A v, w \in Worker :
    PartitionOf(v) = PartitionOf(w) /\ Holding(v) /\ Holding(w) => v = w

(* Where an accepted event can be. *)
Queued(e) == \E p \in Partition : \E i \in DOMAIN queue[p] : queue[p][i] = e
Held(e) == \E w \in Worker : Holding(w) /\ worker[w].event = e
Kept(e) == \E p \in Partition : \E i \in DOMAIN stored[p] : stored[p][i] = e

Places(e) == <<Queued(e), Held(e), Kept(e), e \in lost, e \in unstored>>
Interrupted(p) == {e \in lost : PartitionIndex(e) = p}

(* No accepted event disappears or is in two places: it is queued, in the   *)
(* hands of one worker, in the event store, was refused by the event store  *)
(* (event_bus.py:190, :201), or was in the hands of a worker that stop()    *)
(* interrupted (event_bus.py:199); and a run of the bus costs a partition   *)
(* at most one event in the last way, whatever overtakes a pending stop().  *)
AcceptedAccounted ==
  /\ \A p \in Partition : \A i \in DOMAIN accepted[p] :
       \E k \in 1 .. 5 : \A j \in 1 .. 5 : Places(accepted[p][i])[j] <=> j = k
  /\ \A p \in Partition : Cardinality(Interrupted(p)) <= starts

(* The queue never outgrows maxsize although publish() tests its length     *)
(* long before a suspended put() adds to it.                                *)
QueueBounded == \A p \in Partition : Len(queue[p]) <= Capacity

(* event_bus.py:183-187: when an event reaches the event store, every       *)
(* subscriber that stays was called with it, though others before it failed *)
(* or came and went, and none more often than the retry limit allows.  The  *)
(* one exception is a subscriber that an unsubscribe, during the delivery   *)
(* of this event, moved to the place the iterator had just passed.          *)
StoredAfterDelivery ==
  \A p \in Partition : \A i \in DOMAIN stored[p] :
    LET e == stored[p][i] IN
    \A j \in DOMAIN InitialSubscribers[e.type] :
      LET h == InitialSubscribers[e.type][j] IN
      h \notin Dynamic =>
        /\ attempts[e][h] <= MaxRetries + 1
        /\ attempts[e][h] = 0 => h \in skipped[e]

(* If the bus stays up, every queued event is taken and finished, and every *)
(* publisher that waits for room gets in, also one that waited through a    *)
(* stop and a start.                                                        *)
QueueDrains ==
  <>[]running => /\ \A p \in Partition : []<>(queue[p] = <<>>)
                 /\ \A b \in Publisher : []<>(putting[b] = NoEvent)

(* stop() returns: every cancelled worker leaves its loop, also one whose   *)
(* handler swallows the cancellation.                                       *)
StopReturns == stopping # {} ~> stopping = {}

(* event_bus.py:99, "Gracefully shutdown all workers": once every stop()    *)
(* has returned and nobody has started the bus again, no worker is left.    *)
AllWorkersShutDown ==
  ~running /\ stopping = {} => \A w \in Worker : ~Live(w)

-----------------------------------------------------------------------------
(* The bus implements a log per partition, with the event in the hands of   *)
(* the partition's worker as the event its single consumer holds.           *)
Current ==
  [p \in Partition |->
    IF \E w \in Worker : PartitionOf(w) = p /\ Holding(w)
    THEN worker[CHOOSE w \in Worker : PartitionOf(w) = p /\ Holding(w)].event
    ELSE NoEvent]

Log == INSTANCE PartitionLog WITH pending <- queue, current <- Current, log <- stored

ImplementsPartitionLog == Log!Spec

=============================================================================
