-------------------------- MODULE EmbeddingWorkerProofs -------------------------
(***************************************************************************)
(* Proofs about the embedding worker, for any number of callers, restarts   *)
(* and items: TypeOK, and AppliedInOrder.                                   *)
(***************************************************************************)
EXTENDS EmbeddingWorker, SequenceTheorems, TLAPS

Live(w) == worker[w].pc \notin {"unborn", "ended"}
InHand(w) == worker[w].pc \in {"embedding", "updating"}
Taken == arrived - Len(queue)

(* The life of the tasks: only cancelled ones end, and the one that counts  *)
(* as started is cancelled only while somebody waits for it.                *)
Tasks ==
  /\ \A w \in Worker : worker[w].pc = "unborn" <=> w > starts
  /\ \A w \in Worker : worker[w].pc = "ended" => w \in cancelled
  /\ \A w \in cancelled : w <= starts
  /\ workerTask \in cancelled => \E k \in Stopper : awaiting[k] = workerTask

(* While calls of stop() do not overlap there is one worker at most. *)
OneWorker ==
  sequential =>
    /\ \A j, k \in Stopper : awaiting[j] # None /\ awaiting[k] # None => j = k
    /\ \A k \in Stopper : awaiting[k] # None => awaiting[k] = workerTask
    /\ \A w \in Worker : Live(w) => w = workerTask

(* The queue holds the last arrivals in their order, and what was taken is  *)
(* older than all of it. *)
InOrder ==
  /\ \A i \in DOMAIN queue : queue[i].id = Taken + i
  /\ \A w \in Worker : InHand(w) => worker[w].item \in Item /\ worker[w].item.id <= Taken
  /\ \A j \in DOMAIN memory : memory[j] <= Taken
  /\ sentimentVector <= Taken

(* The item in hand is newer than every result. *)
HandIsNewest ==
  sequential =>
    \A w \in Worker : InHand(w) =>
      /\ sentimentVector < worker[w].item.id
      /\ \A j \in DOMAIN memory : memory[j] < worker[w].item.id

Inv == Typed /\ Tasks /\ OneWorker /\ InOrder /\ HandIsNewest

LEMMA Parameters == MaxStarts \in Nat /\ MaxItems \in Nat
BY EmbeddingAssumption DEF EmbeddingAssumption

LEMMA InvInit == Init => Inv
<1> SUFFICES ASSUME Init PROVE Inv
  OBVIOUS
<1>1. Typed
  BY Parameters DEF Init, Typed, Worker, Item, NoItem, At, None, Type
<1>2. Tasks
  BY Parameters DEF Init, Tasks, Worker, At, None
<1>3. OneWorker /\ InOrder /\ HandIsNewest
  BY Parameters DEF Init, OneWorker, InOrder, HandIsNewest, Live, InHand, Taken, At, None
<1> QED
  BY <1>1, <1>2, <1>3 DEF Inv

LEMMA StartedFollows == Typed /\ Tasks => StartedHasWorker
BY Parameters DEF Typed, Tasks, StartedHasWorker, None, Worker

-----------------------------------------------------------------------------
(* Steps of the callers. *)

LEMMA StartKeeps == Inv /\ Start => Inv'
<1> SUFFICES ASSUME Inv, Start PROVE Inv'
  OBVIOUS
<1> USE Parameters
<1>1. /\ starts' = starts + 1 /\ workerTask' = starts + 1 /\ starts + 1 \in Worker
      /\ worker' = [worker EXCEPT ![starts + 1] = At("getting")]
      /\ UNCHANGED <<queue, cancelled, awaiting, sentimentVector, memory, arrived, sequential>>
  BY DEF Start, Inv, Typed, Worker, resultVars
<1>2. /\ \A w \in Worker : w # starts + 1 => worker'[w] = worker[w]
      /\ worker'[starts + 1] = At("getting")
  BY <1>1 DEF Inv, Typed
<1>3. Typed'
  BY <1>1 DEF Inv, Typed, At, Worker
<1>4. Tasks'
  BY <1>1, <1>2 DEF Inv, Typed, Tasks, At, Worker
<1>5. OneWorker'
  <2>1. SUFFICES ASSUME sequential PROVE OneWorker'
    BY <1>1 DEF OneWorker
  <2>2. workerTask = None
    BY DEF Start
  <2>3. \A k \in Stopper : awaiting[k] = None
    BY <2>1, <2>2 DEF Inv, OneWorker
  <2>4. \A w \in Worker : ~Live(w)
    BY <2>1, <2>2 DEF Inv, OneWorker, Worker, None
  <2> QED
    BY <1>1, <1>2, <2>3, <2>4 DEF OneWorker, Live
<1>6. InOrder' /\ HandIsNewest'
  BY <1>1, <1>2 DEF Inv, InOrder, HandIsNewest, InHand, Taken, At
<1> QED
  BY <1>3, <1>4, <1>5, <1>6 DEF Inv

LEMMA StopBeginKeeps == ASSUME Inv, NEW k \in Stopper, StopBegin(k) PROVE Inv'
<1> USE Parameters
<1>1. /\ workerTask \in Worker /\ worker[workerTask].pc # "ended"
      /\ cancelled' = cancelled \cup {workerTask}
      /\ awaiting' = [awaiting EXCEPT ![k] = workerTask]
      /\ sequential' = (sequential /\ \A j \in Stopper : awaiting[j] = None)
      /\ UNCHANGED <<queue, workerTask, worker, sentimentVector, memory, starts, arrived>>
  BY DEF StopBegin, Inv, Typed, Worker, None, resultVars
<1>2. Typed'
  <2>1. sequential' \in BOOLEAN
    BY <1>1
  <2> QED
    BY <1>1, <2>1 DEF Inv, Typed, Worker
<1>3. Tasks'
  BY <1>1 DEF Inv, Typed, Tasks, Worker
<1>4. OneWorker'
  BY <1>1 DEF Inv, Typed, OneWorker, Live
<1>5. InOrder' /\ HandIsNewest'
  BY <1>1 DEF Inv, InOrder, HandIsNewest, InHand, Taken
<1> QED
  BY <1>2, <1>3, <1>4, <1>5 DEF Inv

LEMMA StopAtOnceKeeps == Inv /\ StopAtOnce => Inv'
<1> SUFFICES ASSUME Inv, StopAtOnce PROVE Inv'
  OBVIOUS
<1> USE Parameters
<1>1. /\ workerTask \in Worker /\ worker[workerTask].pc = "ended" /\ workerTask' = None
      /\ sequential' = (sequential /\ \A j \in Stopper : awaiting[j] = None)
      /\ UNCHANGED <<queue, worker, cancelled, awaiting, sentimentVector, memory, starts, arrived>>
  BY DEF StopAtOnce, Inv, Typed, Worker, None, resultVars
<1>2. ~sequential'
  <2>1. workerTask \in cancelled
    BY <1>1 DEF Inv, Tasks
  <2>2. \E k \in Stopper : awaiting[k] = workerTask
    BY <2>1 DEF Inv, Tasks
  <2>3. workerTask # None
    BY <1>1 DEF Worker, None
  <2>4. ~ \A j \in Stopper : awaiting[j] = None
    BY <2>2, <2>3
  <2> QED
    BY <1>1, <2>4
<1>3. Typed'
  <2>1. sequential' \in BOOLEAN
    BY <1>1
  <2> QED
    BY <1>1, <2>1 DEF Inv, Typed, None
<1>4. Tasks'
  BY <1>1 DEF Inv, Tasks, Typed, Worker, None
<1>5. OneWorker' /\ HandIsNewest'
  BY <1>2 DEF OneWorker, HandIsNewest
<1>6. InOrder'
  BY <1>1 DEF Inv, InOrder, InHand, Taken
<1> QED
  BY <1>3, <1>4, <1>5, <1>6 DEF Inv

LEMMA StopEndKeeps == ASSUME Inv, NEW k \in Stopper, StopEnd(k) PROVE Inv'
<1> USE Parameters
<1>1. /\ awaiting[k] # None /\ worker[awaiting[k]].pc = "ended"
      /\ awaiting' = [awaiting EXCEPT ![k] = None] /\ workerTask' = None
      /\ UNCHANGED <<queue, worker, cancelled, sentimentVector, memory, starts, arrived, sequential>>
  BY DEF StopEnd, resultVars
<1>2. Typed'
  BY <1>1 DEF Inv, Typed, None
<1>3. Tasks'
  BY <1>1 DEF Inv, Tasks, Typed, Worker, None
<1>4. OneWorker'
  <2>1. SUFFICES ASSUME sequential PROVE OneWorker'
    BY <1>1 DEF OneWorker
  <2>2. \A j \in Stopper : j # k => awaiting[j] = None
    BY <1>1, <2>1 DEF Inv, OneWorker
  <2>3. \A j \in Stopper : awaiting'[j] = None
    BY <1>1, <2>2 DEF Inv, Typed
  <2>4. \A w \in Worker : ~Live(w)
    BY <1>1, <2>1 DEF Inv, OneWorker, Live
  <2> QED
    BY <1>1, <2>3, <2>4 DEF OneWorker, Live
<1>5. InOrder' /\ HandIsNewest'
  BY <1>1 DEF Inv, InOrder, HandIsNewest, InHand, Taken
<1> QED
  BY <1>2, <1>3, <1>4, <1>5 DEF Inv

LEMMA EnqueueKeeps == ASSUME Inv, NEW type \in Type, Enqueue(type) PROVE Inv'
<1> DEFINE new == [id |-> arrived + 1, type |-> type]
<1> USE Parameters
<1>1. /\ arrived < MaxItems /\ arrived' = arrived + 1 /\ queue' = Append(queue, new)
      /\ UNCHANGED <<worker, workerTask, cancelled, awaiting, starts, sequential,
                     sentimentVector, memory>>
  BY DEF Enqueue, lifecycleVars, resultVars
<1>2. arrived \in Nat /\ queue \in Seq(Item) /\ new \in Item
  BY <1>1 DEF Inv, Typed, Item
<1>3. /\ queue' \in Seq(Item) /\ Len(queue') = Len(queue) + 1 /\ Len(queue) \in Nat
      /\ \A i \in 1 .. Len(queue) : queue'[i] = queue[i]
      /\ queue'[Len(queue) + 1] = new
      /\ DOMAIN queue' = 1 .. Len(queue) + 1 /\ DOMAIN queue = 1 .. Len(queue)
  BY <1>1, <1>2, AppendProperties, LenProperties
<1>4. Taken' = Taken /\ Taken \in Int
  BY <1>1, <1>2, <1>3 DEF Taken
<1>5. Typed'
  BY <1>1, <1>2, <1>3 DEF Inv, Typed
<1>6. Tasks' /\ OneWorker' /\ HandIsNewest'
  BY <1>1 DEF Inv, Tasks, OneWorker, HandIsNewest, Live, InHand
<1>7. InOrder'
  <2>1. \A i \in DOMAIN queue' : queue'[i].id = Taken + i
    <3>1. queue'[Len(queue) + 1].id = Taken + (Len(queue) + 1)
      BY <1>2, <1>3 DEF Taken
    <3> QED
      BY <1>3, <3>1 DEF Inv, InOrder
  <2> QED
    BY <1>1, <1>4, <2>1 DEF Inv, InOrder, InHand
<1> QED
  BY <1>5, <1>6, <1>7 DEF Inv

-----------------------------------------------------------------------------
(* Steps of a worker. *)

(* A live worker that goes on, or ends after a cancellation, disturbs       *)
(* neither the tasks nor their number.                                      *)
LEMMA WorkerMoves ==
  ASSUME Inv, NEW w \in Worker, NEW pc, NEW item, Goes(w, pc, item),
         pc \in {"getting", "embedding", "updating", "backoff", "ended"},
         item \in Item \cup {NoItem},
         pc = "ended" => w \in cancelled,
         Live(w), UNCHANGED lifecycleVars
  PROVE  /\ worker' \in [Worker -> [pc : {"unborn", "getting", "embedding", "updating", "backoff", "ended"},
                                   item : Item \cup {NoItem}]]
         /\ worker'[w] = [pc |-> pc, item |-> item]
         /\ \A v \in Worker : v # w => worker'[v] = worker[v]
         /\ Tasks' /\ OneWorker'
<1>1. worker' = [worker EXCEPT ![w] = [pc |-> pc, item |-> item]]
  BY DEF Goes
<1>2. /\ worker'[w] = [pc |-> pc, item |-> item]
      /\ \A v \in Worker : v # w => worker'[v] = worker[v]
  BY <1>1 DEF Inv, Typed
<1>3. worker' \in [Worker -> [pc : {"unborn", "getting", "embedding", "updating", "backoff", "ended"},
                             item : Item \cup {NoItem}]]
  BY <1>1 DEF Inv, Typed
<1>4. UNCHANGED <<workerTask, cancelled, awaiting, starts, sequential>>
  BY DEF lifecycleVars
<1>5. Tasks'
  BY <1>2, <1>4 DEF Inv, Tasks, Live
<1>6. OneWorker'
  BY <1>2, <1>4 DEF Inv, OneWorker, Live
<1> QED
  BY <1>2, <1>3, <1>5, <1>6

(* The item in hand is given up: an empty answer, an exception, the end of  *)
(* the pause, a cancellation.                                               *)
LEMMA HandEmptied ==
  ASSUME Inv, NEW w \in Worker, NEW pc, Goes(w, pc, NoItem),
         pc \in {"getting", "backoff", "ended"}, pc = "ended" => w \in cancelled, Live(w),
         UNCHANGED <<queue, arrived, lifecycleVars, resultVars>>
  PROVE  Inv'
<1>1. UNCHANGED <<workerTask, cancelled, awaiting, starts, sequential, sentimentVector, memory>>
  BY DEF lifecycleVars, resultVars
<1>2. /\ worker' \in [Worker -> [pc : {"unborn", "getting", "embedding", "updating", "backoff", "ended"},
                                item : Item \cup {NoItem}]]
      /\ worker'[w] = [pc |-> pc, item |-> NoItem]
      /\ \A v \in Worker : v # w => worker'[v] = worker[v]
      /\ Tasks' /\ OneWorker'
  BY WorkerMoves
<1>3. Typed'
  BY <1>1, <1>2 DEF Inv, Typed
<1>4. \A v \in Worker : InHand(v)' => InHand(v) /\ worker'[v] = worker[v]
  BY <1>2 DEF InHand
<1>5. InOrder' /\ HandIsNewest'
  BY <1>1, <1>4 DEF Inv, InOrder, HandIsNewest, Taken
<1> QED
  BY <1>2, <1>3, <1>5 DEF Inv

LEMMA GetKeeps == ASSUME Inv, NEW w \in Worker, Get(w) PROVE Inv'
<1> USE Parameters
<1>1. /\ worker[w].pc = "getting" /\ queue # <<>> /\ queue' = Tail(queue)
      /\ Goes(w, "embedding", Head(queue)) /\ UNCHANGED lifecycleVars
      /\ UNCHANGED <<arrived, workerTask, cancelled, awaiting, starts, sequential,
                     sentimentVector, memory>>
  BY DEF Get, Runs, lifecycleVars, resultVars
<1>2. queue \in Seq(Item) /\ arrived \in Nat
  BY DEF Inv, Typed
<1>3. /\ Head(queue) \in Item /\ Head(queue) = queue[1]
      /\ queue' \in Seq(Item) /\ Len(queue') = Len(queue) - 1
      /\ \A i \in 1 .. Len(queue') : queue'[i] = queue[i + 1]
      /\ Len(queue) \in Nat \ {0} /\ DOMAIN queue = 1 .. Len(queue)
      /\ DOMAIN queue' = 1 .. Len(queue')
  BY <1>1, <1>2, HeadTailProperties, LenProperties, EmptySeq
<1>4. Taken \in Int /\ Taken' = Taken + 1
  BY <1>1, <1>2, <1>3 DEF Taken
<1>5. /\ worker' \in [Worker -> [pc : {"unborn", "getting", "embedding", "updating", "backoff", "ended"},
                                item : Item \cup {NoItem}]]
      /\ worker'[w] = [pc |-> "embedding", item |-> Head(queue)]
      /\ \A v \in Worker : v # w => worker'[v] = worker[v]
      /\ Tasks' /\ OneWorker'
  BY <1>1, <1>3, WorkerMoves DEF Live
<1>6. Typed'
  BY <1>1, <1>3, <1>5 DEF Inv, Typed
<1>7. Head(queue).id = Taken + 1
  BY <1>3 DEF Inv, InOrder
<1>8. \A v \in Worker : v # w => (InHand(v)' <=> InHand(v))
  BY <1>5 DEF InHand
<1>9. /\ \A j \in DOMAIN memory : memory[j] \in Int /\ memory[j] <= Taken
      /\ sentimentVector \in Int /\ sentimentVector <= Taken
  BY DEF Inv, InOrder, Typed
<1>10. InOrder'
  <2>1. \A i \in DOMAIN queue' : queue'[i].id = Taken' + i
    <3>1. \A i \in 1 .. Len(queue') : queue[i + 1].id = Taken + (i + 1)
      BY <1>3 DEF Inv, InOrder
    <3> QED
      BY <1>3, <1>4, <3>1
  <2>2. \A v \in Worker : InHand(v)' => worker'[v].item \in Item /\ worker'[v].item.id <= Taken'
    <3> SUFFICES ASSUME NEW v \in Worker, InHand(v)'
                 PROVE  worker'[v].item \in Item /\ worker'[v].item.id <= Taken'
      OBVIOUS
    <3>1. CASE v = w
      BY <1>3, <1>4, <1>5, <1>7, <3>1
    <3>2. CASE v # w
      <4>1. worker[v].item \in Item /\ worker[v].item.id <= Taken /\ worker'[v] = worker[v]
        BY <1>5, <1>8, <3>2 DEF Inv, InOrder
      <4> QED
        BY <1>4, <4>1 DEF Item
    <3> QED
      BY <3>1, <3>2
  <2>3. \A j \in DOMAIN memory : memory[j] <= Taken'
    BY <1>4, <1>9
  <2>4. sentimentVector <= Taken'
    BY <1>4, <1>9
  <2> QED
    BY <1>1, <2>1, <2>2, <2>3, <2>4 DEF InOrder
<1>11. HandIsNewest'
  <2>1. SUFFICES ASSUME sequential, NEW v \in Worker, InHand(v)'
                 PROVE  /\ sentimentVector < worker'[v].item.id
                        /\ \A j \in DOMAIN memory : memory[j] < worker'[v].item.id
    BY <1>1 DEF HandIsNewest
  <2>2. CASE v = w
    BY <1>4, <1>5, <1>7, <1>9, <2>2
  <2>3. CASE v # w
    BY <1>5, <1>8, <2>1, <2>3 DEF Inv, HandIsNewest
  <2> QED
    BY <2>2, <2>3
<1> QED
  BY <1>5, <1>6, <1>10, <1>11 DEF Inv

(* The one action that changes the sentiment vector: while stops do not     *)
(* overlap no other worker has an item in hand.                             *)
LEMMA EmbeddedKeeps == ASSUME Inv, NEW w \in Worker, Embedded(w) PROVE Inv'
<1> USE Parameters
<1>1. /\ worker[w].pc = "embedding" /\ UNCHANGED lifecycleVars
      /\ UNCHANGED <<queue, memory, arrived, workerTask, cancelled, awaiting, starts, sequential>>
  BY DEF Embedded, Runs, lifecycleVars
<1>2. /\ worker[w].item \in Item /\ worker[w].item.id <= Taken
      /\ worker[w].item.id \in 1 .. MaxItems /\ InHand(w) /\ Live(w)
  BY <1>1 DEF Inv, InOrder, InHand, Item, Live
<1>3. Taken' = Taken /\ Taken \in Int /\ Taken <= arrived
  <2>1. Len(queue) \in Nat
    BY LenProperties DEF Inv, Typed
  <2> QED
    BY <1>1, <2>1 DEF Taken, Inv, Typed
<1>4. CASE Goes(w, "getting", NoItem) /\ sentimentVector' = worker[w].item.id
  <2>1. /\ worker' \in [Worker -> [pc : {"unborn", "getting", "embedding", "updating", "backoff", "ended"},
                                  item : Item \cup {NoItem}]]
        /\ worker'[w] = [pc |-> "getting", item |-> NoItem]
        /\ \A v \in Worker : v # w => worker'[v] = worker[v]
        /\ Tasks' /\ OneWorker'
    BY <1>1, <1>2, <1>4, WorkerMoves
  <2>2. sentimentVector' \in 0 .. arrived
    BY <1>2, <1>3, <1>4 DEF Inv, Typed
  <2>3. Typed'
    BY <1>1, <2>1, <2>2 DEF Inv, Typed
  <2>4. \A v \in Worker : InHand(v)' => v # w /\ InHand(v) /\ worker'[v] = worker[v]
    BY <2>1 DEF InHand
  <2>5. InOrder'
    BY <1>1, <1>2, <1>3, <1>4, <2>4 DEF Inv, InOrder
  <2>6. HandIsNewest'
    <3>1. SUFFICES ASSUME sequential PROVE \A v \in Worker : ~InHand(v)'
      BY <1>1 DEF HandIsNewest
    <3>2. \A v \in Worker : InHand(v) => v = workerTask
      BY <3>1 DEF Inv, OneWorker, Live, InHand
    <3> QED
      BY <1>2, <2>4, <3>2
  <2> QED
    BY <2>1, <2>3, <2>5, <2>6 DEF Inv
<1>5. CASE Goes(w, "updating", worker[w].item) /\ UNCHANGED sentimentVector
  <2>1. /\ worker' \in [Worker -> [pc : {"unborn", "getting", "embedding", "updating", "backoff", "ended"},
                                  item : Item \cup {NoItem}]]
        /\ worker'[w] = [pc |-> "updating", item |-> worker[w].item]
        /\ \A v \in Worker : v # w => worker'[v] = worker[v]
        /\ Tasks' /\ OneWorker'
    BY <1>1, <1>2, <1>5, WorkerMoves
  <2>2. Typed'
    BY <1>1, <1>5, <2>1 DEF Inv, Typed
  <2>3. \A v \in Worker : InHand(v)' => InHand(v) /\ worker'[v].item = worker[v].item
    BY <1>2, <2>1 DEF InHand
  <2>4. InOrder' /\ HandIsNewest'
    BY <1>1, <1>3, <1>5, <2>3 DEF Inv, InOrder, HandIsNewest
  <2> QED
    BY <2>1, <2>2, <2>4 DEF Inv
<1> QED
  BY <1>4, <1>5 DEF Embedded

(* The one action that adds to the vector store. *)
LEMMA NoteSavedKeeps == ASSUME Inv, NEW w \in Worker, NoteSaved(w) PROVE Inv'
<1> DEFINE n == worker[w].item.id
<1> USE Parameters
<1>1. /\ worker[w].pc = "updating" /\ UNCHANGED lifecycleVars /\ Goes(w, "getting", NoItem)
      /\ memory' = memory \/ memory' = Append(memory, n)
      /\ UNCHANGED <<queue, sentimentVector, arrived, workerTask, cancelled, awaiting, starts, sequential>>
  BY DEF NoteSaved, Runs, lifecycleVars
<1>2. n \in 1 .. MaxItems /\ n <= Taken /\ InHand(w) /\ Live(w)
  BY <1>1 DEF Inv, InOrder, InHand, Item, Live
<1>3. /\ worker' \in [Worker -> [pc : {"unborn", "getting", "embedding", "updating", "backoff", "ended"},
                                item : Item \cup {NoItem}]]
      /\ worker'[w] = [pc |-> "getting", item |-> NoItem]
      /\ \A v \in Worker : v # w => worker'[v] = worker[v]
      /\ Tasks' /\ OneWorker'
  BY <1>1, <1>2, WorkerMoves
<1>4. /\ memory' \in Seq(1 .. MaxItems)
      /\ \A j \in DOMAIN memory' : memory'[j] = n \/ (j \in DOMAIN memory /\ memory'[j] = memory[j])
  <2>1. memory \in Seq(1 .. MaxItems)
    BY DEF Inv, Typed
  <2>2. CASE memory' = memory
    BY <2>1, <2>2
  <2>3. CASE memory' = Append(memory, n)
    BY <1>2, <2>1, <2>3, AppendProperties, LenProperties
  <2> QED
    BY <1>1, <2>2, <2>3
<1>5. Typed'
  BY <1>1, <1>3, <1>4 DEF Inv, Typed
<1>6. \A v \in Worker : InHand(v)' => v # w /\ InHand(v) /\ worker'[v] = worker[v]
  BY <1>3 DEF InHand
<1>7. InOrder'
  BY <1>1, <1>2, <1>4, <1>6 DEF Inv, InOrder, Taken
<1>8. HandIsNewest'
  <2>1. SUFFICES ASSUME sequential PROVE \A v \in Worker : ~InHand(v)'
    BY <1>1 DEF HandIsNewest
  <2>2. \A v \in Worker : InHand(v) => v = workerTask
    BY <2>1 DEF Inv, OneWorker, Live, InHand
  <2> QED
    BY <1>2, <1>6, <2>2
<1> QED
  BY <1>3, <1>5, <1>7, <1>8 DEF Inv

LEMMA WorkerStepKeeps == ASSUME Inv, NEW w \in Worker, WorkerStep(w) PROVE Inv'
<1>1. CASE Get(w)
  BY <1>1, GetKeeps
<1>2. CASE Embedded(w)
  BY <1>2, EmbeddedKeeps
<1>3. CASE NoEmbedding(w)
  BY <1>3, HandEmptied DEF NoEmbedding, Runs, Live
<1>4. CASE EmbedFails(w)
  BY <1>4, HandEmptied DEF EmbedFails, Runs, Live
<1>5. CASE BackedOff(w)
  BY <1>5, HandEmptied DEF BackedOff, Runs, Live
<1>6. CASE NoteSaved(w)
  BY <1>6, NoteSavedKeeps
<1>7. CASE NoteRaises(w)
  BY <1>7, HandEmptied DEF NoteRaises, Runs, Live
<1>8. CASE WorkerCancelled(w)
  <2>1. Live(w)
    BY <1>8, Parameters DEF WorkerCancelled, Live, Inv, Tasks, Typed, Worker
  <2> QED
    BY <1>8, <2>1, HandEmptied DEF WorkerCancelled
<1> QED
  BY <1>1, <1>2, <1>3, <1>4, <1>5, <1>6, <1>7, <1>8 DEF WorkerStep

LEMMA InvStep == Inv /\ [Next]_vars => Inv'
<1> SUFFICES ASSUME Inv, [Next]_vars PROVE Inv'
  OBVIOUS
<1>1. CASE Start
  BY <1>1, StartKeeps
<1>2. ASSUME NEW k \in Stopper, StopBegin(k) PROVE Inv'
  BY <1>2, StopBeginKeeps
<1>3. ASSUME NEW k \in Stopper, StopEnd(k) PROVE Inv'
  BY <1>3, StopEndKeeps
<1>4. CASE StopAtOnce
  BY <1>4, StopAtOnceKeeps
<1>5. ASSUME NEW type \in Type, Enqueue(type) PROVE Inv'
  BY <1>5, EnqueueKeeps
<1>6. ASSUME NEW w \in Worker, WorkerStep(w) PROVE Inv'
  BY <1>6, WorkerStepKeeps
<1>7. CASE UNCHANGED vars
  BY <1>7 DEF Inv, Typed, Tasks, OneWorker, InOrder, HandIsNewest, Live, InHand, Taken, vars
<1> QED
  BY <1>1, <1>2, <1>3, <1>4, <1>5, <1>6, <1>7 DEF Next

LEMMA Invariance == Spec => []Inv
BY InvInit, InvStep, PTL DEF Spec

-----------------------------------------------------------------------------

(* Every variable keeps its type, and a manager that counts as started has  *)
(* a living worker unless it is being stopped, also when stops overlap.     *)
THEOREM EmbeddingTypeOK == Spec => []TypeOK
<1>1. Inv => TypeOK
  BY StartedFollows DEF Inv, TypeOK
<1> QED
  BY <1>1, Invariance, PTL

(* Only two actions change a result, and the item they apply is newer than  *)
(* every result there is.                                                   *)
LEMMA StepInOrder ==
  ASSUME Inv, Next, sequential
  PROVE  /\ sentimentVector' >= sentimentVector
         /\ \A i \in DOMAIN memory' \ DOMAIN memory, j \in DOMAIN memory : memory[j] < memory'[i]
<1>1. sentimentVector \in Int /\ memory \in Seq(1 .. MaxItems)
  BY DEF Inv, Typed
<1>2. ASSUME NEW w \in Worker, Embedded(w) PROVE sentimentVector' >= sentimentVector /\ memory' = memory
  <2>1. InHand(w) /\ worker[w].item \in Item
    BY <1>2 DEF Embedded, Runs, InHand, Inv, InOrder
  <2>2. sentimentVector < worker[w].item.id /\ worker[w].item.id \in Int
    BY <2>1 DEF Inv, HandIsNewest, Item
  <2>3. sentimentVector' \in {sentimentVector, worker[w].item.id} /\ memory' = memory
    BY <1>2 DEF Embedded
  <2> QED
    BY <1>1, <2>2, <2>3
<1>3. ASSUME NEW w \in Worker, NoteSaved(w)
      PROVE  /\ sentimentVector' = sentimentVector
             /\ \A i \in DOMAIN memory' \ DOMAIN memory, j \in DOMAIN memory : memory[j] < memory'[i]
  <2>1. InHand(w) /\ worker[w].item \in Item
    BY <1>3 DEF NoteSaved, Runs, InHand, Inv, InOrder
  <2>2. \A j \in DOMAIN memory : memory[j] < worker[w].item.id
    BY <2>1 DEF Inv, HandIsNewest
  <2>3. sentimentVector' = sentimentVector /\ memory' \in {memory, Append(memory, worker[w].item.id)}
    BY <1>3 DEF NoteSaved
  <2>4. \A i \in DOMAIN memory' \ DOMAIN memory : memory'[i] = worker[w].item.id
    <3>1. worker[w].item.id \in 1 .. MaxItems
      BY <2>1 DEF Item
    <3> QED
      BY <1>1, <2>3, <3>1, AppendProperties, LenProperties
  <2> QED
    BY <2>2, <2>3, <2>4
<1>4. (~ \E w \in Worker : Embedded(w) \/ NoteSaved(w)) => UNCHANGED <<sentimentVector, memory>>
  BY DEF Next, Start, StopBegin, StopEnd, StopAtOnce, Enqueue, WorkerStep, Get, NoEmbedding,
         EmbedFails, BackedOff, NoteRaises, WorkerCancelled, resultVars
<1> QED
  BY <1>1, <1>2, <1>3, <1>4

(* As long as stops do not overlap, results take effect in the order in     *)
(* which their texts arrived, over restarts, failures and cancellations.    *)
THEOREM ResultsInOrder == Spec => AppliedInOrder
<1>1. Inv /\ [Next]_vars =>
        [sequential =>
           /\ sentimentVector' >= sentimentVector
           /\ \A i \in DOMAIN memory' \ DOMAIN memory, j \in DOMAIN memory : memory[j] < memory'[i]]_vars
  BY StepInOrder
<1> QED
  BY <1>1, Invariance, PTL DEF Spec, AppliedInOrder
================================================================================
