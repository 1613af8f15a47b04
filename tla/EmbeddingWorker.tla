----------------------------- MODULE EmbeddingWorker ---------------------------
(***************************************************************************)
(* AsyncEmbeddingManager of qtrader/ml/embedding_worker.py: one queue of    *)
(* notes and sentiment texts, one worker task that embeds them, and calls   *)
(* of start() and stop() at any time.  The order of the results matters:    *)
(* the sentiment vector that decisions read is the one written last.        *)
(*                                                                          *)
(* An item is its type and the number of its arrival.                       *)
(***************************************************************************)
EXTENDS Integers, Sequences

CONSTANTS
  Stopper,      \* callers of stop()
  MaxStarts,    \* bound: worker tasks ever created
  MaxItems      \* bound: items ever queued

ASSUME EmbeddingAssumption == MaxStarts \in Nat /\ MaxItems \in Nat

None == 0
Worker == 1 .. MaxStarts
Type == {"note", "sentiment"}
Item == [id : 1 .. MaxItems, type : Type]
NoItem == [id |-> 0, type |-> "note"]

VARIABLES
  queue,
  workerTask,       \* self.worker_task: the number of the task, or None
  worker,           \* where each task stands and the item in its hand
  cancelled,        \* tasks that were cancelled
  awaiting,         \* the task each stop() waits for
  sentimentVector,  \* current_sentiment_vector: the item it is the embedding of
  memory,           \* ids of the notes in the vector store
  starts, arrived,  \* tasks created, items queued so far
  sequential        \* history: no stop() overlapped another one

vars == <<queue, workerTask, worker, cancelled, awaiting, sentimentVector, memory,
          starts, arrived, sequential>>
lifecycleVars == <<workerTask, cancelled, awaiting, starts, sequential>>
resultVars == <<sentimentVector, memory>>

At(pc) == [pc |-> pc, item |-> NoItem]

Init ==
  /\ queue = <<>>
  /\ workerTask = None
  /\ worker = [w \in Worker |-> At("unborn")]
  /\ cancelled = {}
  /\ awaiting = [k \in Stopper |-> None]
  /\ sentimentVector = 0 /\ memory = <<>>
  /\ starts = 0 /\ arrived = 0
  /\ sequential = TRUE

-----------------------------------------------------------------------------

(* start() does nothing when there is a task, also one that is being stopped.*)
Start ==
  /\ workerTask = None /\ starts < MaxStarts
  /\ starts' = starts + 1 /\ workerTask' = starts'
  /\ worker' = [worker EXCEPT ![starts'] = At("getting")]
  /\ UNCHANGED <<queue, cancelled, awaiting, resultVars, arrived, sequential>>

(* stop() cancels the task and waits for it, *)
StopBegin(k) ==
  /\ awaiting[k] = None /\ workerTask # None /\ worker[workerTask].pc # "ended"
  /\ cancelled' = cancelled \cup {workerTask}
  /\ awaiting' = [awaiting EXCEPT ![k] = workerTask]
  /\ sequential' = (sequential /\ \A j \in Stopper : awaiting[j] = None)
  /\ UNCHANGED <<queue, workerTask, worker, resultVars, starts, arrived>>

(* except when the task has ended already. *)
StopAtOnce ==
  /\ workerTask # None /\ worker[workerTask].pc = "ended"
  /\ workerTask' = None
  /\ sequential' = (sequential /\ \A j \in Stopper : awaiting[j] = None)
  /\ UNCHANGED <<queue, worker, cancelled, awaiting, resultVars, starts, arrived>>

(* Mutant: the ended task stays behind. *)
StopEndKeepsTask(k) ==
  /\ awaiting[k] # None /\ worker[awaiting[k]].pc = "ended"
  /\ awaiting' = [awaiting EXCEPT ![k] = None]
  /\ UNCHANGED <<queue, workerTask, worker, cancelled, resultVars, starts, arrived, sequential>>

(* Whatever task there is by now is forgotten. *)
StopEnd(k) ==
  /\ awaiting[k] # None /\ worker[awaiting[k]].pc = "ended"
  /\ awaiting' = [awaiting EXCEPT ![k] = None]
  /\ workerTask' = None
  /\ UNCHANGED <<queue, worker, cancelled, resultVars, starts, arrived, sequential>>

(* enqueue_note() and refresh_sentiment(). *)
Enqueue(type) ==
  /\ arrived < MaxItems
  /\ arrived' = arrived + 1
  /\ queue' = Append(queue, [id |-> arrived', type |-> type])
  /\ UNCHANGED <<worker, lifecycleVars, resultVars>>

-----------------------------------------------------------------------------
(* _worker_loop().  A cancelled task takes no further step but its last.     *)

Runs(w, pc) == worker[w].pc = pc /\ w \notin cancelled
Goes(w, pc, item) == worker' = [worker EXCEPT ![w] = [pc |-> pc, item |-> item]]

Get(w) ==
  /\ Runs(w, "getting") /\ queue # <<>>
  /\ queue' = Tail(queue)
  /\ Goes(w, "embedding", Head(queue))
  /\ UNCHANGED <<arrived, lifecycleVars, resultVars>>

(* The model answers.  A sentiment is in force at once, a note goes to the  *)
(* database first.                                                          *)
Embedded(w) ==
  /\ Runs(w, "embedding")
  /\ \/ /\ worker[w].item.type = "sentiment"
        /\ sentimentVector' = worker[w].item.id
        /\ Goes(w, "getting", NoItem)
     \/ /\ worker[w].item.type = "note"
        /\ Goes(w, "updating", worker[w].item)
        /\ UNCHANGED sentimentVector
  /\ UNCHANGED <<queue, memory, arrived, lifecycleVars>>

(* It answers without an embedding: the item is given up. *)
NoEmbedding(w) ==
  /\ Runs(w, "embedding")
  /\ Goes(w, "getting", NoItem)
  /\ UNCHANGED <<queue, arrived, lifecycleVars, resultVars>>

(* Mutant: the item is put back for another try. *)
EmbedFailsRequeues(w) ==
  /\ Runs(w, "embedding")
  /\ queue' = Append(queue, worker[w].item)
  /\ Goes(w, "backoff", NoItem)
  /\ UNCHANGED <<arrived, lifecycleVars, resultVars>>

(* Mutant: the exception ends the loop. *)
EmbedFailsEnds(w) ==
  /\ Runs(w, "embedding")
  /\ Goes(w, "ended", NoItem)
  /\ UNCHANGED <<queue, arrived, lifecycleVars, resultVars>>

(* It raises: the item is given up and the worker sleeps. *)
EmbedFails(w) ==
  /\ Runs(w, "embedding")
  /\ Goes(w, "backoff", NoItem)
  /\ UNCHANGED <<queue, arrived, lifecycleVars, resultVars>>

BackedOff(w) ==
  /\ Runs(w, "backoff")
  /\ Goes(w, "getting", NoItem)
  /\ UNCHANGED <<queue, arrived, lifecycleVars, resultVars>>

(* The database has answered, with success or not, and the vector store     *)
(* takes the note, or fails without a word.                                 *)
NoteSaved(w) ==
  /\ Runs(w, "updating")
  /\ memory' \in {memory, Append(memory, worker[w].item.id)}
  /\ Goes(w, "getting", NoItem)
  /\ UNCHANGED <<queue, sentimentVector, arrived, lifecycleVars>>

(* It cannot be opened: this raises, outside of the try of save_exemplar(). *)
NoteRaises(w) ==
  /\ Runs(w, "updating")
  /\ Goes(w, "backoff", NoItem)
  /\ UNCHANGED <<queue, arrived, lifecycleVars, resultVars>>

(* CancelledError at any await, the sleep included; the item in hand is lost.*)
WorkerCancelled(w) ==
  /\ w \in cancelled /\ worker[w].pc # "ended"
  /\ Goes(w, "ended", NoItem)
  /\ UNCHANGED <<queue, arrived, lifecycleVars, resultVars>>

WorkerStep(w) ==
  \/ Get(w) \/ Embedded(w) \/ NoEmbedding(w) \/ EmbedFails(w) \/ BackedOff(w)
  \/ NoteSaved(w) \/ NoteRaises(w) \/ WorkerCancelled(w)

Next ==
  \/ Start
  \/ \E k \in Stopper : StopBegin(k) \/ StopEnd(k)
  \/ StopAtOnce
  \/ \E type \in Type : Enqueue(type)
  \/ \E w \in Worker : WorkerStep(w)

Spec == Init /\ [][Next]_vars

(* Every await of a worker returns: requests to the model have a timeout,   *)
(* the sleep and a statement of the database end.                           *)
FairSpec == Spec /\ \A w \in Worker : WF_vars(WorkerStep(w))

-----------------------------------------------------------------------------

(* While no stop() is pending, a manager that counts as started has a       *)
(* worker that lives: start() does not have to look.                        *)
StartedHasWorker ==
  (workerTask # None /\ \A k \in Stopper : awaiting[k] = None)
    => worker[workerTask].pc \notin {"unborn", "ended"}

Typed ==
  /\ queue \in Seq(Item)
  /\ workerTask \in 0 .. starts /\ starts \in 0 .. MaxStarts
  /\ worker \in [Worker -> [pc : {"unborn", "getting", "embedding", "updating", "backoff", "ended"},
                            item : Item \cup {NoItem}]]
  /\ cancelled \subseteq Worker
  /\ awaiting \in [Stopper -> 0 .. MaxStarts]
  /\ memory \in Seq(1 .. MaxItems) /\ sentimentVector \in 0 .. arrived
  /\ arrived \in 0 .. MaxItems
  /\ sequential \in BOOLEAN

TypeOK == Typed /\ StartedHasWorker

(* As long as calls of stop() do not overlap: over restarts, failures and   *)
(* cancellations results take effect in the order of arrival and once, so   *)
(* that the sentiment vector is never replaced by that of an older text.    *)
AppliedInOrder ==
  [][sequential =>
       /\ sentimentVector' >= sentimentVector
       /\ \A i \in DOMAIN memory' \ DOMAIN memory, j \in DOMAIN memory : memory[j] < memory'[i]]_vars

(* While the manager stays started every queued item is taken, whatever the *)
(* items before it met with.                                                *)
QueueHandled ==
  <>[](workerTask # None /\ \A k \in Stopper : awaiting[k] = None) => []<>(queue = <<>>)
================================================================================
