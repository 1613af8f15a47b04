------------------------------ MODULE TradingSystem ----------------------------
(***************************************************************************)
(* The life of TradingSystem (qtrader/trading_system.py) under the control  *)
(* API (qtrader/api/router.py) and of its rows in trading_sessions          *)
(* (qtrader/persistence/db_writer.py): calls that start and stop it, in any *)
(* number and at any time, a database that fails, and processes that crash  *)
(* and are started again over the rows of the crashed one.                  *)
(*                                                                          *)
(* A statement of the database and the return of the await are one step;    *)
(* what happens between them is not told apart from what happens after.     *)
(***************************************************************************)
EXTENDS Integers, FiniteSets

CONSTANTS
  Request,          \* calls that start the system
  Stopper,          \* calls that stop it
  Symbol,           \* config.symbols
  MaxSession,       \* bound: rows ever inserted
  MaxTick,          \* bound: rounds of a pipeline
  MaxIncarnation    \* bound: processes, one after another

ASSUME TradingSystemAssumption ==
  /\ IsFiniteSet(Request) /\ IsFiniteSet(Symbol)
  /\ {MaxSession, MaxTick, MaxIncarnation} \subseteq Nat \ {0}

None == 0
Session == 1 .. MaxSession

VARIABLES
  up, inc,          \* whether the process lives; which one it is
  running,          \* self._running
  isRunning,        \* self.lifecycle.is_running
  shutdown,         \* self._shutdown_event
  initialized,      \* self.db_writer._initialized
  sid,              \* self.session_state.session_id
  start, stop,      \* where each call stands
  tick,             \* rounds begun by the pipeline of a call
  coros,            \* coroutines of _process_symbol(), <<call, round, symbol>>
  loops,            \* pnl_recording_loop() of each session
  rows,             \* trading_sessions
  lastSid,
  table,            \* whether there is such a table
  purge,            \* where purge_database() stands
  sequential,       \* history: in this process no call overlapped a start or a stop
  dbFailed          \* history: a statement failed in this process

flags == <<running, isRunning, shutdown, initialized, sid>>
work == <<tick, coros, loops>>
db == <<rows, lastSid, table, purge>>
vars == <<up, inc, flags, start, stop, work, db, sequential, dbFailed>>

Idle == "idle"
Piped == {"head", "round", "pause"}     \* inside _run_pipeline()
Starting == {"balance", "tables", "cleanup", "insert"}
Stopping == {"stopping", "closing"}

Fresh ==
  /\ running' = FALSE /\ isRunning' = FALSE /\ shutdown' = FALSE
  /\ initialized' = FALSE /\ sid' = None
  /\ start' = [r \in Request |-> Idle] /\ stop' = [k \in Stopper |-> Idle]
  /\ tick' = [r \in Request |-> 0] /\ coros' = {}
  /\ loops' = [s \in Session |-> "off"]
  /\ sequential' = TRUE /\ dbFailed' = FALSE

Init ==
  /\ up = TRUE /\ inc = 1
  /\ running = FALSE /\ isRunning = FALSE /\ shutdown = FALSE
  /\ initialized = FALSE /\ sid = None
  /\ start = [r \in Request |-> Idle] /\ stop = [k \in Stopper |-> Idle]
  /\ tick = [r \in Request |-> 0] /\ coros = {}
  /\ loops = [s \in Session |-> "off"]
  /\ rows = [s \in Session |-> [status |-> "NONE", owner |-> 0]] /\ lastSid = 0
  /\ table = "missing" /\ purge = "no"
  /\ sequential = TRUE /\ dbFailed = FALSE

Status(s) == rows[s].status
SomeActive == \E s \in Session : Status(s) = "ACTIVE"
Busy == (\E r \in Request : start[r] \in Starting) \/ (\E k \in Stopper : stop[k] \in Stopping)

-----------------------------------------------------------------------------
(* db_writer.py *)

(* CREATE TABLE IF NOT EXISTS; a failure is passed over. *)
TableCreated ==
  /\ table' \in {table, "there"}
  /\ dbFailed' = (dbFailed \/ table' = "missing")

(* cleanup_stale_sessions(): one UPDATE, over the rows of whomever. *)
Aborted ==
  [s \in Session |-> IF Status(s) = "ACTIVE" THEN [rows[s] EXCEPT !.status = "ABORTED"] ELSE rows[s]]

CleanedRows ==
  \/ table = "there" /\ rows' = Aborted /\ UNCHANGED dbFailed
  \/ dbFailed' = TRUE /\ UNCHANGED rows

-----------------------------------------------------------------------------
(* Starting *)

(* start() up to its first await. *)
Begin(r) ==
  /\ running' = TRUE
  /\ start' = [start EXCEPT ![r] = "balance"]
  /\ sequential' = (sequential /\ ~Busy /\ \A q \in Request : start[q] \notin Piped)
  /\ UNCHANGED <<isRunning, shutdown, initialized, sid>>

(* POST /sessions/start asks for the active session first. *)
StartSession(r) ==
  /\ up /\ start[r] = Idle
  /\ start' = [start EXCEPT ![r] = "asked"]
  /\ UNCHANGED <<up, inc, flags, stop, work, db, sequential, dbFailed>>

(* It joins the session it is told of; when the answer is none, or the      *)
(* statement fails, it starts the system.                                   *)
JoinOrBegin(r) ==
  /\ up /\ start[r] = "asked"
  /\ \/ /\ SomeActive
        /\ start' = [start EXCEPT ![r] = "returned"]
        /\ UNCHANGED <<flags, sequential, dbFailed>>
     \/ Begin(r) /\ dbFailed' = (dbFailed \/ SomeActive)
  /\ UNCHANGED <<up, inc, stop, work, db>>

(* start_simulation(), POST /sim/start, reads the flag instead.             *)
StartSimulation(r) ==
  /\ up /\ start[r] = Idle /\ ~running
  /\ Begin(r)
  /\ UNCHANGED <<up, inc, stop, work, db, dbFailed>>

(* The balance is there and start_session() begins. *)
EnterStartSession(r) ==
  /\ up /\ start[r] = "balance"
  /\ start' = [start EXCEPT ![r] = IF initialized THEN "insert" ELSE "tables"]
  /\ UNCHANGED <<up, inc, flags, stop, work, db, sequential, dbFailed>>

(* initialize() is marked as done before the rows are cleaned up. *)
Initialize(r) ==
  /\ up /\ start[r] = "tables"
  /\ TableCreated
  /\ initialized' = TRUE
  /\ start' = [start EXCEPT ![r] = "cleanup"]
  /\ UNCHANGED <<up, inc, running, isRunning, shutdown, sid, stop, work, rows, lastSid, purge,
                 sequential>>

Cleanup(r) ==
  /\ up /\ start[r] = "cleanup"
  /\ CleanedRows
  /\ start' = [start EXCEPT ![r] = "insert"]
  /\ UNCHANGED <<up, inc, flags, stop, work, lastSid, table, purge, sequential>>

(* The row is inserted, the loops are created and the pipeline is entered.  *)
InsertSession(r) ==
  /\ up /\ start[r] = "insert" /\ table = "there" /\ lastSid < MaxSession
  /\ lastSid' = lastSid + 1 /\ sid' = lastSid'
  /\ rows' = [rows EXCEPT ![sid'] = [status |-> "ACTIVE", owner |-> inc]]
  /\ isRunning' = TRUE
  /\ loops' = [loops EXCEPT ![sid'] = "head"]
  /\ start' = [start EXCEPT ![r] = "head"]
  /\ UNCHANGED <<up, inc, running, shutdown, initialized, stop, tick, coros, table, purge,
                 sequential, dbFailed>>

(* start() raises and leaves _running as it is. *)
InsertFails(r) ==
  /\ up /\ start[r] = "insert"
  /\ start' = [start EXCEPT ![r] = "returned"] /\ dbFailed' = TRUE
  /\ UNCHANGED <<up, inc, flags, stop, work, db, sequential>>

-----------------------------------------------------------------------------
(* The pipeline *)

(* Mutant: only the flag is read, which the next start sets again. *)
PipelineGoesOnWhileRunning == running

PipelineGoesOn == running /\ ~shutdown

Round(r) ==
  /\ up /\ start[r] = "head" /\ PipelineGoesOn /\ tick[r] < MaxTick
  /\ tick' = [tick EXCEPT ![r] = @ + 1]
  /\ coros' = coros \cup ({r} \X {tick'[r]} \X Symbol)
  /\ start' = [start EXCEPT ![r] = "round"]
  /\ UNCHANGED <<up, inc, flags, stop, loops, db, sequential, dbFailed>>

(* A coroutine of this round or of an earlier one returns. *)
ProcessSymbol(c) ==
  /\ up /\ c \in coros
  /\ coros' = coros \ {c}
  /\ UNCHANGED <<up, inc, flags, start, stop, tick, loops, db, sequential, dbFailed>>

(* It raises: gather() raises too if it still waits for it, and leaves the  *)
(* others behind.                                                           *)
ProcessSymbolFails(c) ==
  /\ up /\ c \in coros
  /\ coros' = coros \ {c}
  /\ start' = IF start[c[1]] = "round" /\ tick[c[1]] = c[2]
              THEN [start EXCEPT ![c[1]] = "pause"] ELSE start
  /\ UNCHANGED <<up, inc, flags, stop, tick, loops, db, sequential, dbFailed>>

Gathered(r) ==
  /\ up /\ start[r] = "round" /\ ~ \E c \in coros : c[1] = r /\ c[2] = tick[r]
  /\ start' = [start EXCEPT ![r] = "pause"]
  /\ UNCHANGED <<up, inc, flags, stop, work, db, sequential, dbFailed>>

Awake(r) ==
  /\ up /\ start[r] = "pause"
  /\ start' = [start EXCEPT ![r] = "head"]
  /\ UNCHANGED <<up, inc, flags, stop, work, db, sequential, dbFailed>>

LeavePipeline(r) ==
  /\ up /\ start[r] = "head" /\ ~PipelineGoesOn
  /\ start' = [start EXCEPT ![r] = "returned"]
  /\ UNCHANGED <<up, inc, flags, stop, work, db, sequential, dbFailed>>

-----------------------------------------------------------------------------
(* lifecycle_tasks.py: the loop that writes snapshots, for all three *)

(* One turn of pnl_recording_loop() of session s: the flag is read, the     *)
(* balance awaited, the snapshot sent.                                      *)
SnapshotLoop(s) ==
  /\ up /\ loops[s] # "off"
  /\ loops' = [loops EXCEPT ![s] = IF @ = "balance" THEN "head"
                                   ELSE IF isRunning THEN "balance" ELSE "off"]
  /\ UNCHANGED <<up, inc, flags, start, stop, tick, coros, db, sequential, dbFailed>>

-----------------------------------------------------------------------------
(* Stopping *)

(* Mutant: the loops are left to notice the flag. *)
StopSystemLeavesTasks(k) ==
  /\ up /\ stop[k] = Idle
  /\ stop' = [stop EXCEPT ![k] = "stopping"]
  /\ running' = FALSE /\ isRunning' = FALSE /\ shutdown' = TRUE
  /\ sequential' = (sequential /\ ~Busy)
  /\ UNCHANGED <<up, inc, initialized, sid, start, work, db, dbFailed>>

(* stop() up to its first await; tasks are cancelled where they wait. *)
StopSystem(k) ==
  /\ up /\ stop[k] = Idle
  /\ stop' = [stop EXCEPT ![k] = "stopping"]
  /\ running' = FALSE /\ isRunning' = FALSE /\ shutdown' = TRUE
  /\ loops' = [s \in Session |-> "off"]
  /\ sequential' = (sequential /\ ~Busy)
  /\ UNCHANGED <<up, inc, initialized, sid, start, tick, coros, db, dbFailed>>

(* Mutant: the session is closed whether there is one or not. *)
StoppedAlways(k) ==
  /\ up /\ stop[k] = "stopping"
  /\ stop' = [stop EXCEPT ![k] = "closing"]
  /\ UNCHANGED <<up, inc, flags, start, work, db, sequential, dbFailed>>

(* Mutant: the session is closed if the system runs, which it no longer does. *)
StoppedIfRunning(k) ==
  /\ up /\ stop[k] = "stopping"
  /\ stop' = [stop EXCEPT ![k] = IF running /\ sid # None THEN "closing" ELSE "returned"]
  /\ UNCHANGED <<up, inc, flags, start, work, db, sequential, dbFailed>>

(* Bus, broker and embedding worker have stopped. *)
Stopped(k) ==
  /\ up /\ stop[k] = "stopping"
  /\ stop' = [stop EXCEPT ![k] = IF sid = None THEN "returned" ELSE "closing"]
  /\ UNCHANGED <<up, inc, flags, start, work, db, sequential, dbFailed>>

(* stop_session(), for the session that is current by now.  The UPDATE      *)
(* finds no row after a purge.                                              *)
CloseSession(k) ==
  /\ up /\ stop[k] = "closing"
  /\ \/ /\ table = "there"
        /\ rows' = IF Status(sid) = "NONE" THEN rows
                   ELSE [rows EXCEPT ![sid].status = "COMPLETED"]
        /\ UNCHANGED dbFailed
     \/ dbFailed' = TRUE /\ UNCHANGED rows
  /\ stop' = [stop EXCEPT ![k] = "returned"]
  /\ UNCHANGED <<up, inc, flags, start, work, lastSid, table, purge, sequential>>

-----------------------------------------------------------------------------
(* Other writers *)

(* POST /forensic_notes makes a writer of its own each time, which makes    *)
(* the tables and cleans up before it inserts the note.                     *)
ForensicNote ==
  /\ up
  /\ table' = "there" /\ rows' = Aborted
  /\ UNCHANGED <<up, inc, flags, start, stop, work, lastSid, purge, sequential, dbFailed>>

(* POST /sessions/purge, with a writer of its own too: the table is         *)
(* dropped, and a failure passed over, *)
Purge ==
  /\ up /\ purge = "no"
  /\ \/ /\ rows' = [s \in Session |-> [status |-> "NONE", owner |-> 0]]
        /\ table' = "missing"
        /\ UNCHANGED dbFailed
     \/ dbFailed' = TRUE /\ UNCHANGED <<rows, table>>
  /\ purge' = "tables"
  /\ UNCHANGED <<up, inc, flags, start, stop, work, lastSid, sequential>>

(* made again, *)
PurgeCreates ==
  /\ up /\ purge = "tables"
  /\ TableCreated
  /\ purge' = "cleanup"
  /\ UNCHANGED <<up, inc, flags, start, stop, work, rows, lastSid, sequential>>

(* and cleaned of the sessions inserted since. *)
PurgeCleans ==
  /\ up /\ purge = "cleanup"
  /\ CleanedRows
  /\ purge' = "no"
  /\ UNCHANGED <<up, inc, flags, start, stop, work, lastSid, table, sequential>>

-----------------------------------------------------------------------------

Crash ==
  /\ up /\ inc < MaxIncarnation
  /\ up' = FALSE /\ Fresh /\ purge' = "no"
  /\ UNCHANGED <<inc, rows, lastSid, table>>

(* Mutant: the new process takes the tables for initialized. *)
RestartInitialized ==
  /\ ~up /\ up' = TRUE /\ inc' = inc + 1
  /\ initialized' = TRUE
  /\ UNCHANGED <<running, isRunning, shutdown, sid, start, stop, work, db, sequential, dbFailed>>

Restart ==
  /\ ~up /\ up' = TRUE /\ inc' = inc + 1
  /\ UNCHANGED <<flags, start, stop, work, db, sequential, dbFailed>>

StartStep(r) ==
  \/ JoinOrBegin(r) \/ EnterStartSession(r) \/ Initialize(r) \/ Cleanup(r)
  \/ InsertSession(r) \/ InsertFails(r)

PipelineStep(r) == Round(r) \/ Gathered(r) \/ Awake(r) \/ LeavePipeline(r)

StopStep(k) == Stopped(k) \/ CloseSession(k)

Next ==
  \/ \E r \in Request :
       StartSession(r) \/ StartSimulation(r) \/ StartStep(r) \/ PipelineStep(r)
  \/ \E c \in coros : ProcessSymbol(c) \/ ProcessSymbolFails(c)
  \/ \E s \in Session : SnapshotLoop(s)
  \/ \E k \in Stopper : StopSystem(k) \/ StopStep(k)
  \/ ForensicNote \/ Purge \/ PurgeCreates \/ PurgeCleans
  \/ Crash \/ Restart

(* Every await of a pipeline returns: sleeps are finite, the calls of the   *)
(* models and of the broker have timeouts.                                  *)
Fairness ==
  /\ \A r \in Request : WF_vars(PipelineStep(r))
  /\ WF_vars(\E c \in coros : ProcessSymbol(c))

Spec == Init /\ [][Next]_vars
FairSpec == Spec /\ Fairness

-----------------------------------------------------------------------------

(* A pipeline or a loop exists only where a session was inserted, and the   *)
(* session a stop is about to close is one.                                 *)
TypeOK ==
  /\ up \in BOOLEAN /\ inc \in 1 .. MaxIncarnation
  /\ {running, isRunning, shutdown, initialized, sequential, dbFailed} \subseteq BOOLEAN
  /\ lastSid \in Session \cup {None} /\ sid \in 0 .. lastSid
  /\ start \in [Request -> {Idle, "asked", "returned"} \cup Starting \cup Piped]
  /\ stop \in [Stopper -> {Idle, "returned"} \cup Stopping]
  /\ tick \in [Request -> 0 .. MaxTick]
  /\ coros \subseteq Request \X (1 .. MaxTick) \X Symbol
  /\ loops \in [Session -> {"off", "head", "balance"}]
  /\ rows \in [Session -> [status : {"NONE", "ACTIVE", "ABORTED", "COMPLETED"},
                           owner : 0 .. MaxIncarnation]]
  /\ table \in {"there", "missing"} /\ purge \in {"no", "tables", "cleanup"}
  /\ \A s \in Session : loops[s] # "off" => s <= lastSid
  /\ \A k \in Stopper : stop[k] = "closing" => sid # None
  /\ \A r \in Request : start[r] \in Piped => sid # None

(* What a crash left behind is not taken for a session of the new process:  *)
(* once a start has gone through, and no statement failed, the active rows  *)
(* are all this process's own.                                              *)
OrphansAborted ==
  (~dbFailed /\ (\E r \in Request : start[r] \in Piped)
             /\ \A r \in Request : start[r] # "cleanup")
  => \A s \in Session : Status(s) = "ACTIVE" => rows[s].owner = inc

(* Calls made one at a time: once stop() has returned and until the next    *)
(* start, no session of this process is left active.                        *)
StoppedClean ==
  (/\ up /\ sequential /\ ~dbFailed /\ ~running /\ ~Busy
   /\ \E k \in Stopper : stop[k] = "returned")
  => \A s \in Session : rows[s].owner = inc => Status(s) # "ACTIVE"

(* Calls made one at a time: no snapshot is written to a session that was   *)
(* completed, however the stop falls between the awaits of the loop.        *)
NoLoopOnCompleted ==
  sequential => \A s \in Session : loops[s] # "off" => Status(s) # "COMPLETED"

(* Only sessions of processes that are gone are aborted.                    *)
OnlyOrphansAborted ==
  \A s \in Session : Status(s) = "ABORTED" => rows[s].owner # inc \/ ~up

(* A stop ends every pipeline that runs, with the round it is in, also when *)
(* the system is started again before the pipeline looks.                   *)
StopEndsPipelines ==
  \A r \in Request : (shutdown /\ start[r] \in Piped) ~> (start[r] \notin Piped)
================================================================================
