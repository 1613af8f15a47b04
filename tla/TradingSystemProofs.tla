--------------------------- MODULE TradingSystemProofs --------------------------
(***************************************************************************)
(* Proofs about the life of the trading system, for any number of callers,  *)
(* symbols, sessions and crashes: the invariants of the session rows and of *)
(* the loops that write to them.                                            *)
(***************************************************************************)
EXTENDS TradingSystem, TLAPS

Own(s) == Status(s) = "ACTIVE" /\ rows[s].owner = inc
NoneOwn == \A s \in Session : ~Own(s)

(* A dead process has nothing; its successor is not the last but one. *)
Down ==
  ~up => /\ inc < MaxIncarnation /\ ~initialized /\ sid = None
         /\ \A r \in Request : start[r] = Idle
         /\ \A k \in Stopper : stop[k] = Idle
         /\ \A s \in Session : loops[s] = "off"

Owners == \A s \in Session : rows[s].owner <= inc

(* A start that has passed initialize() finds the tables initialized; and   *)
(* initialized tables are clean unless a cleanup is still to come or failed.*)
CleanedUp ==
  /\ \A r \in Request : start[r] \in {"cleanup", "insert"} \cup Piped => initialized
  /\ (initialized /\ ~dbFailed /\ \A r \in Request : start[r] # "cleanup")
       => \A s \in Session : Status(s) = "ACTIVE" => rows[s].owner = inc

(* What "one at a time" means for the calls under way. *)
OneAtATime ==
  sequential =>
    /\ \A r, q \in Request : start[r] \in Starting /\ start[q] \in Starting => r = q
    /\ \A k, j \in Stopper : stop[k] \in Stopping /\ stop[j] \in Stopping => k = j
    /\ \A r \in Request : \A k \in Stopper : ~(start[r] \in Starting /\ stop[k] \in Stopping)
    /\ \A r \in Request : start[r] \in Starting => running

(* Then only the current session can be an active row of this process, and  *)
(* none is while a start is under way or the system is stopped.             *)
OwnRow ==
  up /\ sequential /\ ~dbFailed =>
    /\ \A s \in Session : Own(s) => s = sid
    /\ (\E r \in Request : start[r] \in Starting) => NoneOwn
    /\ ~running /\ ~Busy => NoneOwn

(* A stop leaves no loop for the moment at which it closes the session. *)
LoopsStopped ==
  sequential /\ (\E k \in Stopper : stop[k] \in Stopping) => \A s \in Session : loops[s] = "off"

(* The type, but for the table, on which nothing else depends. *)
Core ==
  /\ up \in BOOLEAN /\ inc \in 1 .. MaxIncarnation
  /\ {running, isRunning, shutdown, initialized, sequential, dbFailed} \subseteq BOOLEAN
  /\ lastSid \in Session \cup {None} /\ sid \in 0 .. lastSid
  /\ start \in [Request -> {Idle, "asked", "returned"} \cup Starting \cup Piped]
  /\ stop \in [Stopper -> {Idle, "returned"} \cup Stopping]
  /\ tick \in [Request -> 0 .. MaxTick]
  /\ coros \subseteq Request \X (1 .. MaxTick) \X Symbol
  /\ loops \in [Session -> {"off", "head", "balance"}]
  /\ rows \in [Session -> [status : {"NONE", "ACTIVE", "ABORTED", "COMPLETED"},
                           owner : 0 .. MaxIncarnation]]
  /\ \A s \in Session : loops[s] # "off" => s <= lastSid
  /\ \A k \in Stopper : stop[k] = "closing" => sid # None
  /\ \A r \in Request : start[r] \in Piped => sid # None
TableOK == table \in {"there", "missing"} /\ purge \in {"no", "tables", "cleanup"}

Rest == Down /\ Owners /\ CleanedUp /\ OneAtATime /\ OwnRow /\ LoopsStopped /\ NoLoopOnCompleted

Inv == Core /\ Rest

LEMMA Parameters ==
  /\ MaxSession \in Nat \ {0} /\ MaxTick \in Nat \ {0} /\ MaxIncarnation \in Nat \ {0}
  /\ None = 0 /\ Session = 1 .. MaxSession
BY TradingSystemAssumption DEF TradingSystemAssumption, None, Session

LEMMA States ==
  /\ Starting = {"balance", "tables", "cleanup", "insert"}
  /\ Stopping = {"stopping", "closing"} /\ Piped = {"head", "round", "pause"}
  /\ Idle = "idle"
BY DEF Starting, Stopping, Piped, Idle

LEMMA InvInit == Init => Inv
<1> SUFFICES ASSUME Init PROVE Inv
  OBVIOUS
<1>1. Core
  <2>1. up \in BOOLEAN /\ {running, isRunning, shutdown, initialized, sequential, dbFailed} \subseteq BOOLEAN
    BY DEF Init
  <2>2. /\ inc \in 1 .. MaxIncarnation /\ lastSid \in Session \cup {None} /\ sid \in 0 .. lastSid
        /\ start \in [Request -> {Idle, "asked", "returned"} \cup Starting \cup Piped]
        /\ stop \in [Stopper -> {Idle, "returned"} \cup Stopping]
        /\ tick \in [Request -> 0 .. MaxTick]
        /\ coros \subseteq Request \X (1 .. MaxTick) \X Symbol
        /\ loops \in [Session -> {"off", "head", "balance"}]
    BY Parameters DEF Init
  <2>3. rows \in [Session -> [status : {"NONE", "ACTIVE", "ABORTED", "COMPLETED"},
                             owner : 0 .. MaxIncarnation]]
    BY Parameters DEF Init
  <2>4. /\ \A s \in Session : loops[s] # "off" => s <= lastSid
        /\ \A k \in Stopper : stop[k] = "closing" => sid # None
        /\ \A r \in Request : start[r] \in Piped => sid # None
    BY States DEF Init
  <2> QED
    BY <2>1, <2>2, <2>3, <2>4 DEF Core
<1>2. Down /\ Owners /\ CleanedUp /\ OneAtATime
  BY Parameters, States DEF Init, Down, Owners, CleanedUp, OneAtATime, Status
<1>3. OwnRow /\ LoopsStopped /\ NoLoopOnCompleted
  BY Parameters, States DEF Init, OwnRow, Own, NoneOwn, LoopsStopped, NoLoopOnCompleted, Status
<1> QED
  BY <1>1, <1>2, <1>3 DEF Inv, Rest

-----------------------------------------------------------------------------
(* Steps that touch neither rows nor flags. *)

(* A call moves outside of start() proper. *)
LEMMA QuietStep ==
  ASSUME Inv, up,
         UNCHANGED <<up, inc, flags, stop, loops, db, sequential, dbFailed>>,
         \A r \in Request : \/ start'[r] = start[r]
                            \/ /\ start[r] \notin Starting /\ start'[r] \notin Starting
                               /\ start'[r] \in Piped => start[r] \in Piped
  PROVE  Rest'
<1>1. UNCHANGED <<up, inc, running, isRunning, shutdown, initialized, sid, stop, loops, rows, lastSid,
                  sequential, dbFailed>>
  BY DEF flags, db
<1>2. \A r \in Request : /\ start'[r] \in Starting => start[r] \in Starting
                         /\ start[r] \in Starting => start'[r] = start[r]
                         /\ start'[r] \in Piped => start[r] \in Piped
  BY States
<1>3. \A r \in Request : /\ start'[r] = "cleanup" <=> start[r] = "cleanup"
                         /\ start'[r] = "insert" => start[r] = "insert"
  BY <1>2, States
<1>4. Busy' <=> Busy
  BY <1>1, <1>2 DEF Busy
<1>5. Down' /\ Owners'
  BY <1>1 DEF Inv, Rest, Down, Owners
<1>6. CleanedUp'
  BY <1>1, <1>2, <1>3 DEF Inv, Rest, CleanedUp, Status
<1>7. OneAtATime'
  BY <1>1, <1>2 DEF Inv, Rest, OneAtATime
<1>8. OwnRow'
  BY <1>1, <1>2, <1>4 DEF Inv, Rest, OwnRow, Own, NoneOwn, Status
<1>9. LoopsStopped' /\ NoLoopOnCompleted'
  BY <1>1 DEF Inv, Rest, LoopsStopped, NoLoopOnCompleted, Status
<1> QED
  BY <1>5, <1>6, <1>7, <1>8, <1>9 DEF Rest

LEMMA PipelineKeeps ==
  ASSUME Inv, NEW r \in Request, StartSession(r) \/ PipelineStep(r)
  PROVE  Inv'
<1>1. up /\ UNCHANGED <<up, inc, flags, stop, loops, db, sequential, dbFailed>>
  BY DEF StartSession, PipelineStep, Round, Gathered, Awake, LeavePipeline, work
<1>2. \/ start[r] = Idle /\ start' = [start EXCEPT ![r] = "asked"]
      \/ start[r] \in Piped /\ start' = [start EXCEPT ![r] = "round"]
      \/ start[r] \in Piped /\ start' = [start EXCEPT ![r] = "pause"]
      \/ start[r] \in Piped /\ start' = [start EXCEPT ![r] = "head"]
      \/ start[r] \in Piped /\ start' = [start EXCEPT ![r] = "returned"]
  BY States DEF StartSession, PipelineStep, Round, Gathered, Awake, LeavePipeline
<1>3. tick' \in [Request -> 0 .. MaxTick] /\ coros' \subseteq Request \X (1 .. MaxTick) \X Symbol
  <2>1. CASE Round(r)
    <3>1. tick[r] + 1 \in 1 .. MaxTick
      BY <2>1, Parameters DEF Round, Inv, Core
    <3>2. tick' = [tick EXCEPT ![r] = tick[r] + 1]
      BY <2>1 DEF Round
    <3>3. tick' \in [Request -> 0 .. MaxTick] /\ tick'[r] = tick[r] + 1
      BY <3>1, <3>2 DEF Inv, Core
    <3>4. {r} \X {tick'[r]} \X Symbol \subseteq Request \X (1 .. MaxTick) \X Symbol
      BY <3>1, <3>3
    <3> QED
      BY <2>1, <3>3, <3>4 DEF Round, Inv, Core
  <2>2. CASE ~Round(r)
    BY <2>2 DEF StartSession, PipelineStep, Gathered, Awake, LeavePipeline, work, Inv, Core
  <2> QED
    BY <2>1, <2>2
<1>4. /\ start' \in [Request -> {Idle, "asked", "returned"} \cup Starting \cup Piped]
      /\ \A q \in Request : \/ start'[q] = start[q]
                            \/ /\ start[q] \notin Starting /\ start'[q] \notin Starting
                               /\ start'[q] \in Piped => start[q] \in Piped
  BY <1>2, States DEF Inv, Core
<1>5. Core'
  BY <1>1, <1>3, <1>4 DEF Inv, Core, flags, db
<1> QED
  BY <1>1, <1>4, <1>5, QuietStep DEF Inv

LEMMA ProcessKeeps ==
  ASSUME Inv, NEW c \in coros, ProcessSymbol(c) \/ ProcessSymbolFails(c)
  PROVE  Inv'
<1>1. up /\ UNCHANGED <<up, inc, flags, stop, loops, db, sequential, dbFailed, tick>>
  BY DEF ProcessSymbol, ProcessSymbolFails
<1>2. coros' = coros \ {c}
  BY DEF ProcessSymbol, ProcessSymbolFails
<1>3. c[1] \in Request
  BY DEF Inv, Core
<1>4. \/ start' = start
      \/ start[c[1]] \in Piped /\ start' = [start EXCEPT ![c[1]] = "pause"]
  BY States DEF ProcessSymbol, ProcessSymbolFails
<1>5. /\ start' \in [Request -> {Idle, "asked", "returned"} \cup Starting \cup Piped]
      /\ \A q \in Request : \/ start'[q] = start[q]
                            \/ /\ start[q] \notin Starting /\ start'[q] \notin Starting
                               /\ start'[q] \in Piped => start[q] \in Piped
  BY <1>3, <1>4, States DEF Inv, Core
<1>6. Core'
  BY <1>1, <1>2, <1>5 DEF Inv, Core, flags, db
<1> QED
  BY <1>1, <1>5, <1>6, QuietStep DEF Inv

LEMMA SnapshotLoopKeeps == ASSUME Inv, NEW s \in Session, SnapshotLoop(s) PROVE Inv'
<1>1. /\ up /\ loops[s] # "off"
      /\ UNCHANGED <<up, inc, running, isRunning, shutdown, initialized, sid, start, stop, tick, coros,
                     rows, lastSid, sequential, dbFailed>>
  BY DEF SnapshotLoop, flags, db
<1>2. \E v \in {"off", "head", "balance"} : loops' = [loops EXCEPT ![s] = v]
  BY DEF SnapshotLoop
<1>3. /\ loops' \in [Session -> {"off", "head", "balance"}]
      /\ \A t \in Session : loops'[t] # "off" => loops[t] # "off"
  BY <1>1, <1>2 DEF Inv, Core
<1>4. Core'
  BY <1>1, <1>3 DEF Inv, Core
<1>5. Down' /\ Owners' /\ CleanedUp' /\ OneAtATime'
  BY <1>1 DEF Inv, Rest, Down, Owners, CleanedUp, OneAtATime, Status
<1>6. OwnRow'
  BY <1>1 DEF Inv, Rest, OwnRow, Own, NoneOwn, Status, Busy
<1>7. LoopsStopped' /\ NoLoopOnCompleted'
  BY <1>1, <1>3 DEF Inv, Rest, LoopsStopped, NoLoopOnCompleted, Status
<1> QED
  BY <1>4, <1>5, <1>6, <1>7 DEF Inv, Rest

-----------------------------------------------------------------------------
(* Starting. *)

RowType == [Session -> [status : {"NONE", "ACTIVE", "ABORTED", "COMPLETED"}, owner : 0 .. MaxIncarnation]]

LEMMA AbortedRows == rows \in RowType => Aborted \in RowType
<1> SUFFICES ASSUME rows \in RowType PROVE Aborted \in RowType
  OBVIOUS
<1>1. \A s \in Session : rows[s] \in [status : {"NONE", "ACTIVE", "ABORTED", "COMPLETED"},
                                    owner : 0 .. MaxIncarnation]
  BY DEF RowType
<1>2. \A s \in Session :
        Aborted[s] = IF Status(s) = "ACTIVE" THEN [rows[s] EXCEPT !.status = "ABORTED"] ELSE rows[s]
  BY DEF Aborted
<1>3. \A s \in Session : Aborted[s] \in [status : {"NONE", "ACTIVE", "ABORTED", "COMPLETED"},
                                       owner : 0 .. MaxIncarnation]
  BY <1>1, <1>2
<1> QED
  BY <1>3 DEF Aborted, RowType

LEMMA BeginKeeps ==
  ASSUME Inv, NEW r \in Request, up, start[r] \in {Idle, "asked"}, Begin(r),
         UNCHANGED <<up, inc, stop, work, db>>,
         dbFailed' \in BOOLEAN, dbFailed => dbFailed',
         ~dbFailed' => ~SomeActive \/ ~running
  PROVE  Inv'
<1>1. /\ running' = TRUE /\ start' = [start EXCEPT ![r] = "balance"]
      /\ sequential' = (sequential /\ ~Busy /\ \A q \in Request : start[q] \notin Piped)
      /\ UNCHANGED <<up, inc, isRunning, shutdown, initialized, sid, stop, tick, coros, loops, rows, lastSid>>
  BY DEF Begin, work, db
<1>2. /\ start' \in [Request -> {Idle, "asked", "returned"} \cup Starting \cup Piped]
      /\ start'[r] = "balance" /\ \A q \in Request : q # r => start'[q] = start[q]
  BY <1>1, States DEF Inv, Core
<1>3. sequential' \in BOOLEAN /\ (sequential' => sequential /\ ~Busy)
  BY <1>1
<1>4. Core'
  <2>1. {running', isRunning', shutdown', initialized', sequential', dbFailed'} \subseteq BOOLEAN
    BY <1>1, <1>3 DEF Inv, Core
  <2>2. \A q \in Request : start'[q] \in Piped => sid # None
    BY <1>2, States DEF Inv, Core
  <2> QED
    BY <1>1, <1>2, <2>1, <2>2 DEF Inv, Core
<1>5. Down' /\ Owners'
  BY <1>1 DEF Inv, Rest, Down, Owners
<1>6. CleanedUp'
  <2>1. \A q \in Request : start'[q] \in {"cleanup", "insert"} \cup Piped => start'[q] = start[q]
    BY <1>2, States
  <2>2. (\A q \in Request : start'[q] # "cleanup") => \A q \in Request : start[q] # "cleanup"
    BY <1>2, States
  <2> QED
    BY <1>1, <2>1, <2>2 DEF Inv, Rest, CleanedUp, Status
<1>7. OneAtATime'
  <2>1. SUFFICES ASSUME sequential' PROVE OneAtATime'
    BY DEF OneAtATime
  <2>2. \A q \in Request : start'[q] \in Starting => q = r
    BY <1>2, <1>3, <2>1 DEF Busy
  <2>3. \A k \in Stopper : stop'[k] \notin Stopping
    BY <1>1, <1>3, <2>1 DEF Busy
  <2> QED
    BY <1>1, <2>2, <2>3 DEF OneAtATime
<1>8. OwnRow'
  <2>1. SUFFICES ASSUME sequential', ~dbFailed' PROVE OwnRow'
    BY DEF OwnRow
  <2>2. sequential /\ ~Busy /\ ~dbFailed
    BY <1>3, <2>1
  <2>3. NoneOwn
    BY <2>1, <2>2 DEF Inv, Rest, OwnRow, SomeActive, NoneOwn, Own
  <2>4. NoneOwn'
    BY <1>1, <2>3 DEF NoneOwn, Own, Status
  <2> QED
    BY <1>1, <2>4 DEF OwnRow, NoneOwn
<1>9. LoopsStopped'
  BY <1>1, <1>3 DEF LoopsStopped, Busy
<1>10. NoLoopOnCompleted'
  BY <1>1, <1>3 DEF Inv, Rest, NoLoopOnCompleted, Status
<1> QED
  BY <1>4, <1>5, <1>6, <1>7, <1>8, <1>9, <1>10 DEF Inv, Rest

LEMMA JoinOrBeginKeeps ==
  ASSUME Inv, NEW r \in Request, JoinOrBegin(r) PROVE Inv'
<1>1. up /\ start[r] = "asked" /\ UNCHANGED <<up, inc, stop, work, db>>
  BY DEF JoinOrBegin
<1>2. CASE start' = [start EXCEPT ![r] = "returned"] /\ UNCHANGED <<flags, sequential, dbFailed>>
  <2>1. /\ start' \in [Request -> {Idle, "asked", "returned"} \cup Starting \cup Piped]
        /\ \A q \in Request : \/ start'[q] = start[q]
                              \/ /\ start[q] \notin Starting /\ start'[q] \notin Starting
                                 /\ start'[q] \in Piped => start[q] \in Piped
    BY <1>1, <1>2, States DEF Inv, Core
  <2>2. Core'
    BY <1>1, <1>2, <2>1 DEF Inv, Core, flags, db, work
  <2>3. UNCHANGED <<up, inc, flags, stop, loops, db, sequential, dbFailed>>
    BY <1>1, <1>2 DEF work
  <2> QED
    BY <1>1, <2>1, <2>2, <2>3, QuietStep DEF Inv
<1>3. CASE Begin(r) /\ dbFailed' = (dbFailed \/ SomeActive)
  BY <1>1, <1>3, BeginKeeps
<1> QED
  BY <1>2, <1>3 DEF JoinOrBegin

LEMMA StartSimulationKeeps ==
  ASSUME Inv, NEW r \in Request, StartSimulation(r) PROVE Inv'
<1>1. /\ up /\ start[r] = Idle /\ ~running /\ Begin(r)
      /\ UNCHANGED <<up, inc, stop, work, db, dbFailed>>
  BY DEF StartSimulation
<1>2. dbFailed \in BOOLEAN
  BY DEF Inv, Core
<1> QED
  BY <1>1, <1>2, BeginKeeps

(* A start goes on inside start(); a cleanup may happen on the way. *)
LEMMA StartingMoves ==
  ASSUME Inv, NEW r \in Request, NEW pc \in Starting, up, start[r] \in Starting,
         start' = [start EXCEPT ![r] = pc],
         UNCHANGED <<up, inc, running, isRunning, shutdown, sid, stop, work, lastSid, sequential>>,
         initialized' \in BOOLEAN, dbFailed' \in BOOLEAN, dbFailed => dbFailed',
         rows' \in {rows, Aborted}
  PROVE  /\ Core'
         /\ Down' /\ Owners' /\ OneAtATime' /\ OwnRow' /\ LoopsStopped' /\ NoLoopOnCompleted'
         /\ start'[r] = pc /\ \A q \in Request : q # r => start'[q] = start[q]
<1>1. /\ start' \in [Request -> {Idle, "asked", "returned"} \cup Starting \cup Piped]
      /\ start'[r] = pc /\ \A q \in Request : q # r => start'[q] = start[q]
  BY DEF Inv, Core
<1>2. \A q \in Request : /\ start'[q] \in Starting <=> start[q] \in Starting
                         /\ start'[q] \in Piped => start[q] \in Piped
  BY <1>1, States
<1>3. rows \in RowType /\ rows' \in RowType
  <2>1. rows \in RowType
    BY DEF Inv, Core, RowType
  <2> QED
    BY <2>1, AbortedRows
<1>4. \A s \in Session : /\ Aborted[s].status # "ACTIVE"
                         /\ Aborted[s].owner = rows[s].owner
                         /\ Aborted[s].status = "COMPLETED" => rows[s].status = "COMPLETED"
  BY <1>3 DEF Aborted, Status, RowType
<1>5. ASSUME NEW s \in Session
       PROVE  /\ Status(s)' = "ACTIVE" => Status(s) = "ACTIVE"
              /\ rows'[s].owner = rows[s].owner
              /\ Status(s)' = "COMPLETED" => Status(s) = "COMPLETED"
  <2>1. CASE rows' = rows
    BY <2>1 DEF Status
  <2>2. CASE rows' = Aborted
    BY <1>4, <2>2 DEF Status
  <2> QED
    BY <2>1, <2>2
<1>6. UNCHANGED <<up, inc, running, isRunning, shutdown, sid, stop, tick, coros, loops, lastSid, sequential>>
  BY DEF work
<1>7. Core'
  <2>1. {running', isRunning', shutdown', initialized', sequential', dbFailed'} \subseteq BOOLEAN
    BY DEF Inv, Core
  <2>2. \A q \in Request : start'[q] \in Piped => sid # None
    BY <1>2 DEF Inv, Core
  <2> QED
    BY <1>1, <1>3, <1>6, <2>1, <2>2 DEF Inv, Core, RowType
<1>8. Down' /\ Owners'
  BY <1>6, <1>5 DEF Inv, Rest, Down, Owners
<1>9. OneAtATime'
  BY <1>2, <1>6 DEF Inv, Rest, OneAtATime
<1>10. Busy' <=> Busy
  BY <1>2, <1>6 DEF Busy
<1>11. OwnRow'
  <2>1. \A s \in Session : Own(s)' => Own(s)
    BY <1>6, <1>5 DEF Own
  <2> QED
    BY <1>2, <1>6, <1>10, <2>1 DEF Inv, Rest, OwnRow, NoneOwn
<1>12. LoopsStopped'
  BY <1>6 DEF Inv, Rest, LoopsStopped
<1>13. NoLoopOnCompleted'
  BY <1>6, <1>5 DEF Inv, Rest, NoLoopOnCompleted
<1> QED
  BY <1>1, <1>7, <1>8, <1>9, <1>11, <1>12, <1>13

LEMMA EnterStartSessionKeeps ==
  ASSUME Inv, NEW r \in Request, EnterStartSession(r) PROVE Inv'
<1> DEFINE pc == IF initialized THEN "insert" ELSE "tables"
<1>1. /\ up /\ start[r] \in Starting /\ pc \in Starting
      /\ start' = [start EXCEPT ![r] = pc]
      /\ UNCHANGED <<up, inc, running, isRunning, shutdown, sid, stop, work, lastSid, sequential>>
      /\ UNCHANGED <<rows, initialized, dbFailed>>
      /\ start[r] = "balance"
  BY States DEF EnterStartSession, flags, db
<1>2. initialized' \in BOOLEAN /\ dbFailed' \in BOOLEAN /\ (dbFailed => dbFailed') /\ rows' \in {rows, Aborted}
  BY <1>1 DEF Inv, Core
<1> HIDE DEF pc
<1>3. /\ Core'
      /\ Down' /\ Owners' /\ OneAtATime' /\ OwnRow' /\ LoopsStopped' /\ NoLoopOnCompleted'
      /\ start'[r] = pc /\ \A q \in Request : q # r => start'[q] = start[q]
  BY <1>1, <1>2, StartingMoves
<1>4. CleanedUp'
  <2>1. \A q \in Request : start'[q] = "cleanup" <=> start[q] = "cleanup"
    BY <1>1, <1>3 DEF pc
  <2>2. \A q \in Request : start'[q] \in {"cleanup", "insert"} \cup Piped => initialized
    BY <1>1, <1>3, States DEF pc, Inv, Rest, CleanedUp
  <2> QED
    BY <1>1, <2>1, <2>2 DEF Inv, Rest, CleanedUp, Status
<1> QED
  BY <1>3, <1>4 DEF Inv, Rest

LEMMA InitializeKeeps ==
  ASSUME Inv, NEW r \in Request, Initialize(r) PROVE Inv'
<1>1. /\ up /\ start[r] \in Starting /\ "cleanup" \in Starting
      /\ start' = [start EXCEPT ![r] = "cleanup"]
      /\ UNCHANGED <<up, inc, running, isRunning, shutdown, sid, stop, work, lastSid, sequential>>
      /\ rows' = rows /\ initialized' = TRUE
      /\ dbFailed' = (dbFailed \/ table' = "missing")
  BY States DEF Initialize, TableCreated
<1>2. initialized' \in BOOLEAN /\ dbFailed' \in BOOLEAN /\ (dbFailed => dbFailed') /\ rows' \in {rows, Aborted}
  BY <1>1 DEF Inv, Core
<1>3. /\ Core'
      /\ Down' /\ Owners' /\ OneAtATime' /\ OwnRow' /\ LoopsStopped' /\ NoLoopOnCompleted'
      /\ start'[r] = "cleanup"
  BY <1>1, <1>2, StartingMoves
<1>4. CleanedUp'
  BY <1>1, <1>3 DEF CleanedUp
<1> QED
  BY <1>3, <1>4 DEF Inv, Rest

LEMMA CleanupKeeps ==
  ASSUME Inv, NEW r \in Request, Cleanup(r) PROVE Inv'
<1>1. /\ up /\ start[r] \in Starting /\ "insert" \in Starting
      /\ start' = [start EXCEPT ![r] = "insert"]
      /\ UNCHANGED <<up, inc, running, isRunning, shutdown, sid, stop, work, lastSid, sequential>>
      /\ UNCHANGED initialized /\ start[r] = "cleanup"
      /\ \/ rows' = Aborted /\ UNCHANGED dbFailed
         \/ dbFailed' = TRUE /\ UNCHANGED rows
  BY States DEF Cleanup, CleanedRows, flags
<1>2. initialized' \in BOOLEAN /\ dbFailed' \in BOOLEAN /\ (dbFailed => dbFailed') /\ rows' \in {rows, Aborted}
  <2>1. CASE rows' = Aborted /\ UNCHANGED dbFailed
    BY <1>1, <2>1 DEF Inv, Core
  <2>2. CASE dbFailed' = TRUE /\ UNCHANGED rows
    BY <1>1, <2>2 DEF Inv, Core
  <2> QED
    BY <1>1, <2>1, <2>2
<1>3. /\ Core'
      /\ Down' /\ Owners' /\ OneAtATime' /\ OwnRow' /\ LoopsStopped' /\ NoLoopOnCompleted'
      /\ start'[r] = "insert" /\ \A q \in Request : q # r => start'[q] = start[q]
  BY <1>1, <1>2, StartingMoves
<1>4. CleanedUp'
  <2>1. initialized
    BY <1>1 DEF Inv, Rest, CleanedUp
  <2>2. rows \in RowType
    BY DEF Inv, Core, RowType
  <2>3. \A s \in Session : /\ Aborted[s].status # "ACTIVE"
                           /\ Aborted[s].owner = rows[s].owner
                           /\ Aborted[s].status = "COMPLETED" => rows[s].status = "COMPLETED"
    BY <2>2 DEF Aborted, Status, RowType
  <2>4. ~dbFailed' => \A s \in Session : Status(s)' # "ACTIVE"
    BY <1>1, <2>3 DEF Status
  <2> QED
    BY <1>1, <2>1, <2>4 DEF CleanedUp
<1> QED
  BY <1>3, <1>4 DEF Inv, Rest

(* Under "one at a time" the start was the only call under way, so the row  *)
(* it inserts is the only active one of this process.                       *)
LEMMA InsertSessionKeeps ==
  ASSUME Inv, NEW r \in Request, InsertSession(r) PROVE Inv'
<1> DEFINE new == [status |-> "ACTIVE", owner |-> inc]
<1>1. /\ up /\ start[r] = "insert" /\ lastSid < MaxSession
      /\ lastSid' = lastSid + 1 /\ sid' = lastSid'
      /\ rows' = [rows EXCEPT ![sid'] = new]
      /\ isRunning' = TRUE
      /\ loops' = [loops EXCEPT ![sid'] = "head"]
      /\ start' = [start EXCEPT ![r] = "head"]
      /\ UNCHANGED <<up, inc, running, shutdown, initialized, stop, tick, coros, sequential, dbFailed>>
  BY DEF InsertSession
<1>2. inc \in 1 .. MaxIncarnation /\ lastSid \in 0 .. MaxSession /\ rows \in RowType
  BY Parameters DEF Inv, Core, RowType
<1>3. sid' \in Session /\ sid' # None /\ sid' = lastSid + 1
  BY <1>1, <1>2, Parameters
<1>4. new \in [status : {"NONE", "ACTIVE", "ABORTED", "COMPLETED"}, owner : 0 .. MaxIncarnation]
  BY <1>2, Parameters
<1>5. /\ rows' \in RowType /\ rows'[sid'] = new
      /\ \A s \in Session : s # sid' => rows'[s] = rows[s]
  BY <1>1, <1>2, <1>3, <1>4 DEF RowType
<1>6. /\ loops' \in [Session -> {"off", "head", "balance"}]
      /\ \A s \in Session : s # sid' => loops'[s] = loops[s]
  BY <1>1, <1>3 DEF Inv, Core
<1>7. /\ start' \in [Request -> {Idle, "asked", "returned"} \cup Starting \cup Piped]
      /\ start'[r] = "head" /\ \A q \in Request : q # r => start'[q] = start[q]
  BY <1>1, States DEF Inv, Core
<1> HIDE DEF new
<1>8. Core'
  <2>1. {running', isRunning', shutdown', initialized', sequential', dbFailed'} \subseteq BOOLEAN
    BY <1>1 DEF Inv, Core
  <2>2. lastSid' \in Session \cup {None} /\ sid' \in 0 .. lastSid'
    BY <1>1, <1>2, <1>3, Parameters
  <2>3. ASSUME NEW s \in Session, loops'[s] # "off" PROVE s <= lastSid'
    <3>1. CASE s = sid'
      BY <1>1, <1>2, <3>1
    <3>2. CASE s # sid'
      BY <1>1, <1>2, <1>6, <2>3, <3>2, Parameters DEF Inv, Core
    <3> QED
      BY <3>1, <3>2
  <2> QED
    BY <1>1, <1>3, <1>5, <1>6, <1>7, <2>1, <2>2, <2>3 DEF Inv, Core, RowType
<1>9. Down'
  BY <1>1 DEF Down
<1>10. Owners'
  <2>1. rows'[sid'].owner = inc
    BY <1>5 DEF new
  <2>2. inc <= inc
    BY <1>2
  <2> QED
    BY <1>1, <1>5, <2>1, <2>2 DEF Inv, Rest, Owners
<1>11. CleanedUp'
  <2>1. initialized
    BY <1>1 DEF Inv, Rest, CleanedUp
  <2>2. (\A q \in Request : start'[q] # "cleanup") => \A q \in Request : start[q] # "cleanup"
    BY <1>1, <1>7
  <2>3. rows'[sid'].owner = inc
    BY <1>5 DEF new
  <2> QED
    BY <1>1, <1>5, <2>1, <2>2, <2>3 DEF Inv, Rest, CleanedUp, Status
<1>12. OneAtATime'
  <2>1. \A q \in Request : start'[q] \in Starting => start[q] \in Starting
    BY <1>7, States
  <2> QED
    BY <1>1, <2>1 DEF Inv, Rest, OneAtATime
<1>13. sequential => /\ running
                     /\ \A q \in Request : start'[q] \notin Starting
                     /\ \A k \in Stopper : stop[k] \notin Stopping
  BY <1>1, <1>7, States DEF Inv, Rest, OneAtATime
<1>14. OwnRow'
  <2>1. SUFFICES ASSUME sequential, ~dbFailed PROVE OwnRow'
    BY <1>1 DEF OwnRow
  <2>2. NoneOwn
    BY <1>1, <2>1, States DEF Inv, Rest, OwnRow
  <2>3. \A s \in Session : Own(s)' => s = sid'
    BY <1>1, <1>5, <2>2 DEF Own, NoneOwn, Status
  <2> QED
    BY <1>1, <1>13, <2>1, <2>3 DEF OwnRow
<1>15. LoopsStopped'
  BY <1>1, <1>13 DEF LoopsStopped
<1>16. NoLoopOnCompleted'
  <2>1. rows'[sid'].status = "ACTIVE"
    BY <1>5 DEF new
  <2> QED
    BY <1>1, <1>5, <1>6, <2>1 DEF Inv, Rest, NoLoopOnCompleted, Status
<1> QED
  BY <1>8, <1>9, <1>10, <1>11, <1>12, <1>14, <1>15, <1>16 DEF Inv, Rest

LEMMA InsertFailsKeeps ==
  ASSUME Inv, NEW r \in Request, InsertFails(r) PROVE Inv'
<1>1. /\ up /\ start' = [start EXCEPT ![r] = "returned"] /\ dbFailed' = TRUE
      /\ UNCHANGED <<up, inc, running, isRunning, shutdown, initialized, sid, stop, tick, coros, loops,
                     rows, lastSid, sequential>>
  BY DEF InsertFails, flags, work, db
<1>2. /\ start' \in [Request -> {Idle, "asked", "returned"} \cup Starting \cup Piped]
      /\ \A q \in Request : /\ start'[q] \in Starting => start[q] \in Starting
                            /\ start'[q] \in {"cleanup", "insert"} \cup Piped => start'[q] = start[q]
  BY <1>1, States DEF Inv, Core
<1>3. Core'
  <2>1. \A q \in Request : start'[q] \in Piped => sid # None
    BY <1>2 DEF Inv, Core
  <2> QED
    BY <1>1, <1>2, <2>1 DEF Inv, Core
<1>4. Down' /\ Owners' /\ OwnRow'
  BY <1>1 DEF Inv, Rest, Down, Owners, OwnRow
<1>5. CleanedUp'
  BY <1>1, <1>2 DEF Inv, Rest, CleanedUp
<1>6. OneAtATime'
  BY <1>1, <1>2 DEF Inv, Rest, OneAtATime
<1>7. LoopsStopped' /\ NoLoopOnCompleted'
  BY <1>1 DEF Inv, Rest, LoopsStopped, NoLoopOnCompleted, Status
<1> QED
  BY <1>3, <1>4, <1>5, <1>6, <1>7 DEF Inv, Rest

-----------------------------------------------------------------------------
(* Stopping. *)

LEMMA StopSystemKeeps ==
  ASSUME Inv, NEW k \in Stopper, StopSystem(k) PROVE Inv'
<1>1. /\ up /\ stop' = [stop EXCEPT ![k] = "stopping"]
      /\ running' = FALSE /\ isRunning' = FALSE /\ shutdown' = TRUE
      /\ loops' = [s \in Session |-> "off"]
      /\ sequential' = (sequential /\ ~Busy)
      /\ UNCHANGED <<up, inc, initialized, sid, start, tick, coros, rows, lastSid, dbFailed>>
  BY DEF StopSystem, db
<1>2. /\ stop' \in [Stopper -> {Idle, "returned"} \cup Stopping]
      /\ stop'[k] = "stopping" /\ \A j \in Stopper : j # k => stop'[j] = stop[j]
  BY <1>1, States DEF Inv, Core
<1>3. \A s \in Session : loops'[s] = "off"
  BY <1>1
<1>4. Core'
  <2>1. {running', isRunning', shutdown', initialized', sequential', dbFailed'} \subseteq BOOLEAN
    BY <1>1 DEF Inv, Core
  <2>2. loops' \in [Session -> {"off", "head", "balance"}]
    BY <1>1
  <2>3. \A j \in Stopper : stop'[j] = "closing" => sid # None
    BY <1>2 DEF Inv, Core
  <2> QED
    BY <1>1, <1>2, <1>3, <2>1, <2>2, <2>3 DEF Inv, Core
<1>5. Down' /\ Owners' /\ CleanedUp'
  BY <1>1 DEF Inv, Rest, Down, Owners, CleanedUp, Status
<1>6. sequential' => /\ sequential
                     /\ \A q \in Request : start'[q] \notin Starting
                     /\ \A j \in Stopper : stop'[j] \in Stopping => j = k
  BY <1>1, <1>2 DEF Busy
<1>7. OneAtATime'
  BY <1>6 DEF OneAtATime
<1>8. OwnRow'
  <2>1. Busy'
    BY <1>2, States DEF Busy
  <2> QED
    BY <1>1, <1>6, <2>1 DEF Inv, Rest, OwnRow, Own, Status
<1>9. LoopsStopped' /\ NoLoopOnCompleted'
  BY <1>3 DEF LoopsStopped, NoLoopOnCompleted
<1> QED
  BY <1>4, <1>5, <1>7, <1>8, <1>9 DEF Inv, Rest

LEMMA StoppedKeeps ==
  ASSUME Inv, NEW k \in Stopper, Stopped(k) PROVE Inv'
<1> DEFINE pc == IF sid = None THEN "returned" ELSE "closing"
<1>1. /\ up /\ stop[k] = "stopping" /\ stop' = [stop EXCEPT ![k] = pc]
      /\ UNCHANGED <<up, inc, running, isRunning, shutdown, initialized, sid, start, tick, coros, loops,
                     rows, lastSid, sequential, dbFailed>>
  BY DEF Stopped, flags, work, db
<1>2. pc \in {"returned", "closing"} /\ (pc = "closing" <=> sid # None)
  OBVIOUS
<1> HIDE DEF pc
<1>3. /\ stop' \in [Stopper -> {Idle, "returned"} \cup Stopping]
      /\ stop'[k] = pc /\ \A j \in Stopper : j # k => stop'[j] = stop[j]
  BY <1>1, <1>2, States DEF Inv, Core
<1>4. \A j \in Stopper : stop'[j] \in Stopping => stop[j] \in Stopping
  BY <1>1, <1>3, States
<1>5. Core'
  <2>1. \A j \in Stopper : stop'[j] = "closing" => sid # None
    BY <1>2, <1>3 DEF Inv, Core
  <2> QED
    BY <1>1, <1>3, <2>1 DEF Inv, Core
<1>6. Down' /\ Owners' /\ CleanedUp'
  BY <1>1 DEF Inv, Rest, Down, Owners, CleanedUp, Status
<1>7. OneAtATime'
  BY <1>1, <1>4 DEF Inv, Rest, OneAtATime
<1>8. OwnRow'
  <2>1. SUFFICES ASSUME sequential, ~dbFailed PROVE OwnRow'
    BY <1>1 DEF OwnRow
  <2>2. \A s \in Session : Own(s) => s = sid
    BY <1>1, <2>1 DEF Inv, Rest, OwnRow
  <2>3. ~Busy' => pc = "returned"
    BY <1>2, <1>3, States DEF Busy
  <2>4. ~Busy' => NoneOwn
    BY <1>2, <2>2, <2>3, Parameters DEF NoneOwn
  <2>5. (\E q \in Request : start[q] \in Starting) => NoneOwn
    BY <1>1, <2>1 DEF Inv, Rest, OwnRow
  <2>6. /\ NoneOwn' <=> NoneOwn
        /\ \A s \in Session : Own(s)' <=> Own(s)
    BY <1>1 DEF NoneOwn, Own, Status
  <2> QED
    BY <1>1, <2>2, <2>4, <2>5, <2>6 DEF OwnRow
<1>9. LoopsStopped' /\ NoLoopOnCompleted'
  BY <1>1, <1>4 DEF Inv, Rest, LoopsStopped, NoLoopOnCompleted, Status
<1> QED
  BY <1>5, <1>6, <1>7, <1>8, <1>9 DEF Inv, Rest

LEMMA CloseSessionKeeps ==
  ASSUME Inv, NEW k \in Stopper, CloseSession(k) PROVE Inv'
<1>1. /\ up /\ stop[k] = "closing" /\ stop' = [stop EXCEPT ![k] = "returned"]
      /\ UNCHANGED <<up, inc, running, isRunning, shutdown, initialized, sid, start, tick, coros, loops,
                     lastSid, sequential>>
      /\ \/ /\ rows' = IF Status(sid) = "NONE" THEN rows ELSE [rows EXCEPT ![sid].status = "COMPLETED"]
            /\ UNCHANGED dbFailed
         \/ dbFailed' = TRUE /\ UNCHANGED rows
  BY DEF CloseSession, flags, work
<1>2. sid \in Session
  BY <1>1, Parameters DEF Inv, Core
<1>3. /\ stop' \in [Stopper -> {Idle, "returned"} \cup Stopping]
      /\ \A j \in Stopper : stop'[j] \in Stopping => stop'[j] = stop[j] /\ stop[j] \in Stopping
  BY <1>1, States DEF Inv, Core
<1>4. rows \in RowType
  BY DEF Inv, Core, RowType
<1>5. /\ rows' \in RowType
      /\ \A s \in Session : s # sid => rows'[s] = rows[s]
      /\ rows'[sid].owner = rows[sid].owner
      /\ rows'[sid].status = rows[sid].status \/ rows'[sid].status = "COMPLETED"
      /\ ~dbFailed' => rows'[sid].status # "ACTIVE"
  <2>1. CASE rows' = rows /\ (dbFailed' \/ rows[sid].status = "NONE")
    BY <1>4, <2>1
  <2>2. CASE rows' = [rows EXCEPT ![sid].status = "COMPLETED"]
    <3>1. rows[sid] \in [status : {"NONE", "ACTIVE", "ABORTED", "COMPLETED"}, owner : 0 .. MaxIncarnation]
      BY <1>2, <1>4 DEF RowType
    <3>2. [rows[sid] EXCEPT !.status = "COMPLETED"]
             \in [status : {"NONE", "ACTIVE", "ABORTED", "COMPLETED"}, owner : 0 .. MaxIncarnation]
      BY <3>1
    <3>3. rows'[sid] = [rows[sid] EXCEPT !.status = "COMPLETED"]
      BY <1>2, <1>4, <2>2 DEF RowType
    <3>4. rows' \in RowType /\ \A s \in Session : s # sid => rows'[s] = rows[s]
      BY <1>2, <1>4, <2>2, <3>2 DEF RowType
    <3> QED
      BY <3>1, <3>3, <3>4
  <2> QED
    BY <1>1, <2>1, <2>2 DEF Status
<1>6. \A s \in Session : /\ rows'[s].owner = rows[s].owner
                         /\ rows'[s].status = "ACTIVE" => rows[s].status = "ACTIVE"
  BY <1>2, <1>5
<1>7. Core'
  <2>1. dbFailed' \in BOOLEAN
    BY <1>1 DEF Inv, Core
  <2>2. \A j \in Stopper : stop'[j] = "closing" => sid # None
    BY <1>3, States DEF Inv, Core
  <2> QED
    BY <1>1, <1>3, <1>5, <2>1, <2>2 DEF Inv, Core, RowType
<1>8. Down' /\ Owners'
  BY <1>1, <1>6 DEF Inv, Rest, Down, Owners
<1>9. CleanedUp'
  BY <1>1, <1>6 DEF Inv, Rest, CleanedUp, Status
<1>10. OneAtATime'
  BY <1>1, <1>3 DEF Inv, Rest, OneAtATime
<1>11. OwnRow'
  <2>1. SUFFICES ASSUME sequential, ~dbFailed' PROVE OwnRow'
    BY <1>1 DEF OwnRow
  <2>2. ~dbFailed
    BY <1>1, <2>1
  <2>3. \A s \in Session : Own(s) => s = sid
    BY <1>1, <2>1, <2>2 DEF Inv, Rest, OwnRow
  <2>4. NoneOwn'
    BY <1>1, <1>5, <1>6, <2>1, <2>3 DEF NoneOwn, Own, Status
  <2> QED
    BY <2>4 DEF OwnRow, NoneOwn
<1>12. LoopsStopped' /\ NoLoopOnCompleted'
  <2>1. sequential => \A s \in Session : loops[s] = "off"
    BY <1>1, States DEF Inv, Rest, LoopsStopped
  <2> QED
    BY <1>1, <2>1 DEF LoopsStopped, NoLoopOnCompleted
<1> QED
  BY <1>7, <1>8, <1>9, <1>10, <1>11, <1>12 DEF Inv, Rest

-----------------------------------------------------------------------------
(* Other writers, and crashes. *)

(* A statement that only takes rows out of the active state. *)
LEMMA RowsKeep ==
  ASSUME Inv, up, rows' \in RowType,
         UNCHANGED <<up, inc, flags, start, stop, work, lastSid, sequential, dbFailed>>,
         \A s \in Session : /\ rows'[s].status \notin {"ACTIVE"}
                            /\ rows'[s].owner <= inc
                            /\ rows'[s].status = "COMPLETED" => Status(s) = "COMPLETED"
  PROVE  Inv'
<1>1. UNCHANGED <<up, inc, running, isRunning, shutdown, initialized, sid, start, stop, tick, coros, loops,
                  lastSid, sequential, dbFailed>>
  BY DEF flags, work
<1>2. Core'
  BY <1>1 DEF Inv, Core, RowType
<1>3. Down' /\ Owners' /\ OneAtATime'
  BY <1>1 DEF Inv, Rest, Down, Owners, OneAtATime
<1>4. CleanedUp'
  BY <1>1 DEF Inv, Rest, CleanedUp, Status
<1>5. OwnRow'
  BY DEF OwnRow, NoneOwn, Own, Status
<1>6. LoopsStopped' /\ NoLoopOnCompleted'
  BY <1>1 DEF Inv, Rest, LoopsStopped, NoLoopOnCompleted, Status
<1> QED
  BY <1>2, <1>3, <1>4, <1>5, <1>6 DEF Inv, Rest

(* The cleanup of another writer. *)
LEMMA AbortingKeeps ==
  ASSUME Inv, up, rows' = Aborted,
         UNCHANGED <<up, inc, flags, start, stop, work, lastSid, sequential, dbFailed>>
  PROVE  Inv'
<1>2. rows \in RowType
  BY DEF Inv, Core, RowType
<1>3. Aborted \in RowType
  BY <1>2, AbortedRows
<1>4. \A s \in Session : /\ Aborted[s].status # "ACTIVE"
                         /\ Aborted[s].owner = rows[s].owner
                         /\ Aborted[s].status = "COMPLETED" => rows[s].status = "COMPLETED"
  BY <1>2 DEF Aborted, Status, RowType
<1>5. \A s \in Session : rows[s].owner <= inc
  BY DEF Inv, Rest, Owners
<1>6. \A s \in Session : /\ rows'[s].status \notin {"ACTIVE"}
                         /\ rows'[s].owner <= inc
                         /\ rows'[s].status = "COMPLETED" => Status(s) = "COMPLETED"
  BY <1>4, <1>5 DEF Status
<1> QED
  BY <1>3, <1>6, RowsKeep

LEMMA ForensicNoteKeeps == ASSUME Inv, ForensicNote PROVE Inv'
  BY AbortingKeeps DEF ForensicNote

(* A statement that fails, or that is passed over. *)
LEMMA FailureKeeps ==
  ASSUME Inv, up, dbFailed' \in BOOLEAN, dbFailed => dbFailed',
         UNCHANGED <<up, inc, flags, start, stop, work, rows, lastSid, sequential>>
  PROVE  Inv'
<1>1. UNCHANGED <<up, inc, running, isRunning, shutdown, initialized, sid, start, stop, tick, coros, loops,
                  rows, lastSid, sequential>>
  BY DEF flags, work
<1>2. Core'
  BY <1>1 DEF Inv, Core
<1>3. Down' /\ Owners' /\ CleanedUp' /\ OneAtATime'
  BY <1>1 DEF Inv, Rest, Down, Owners, CleanedUp, OneAtATime, Status
<1>4. OwnRow' /\ LoopsStopped' /\ NoLoopOnCompleted'
  BY <1>1 DEF Inv, Rest, OwnRow, Own, NoneOwn, Busy, LoopsStopped, NoLoopOnCompleted, Status
<1> QED
  BY <1>2, <1>3, <1>4 DEF Inv, Rest

LEMMA PurgeKeeps == ASSUME Inv, Purge PROVE Inv'
<1>1. /\ up /\ UNCHANGED <<up, inc, flags, start, stop, work, lastSid, sequential>>
      /\ \/ /\ rows' = [s \in Session |-> [status |-> "NONE", owner |-> 0]]
            /\ UNCHANGED dbFailed
         \/ dbFailed' = TRUE /\ UNCHANGED rows
  BY DEF Purge
<1>2. CASE rows' = [s \in Session |-> [status |-> "NONE", owner |-> 0]] /\ UNCHANGED dbFailed
  <2>1. rows' \in RowType
    BY <1>2, Parameters DEF RowType
  <2>2. \A s \in Session : /\ rows'[s].status \notin {"ACTIVE"}
                           /\ rows'[s].owner <= inc
                           /\ rows'[s].status = "COMPLETED" => Status(s) = "COMPLETED"
    BY <1>2, Parameters DEF Inv, Core
  <2> QED
    BY <1>1, <1>2, <2>1, <2>2, RowsKeep
<1>3. CASE dbFailed' = TRUE /\ UNCHANGED rows
  BY <1>1, <1>3, FailureKeeps
<1> QED
  BY <1>1, <1>2, <1>3

LEMMA PurgeCreatesKeeps == ASSUME Inv, PurgeCreates PROVE Inv'
<1>1. /\ up /\ UNCHANGED <<up, inc, flags, start, stop, work, rows, lastSid, sequential>>
      /\ dbFailed' = (dbFailed \/ table' = "missing")
  BY DEF PurgeCreates, TableCreated
<1>2. dbFailed' \in BOOLEAN /\ (dbFailed => dbFailed')
  BY <1>1 DEF Inv, Core
<1> QED
  BY <1>1, <1>2, FailureKeeps

LEMMA PurgeCleansKeeps == ASSUME Inv, PurgeCleans PROVE Inv'
<1>1. /\ up /\ UNCHANGED <<up, inc, flags, start, stop, work, lastSid, sequential>>
      /\ \/ rows' = Aborted /\ UNCHANGED dbFailed
         \/ dbFailed' = TRUE /\ UNCHANGED rows
  BY DEF PurgeCleans, CleanedRows
<1>2. CASE rows' = Aborted /\ UNCHANGED dbFailed
  BY <1>1, <1>2, AbortingKeeps
<1>3. CASE dbFailed' = TRUE /\ UNCHANGED rows
  BY <1>1, <1>3, FailureKeeps
<1> QED
  BY <1>1, <1>2, <1>3

LEMMA CrashKeeps == ASSUME Inv, Crash PROVE Inv'
<1>1. /\ up /\ inc < MaxIncarnation /\ up' = FALSE /\ UNCHANGED <<inc, rows, lastSid>>
      /\ running' = FALSE /\ isRunning' = FALSE /\ shutdown' = FALSE
      /\ initialized' = FALSE /\ sid' = None
      /\ start' = [r \in Request |-> Idle] /\ stop' = [k \in Stopper |-> Idle]
      /\ tick' = [r \in Request |-> 0] /\ coros' = {}
      /\ loops' = [s \in Session |-> "off"]
      /\ sequential' = TRUE /\ dbFailed' = FALSE
  BY DEF Crash, Fresh
<1>2. /\ \A r \in Request : start'[r] = Idle
      /\ \A k \in Stopper : stop'[k] = Idle
      /\ \A s \in Session : loops'[s] = "off"
  BY <1>1
<1>3. Core'
  <2>1. {running', isRunning', shutdown', initialized', sequential', dbFailed'} \subseteq BOOLEAN
    BY <1>1
  <2>2. /\ start' \in [Request -> {Idle, "asked", "returned"} \cup Starting \cup Piped]
        /\ stop' \in [Stopper -> {Idle, "returned"} \cup Stopping]
        /\ loops' \in [Session -> {"off", "head", "balance"}]
        /\ coros' \subseteq Request \X (1 .. MaxTick) \X Symbol
    BY <1>1
  <2>3. tick' \in [Request -> 0 .. MaxTick] /\ sid' \in 0 .. lastSid'
    BY <1>1, Parameters DEF Inv, Core
  <2>4. /\ \A s \in Session : loops'[s] # "off" => s <= lastSid'
        /\ \A k \in Stopper : stop'[k] = "closing" => sid' # None
        /\ \A r \in Request : start'[r] \in Piped => sid' # None
    BY <1>2, States
  <2> QED
    BY <1>1, <2>1, <2>2, <2>3, <2>4 DEF Inv, Core
<1>4. Down' /\ Owners'
  BY <1>1, <1>2 DEF Inv, Rest, Down, Owners
<1>5. CleanedUp' /\ OneAtATime'
  BY <1>1, <1>2, States DEF CleanedUp, OneAtATime
<1>6. OwnRow' /\ LoopsStopped' /\ NoLoopOnCompleted'
  BY <1>1, <1>2 DEF OwnRow, LoopsStopped, NoLoopOnCompleted
<1> QED
  BY <1>3, <1>4, <1>5, <1>6 DEF Inv, Rest

LEMMA RestartKeeps == ASSUME Inv, Restart PROVE Inv'
<1>1. /\ ~up /\ up' = TRUE /\ inc' = inc + 1
      /\ UNCHANGED <<running, isRunning, shutdown, initialized, sid, start, stop, tick, coros, loops,
                     rows, lastSid, sequential, dbFailed>>
  BY DEF Restart, flags, work, db
<1>2. inc < MaxIncarnation /\ ~initialized /\ \A r \in Request : start[r] = Idle
  BY <1>1 DEF Inv, Rest, Down
<1>3. Core'
  <2>1. inc' \in 1 .. MaxIncarnation
    BY <1>1, <1>2, Parameters DEF Inv, Core
  <2> QED
    BY <1>1, <2>1 DEF Inv, Core
<1>4. \A s \in Session : rows[s].owner <= inc /\ rows[s].owner \in Nat /\ inc \in Nat
  BY Parameters DEF Inv, Core, Rest, Owners
<1>5. Down' /\ Owners'
  BY <1>1, <1>4 DEF Down, Owners
<1>6. CleanedUp' /\ OneAtATime'
  BY <1>1, <1>2, States DEF Inv, Rest, CleanedUp, OneAtATime
<1>7. OwnRow'
  <2>1. \A s \in Session : rows[s].owner # inc + 1
    BY <1>4
  <2> QED
    BY <1>1, <2>1 DEF OwnRow, NoneOwn, Own
<1>8. LoopsStopped' /\ NoLoopOnCompleted'
  BY <1>1 DEF Inv, Rest, LoopsStopped, NoLoopOnCompleted, Status
<1> QED
  BY <1>3, <1>5, <1>6, <1>7, <1>8 DEF Inv, Rest

-----------------------------------------------------------------------------

LEMMA InvStep == Inv /\ [Next]_vars => Inv'
<1> SUFFICES ASSUME Inv, [Next]_vars PROVE Inv'
  OBVIOUS
<1>1. CASE UNCHANGED vars
  <2>1. UNCHANGED <<up, inc, running, isRunning, shutdown, initialized, sid, start, stop, tick, coros, loops,
                    rows, lastSid, sequential, dbFailed>>
    BY <1>1 DEF vars, flags, work, db
  <2>2. Core' /\ Down' /\ Owners' /\ CleanedUp' /\ OneAtATime'
    BY <2>1 DEF Inv, Core, Rest, Down, Owners, CleanedUp, OneAtATime, Status
  <2>3. OwnRow' /\ LoopsStopped' /\ NoLoopOnCompleted'
    BY <2>1 DEF Inv, Rest, OwnRow, Own, NoneOwn, Busy, LoopsStopped, NoLoopOnCompleted, Status
  <2> QED
    BY <2>2, <2>3 DEF Inv, Rest
<1>2. ASSUME NEW r \in Request,
             StartSession(r) \/ StartSimulation(r) \/ StartStep(r) \/ PipelineStep(r)
      PROVE  Inv'
  BY <1>2, PipelineKeeps, StartSimulationKeeps, JoinOrBeginKeeps, EnterStartSessionKeeps, InitializeKeeps,
     CleanupKeeps, InsertSessionKeeps, InsertFailsKeeps DEF StartStep
<1>3. ASSUME NEW c \in coros, ProcessSymbol(c) \/ ProcessSymbolFails(c) PROVE Inv'
  BY <1>3, ProcessKeeps
<1>4. ASSUME NEW s \in Session, SnapshotLoop(s) PROVE Inv'
  BY <1>4, SnapshotLoopKeeps
<1>5. ASSUME NEW k \in Stopper, StopSystem(k) \/ StopStep(k) PROVE Inv'
  BY <1>5, StopSystemKeeps, StoppedKeeps, CloseSessionKeeps DEF StopStep
<1>6. CASE ForensicNote \/ Purge \/ PurgeCreates \/ PurgeCleans \/ Crash \/ Restart
  BY <1>6, ForensicNoteKeeps, PurgeKeeps, PurgeCreatesKeeps, PurgeCleansKeeps, CrashKeeps,
     RestartKeeps
<1> QED
  BY <1>1, <1>2, <1>3, <1>4, <1>5, <1>6 DEF Next

LEMMA Invariance == Spec => []Inv
<1> QED
  BY InvInit, InvStep, PTL DEF Spec

(* Statements make, drop and clean the table one at a time. *)
LEMMA TableStep == TableOK /\ [Next]_vars => TableOK'
<1> SUFFICES ASSUME TableOK, [Next]_vars PROVE TableOK'
  OBVIOUS
<1>1. ASSUME NEW r \in Request, StartStep(r) PROVE TableOK'
  BY <1>1 DEF TableOK, StartStep, JoinOrBegin, EnterStartSession, Initialize, TableCreated, Cleanup,
     InsertSession, InsertFails, db
<1>2. ASSUME NEW r \in Request, StartSession(r) \/ StartSimulation(r) \/ PipelineStep(r)
      PROVE  TableOK'
  BY <1>2 DEF TableOK, StartSession, StartSimulation, PipelineStep, Round, Gathered, Awake,
     LeavePipeline, db
<1>3. ASSUME NEW c \in coros, ProcessSymbol(c) \/ ProcessSymbolFails(c) PROVE TableOK'
  BY <1>3 DEF TableOK, ProcessSymbol, ProcessSymbolFails, db
<1>4. ASSUME NEW s \in Session, SnapshotLoop(s) PROVE TableOK'
  BY <1>4 DEF TableOK, SnapshotLoop, db
<1>5. ASSUME NEW k \in Stopper, StopSystem(k) \/ StopStep(k) PROVE TableOK'
  BY <1>5 DEF TableOK, StopSystem, StopStep, Stopped, CloseSession, db
<1>6. CASE ForensicNote \/ Purge \/ PurgeCreates \/ PurgeCleans \/ Crash \/ Restart \/ UNCHANGED vars
  BY <1>6 DEF TableOK, ForensicNote, Purge, PurgeCreates, PurgeCleans, TableCreated, CleanedRows,
     Crash, Restart, vars, db
<1> QED
  BY <1>1, <1>2, <1>3, <1>4, <1>5, <1>6 DEF Next

(* Whatever the calls, failures and crashes, a pipeline runs only where a   *)
(* session was inserted, and a stop closes one that was.                    *)
THEOREM SystemTypeOK == Spec => []TypeOK
<1>1. Inv /\ TableOK => TypeOK
  BY DEF Inv, Core, TableOK, TypeOK
<1>2. Init => TableOK
  BY DEF Init, TableOK
<1>3. Spec => []TableOK
  BY <1>2, TableStep, PTL DEF Spec
<1> QED
  BY <1>1, <1>3, Invariance, PTL

(* Once a start has gone through without a failed statement, the active     *)
(* rows are all of the process that runs: cleanup_stale_sessions() comes    *)
(* before any pipeline, in every process.                                   *)
THEOREM SystemOrphansAborted == Spec => []OrphansAborted
<1>1. Inv => OrphansAborted
  BY DEF Inv, Rest, CleanedUp, OrphansAborted
<1> QED
  BY <1>1, Invariance, PTL

(* Calls made one at a time: after a stop() no session of this process is   *)
(* left active.                                                             *)
THEOREM SystemStoppedClean == Spec => []StoppedClean
<1>1. Inv => StoppedClean
  BY DEF Inv, Rest, OwnRow, NoneOwn, Own, StoppedClean
<1> QED
  BY <1>1, Invariance, PTL

(* Calls made one at a time: no snapshot goes to a completed session.       *)
THEOREM SystemNoLoopOnCompleted == Spec => []NoLoopOnCompleted
<1>1. Inv => NoLoopOnCompleted
  BY DEF Inv, Rest
<1> QED
  BY <1>1, Invariance, PTL
================================================================================
