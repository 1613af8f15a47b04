------------------------------ MODULE KillSwitch -------------------------------
(***************************************************************************)
(* GlobalKillSwitch of qtrader/risk/kill_switch.py, the callers that trip  *)
(* it, its safety actions against several brokers, and the trading system  *)
(* that goes on submitting orders meanwhile, which fill when they fill.    *)
(*                                                                         *)
(* A run of execute_safety_actions() cancels every order the state store   *)
(* lists at every broker, concurrently; then, when auto_liquidate is set,  *)
(* closes the positions one after the other under a timeout; then sets the *)
(* halt flag.  Broker calls are awaited, so anything may happen meanwhile. *)
(***************************************************************************)
EXTENDS Integers

CONSTANTS
  Symbol,
  Order,          \* records with the order's symbol and signed quantity
  Brokers,        \* number of registered brokers, asked in this order
  Run,            \* calls of execute_safety_actions()
  Reason,         \* why a caller trips the switch
  MaxHold,        \* bound: size of the initial positions
  AutoLiquidate,  \* the constructor argument
  AnswersLost,    \* a broker may execute an order and fail to say so
  Trading         \* the trading system places orders

ASSUME KillAssumption ==
  /\ \A o \in Order : o.symbol \in Symbol /\ o.quantity \in Int
  /\ Brokers \in Nat /\ MaxHold \in Nat
  /\ AutoLiquidate \in BOOLEAN /\ AnswersLost \in BOOLEAN /\ Trading \in BOOLEAN

Broker == 1 .. Brokers
NoReason == "none"
NoRun == [pc |-> "idle", snapshot |-> {}, pending |-> {}, refused |-> {}, todo |-> {},
          symbol |-> {}, broker |-> 1, failed |-> FALSE]

VARIABLES
  halted,     \* _is_system_halted
  reason,     \* _kill_reason
  active,     \* orders the state store lists
  open,       \* orders open at each broker
  position,   \* what the account holds
  known,      \* positions as the state store has them
  run,        \* the calls of execute_safety_actions()
  ledger      \* history: what became of each symbol in each call

vars == <<halted, reason, active, open, position, known, run, ledger>>

(* What a call took up, how many of its orders the market executed, of how  *)
(* many of those it did not hear, and whether what it took up was held then *)
(* and nobody else has moved the symbol since.                              *)
NoEntry == [taken |-> 0, executed |-> 0, unheard |-> 0, steady |-> FALSE]

Init ==
  /\ halted = FALSE /\ reason = NoReason
  /\ active = {}
  /\ open = [b \in Broker |-> {}]
  /\ position \in [Symbol -> -MaxHold .. MaxHold]
  /\ known = position
  /\ run = [r \in Run |-> NoRun]
  /\ ledger = [e \in Run \X Symbol |-> NoEntry]

-----------------------------------------------------------------------------
(* TradingSystem._execute_order: nothing on the way to the broker looks at  *)
(* the switch (the flag of PreTradeRiskValidator is never set).             *)
PlaceOrder(o, b) ==
  /\ Trading
  /\ \A c \in Broker : o \notin open[c]
  /\ o \notin active
  /\ open' = [open EXCEPT ![b] = @ \cup {o}]
  /\ active' = active \cup {o}
  /\ UNCHANGED <<halted, reason, position, known, run, ledger>>

(* The positions a call took up are those of before. *)
Moved(s) == [e \in Run \X Symbol |->
  IF e[2] = s THEN [ledger[e] EXCEPT !.steady = FALSE] ELSE ledger[e]]

(* An order that rests at a broker fills, whoever is running; a part of it  *)
(* is as good as a smaller order.                                           *)
Fill(o, b) ==
  /\ o \in open[b]
  /\ open' = [open EXCEPT ![b] = @ \ {o}]
  /\ position' = [position EXCEPT ![o.symbol] = @ + o.quantity]
  /\ ledger' = Moved(o.symbol)
  /\ UNCHANGED <<halted, reason, active, known, run>>

(* The state store hears of the fills. *)
Learn(s) ==
  /\ known[s] # position[s]
  /\ known' = [known EXCEPT ![s] = position[s]]
  /\ UNCHANGED <<halted, reason, active, open, position, run, ledger>>

(* trigger_on_critical_failure(), and evaluate_kill_system() with a breach: *)
(* only the first one counts.                                               *)
Trip(why) ==
  /\ ~halted
  /\ halted' = TRUE
  /\ reason' = why
  /\ UNCHANGED <<active, open, position, known, run, ledger>>

-----------------------------------------------------------------------------
(* execute_safety_actions() *)

Disabled == halted' = TRUE

(* Mutant: an order is cancelled at the first broker only. *)
CancelTasksFirst == {t \in Broker \X active : t[1] = 1}

(* The cancellations a call starts: every listed order at every broker. *)
CancelTasks == Broker \X active

(* When the store fails to list the orders none is cancelled, and the call  *)
(* goes on to the positions.                                                *)
Begin(r) ==
  /\ run[r].pc = "idle"
  /\ \/ run' = [run EXCEPT ![r].pc = "cancelling", ![r].snapshot = active,
                           ![r].pending = CancelTasks]
     \/ run' = [run EXCEPT ![r].pc = "cancelling", ![r].failed = TRUE] \* nothing listed
  /\ UNCHANGED <<halted, reason, active, open, position, known, ledger>>

(* A broker cancels the order, or refuses (an order it does not know, an    *)
(* exception); a refusal is noted in the result and otherwise ignored.      *)
CancelAnswered(r, b, o) ==
  /\ run[r].pc = "cancelling" /\ <<b, o>> \in run[r].pending
  /\ \/ /\ o \in open[b]
        /\ open' = [open EXCEPT ![b] = @ \ {o}]
        /\ run' = [run EXCEPT ![r].pending = @ \ {<<b, o>>}]
     \/ /\ run' = [run EXCEPT ![r].pending = @ \ {<<b, o>>},
                              ![r].refused = @ \cup {<<b, o>>}]
        /\ UNCHANGED open
  /\ UNCHANGED <<halted, reason, active, position, known, ledger>>

(* The positions as get_positions() gives them. *)
Take(r) == [e \in Run \X Symbol |->
  IF e[1] # r THEN ledger[e]
  ELSE [taken |-> known[e[2]], executed |-> 0, unheard |-> 0,
        steady |-> known[e[2]] = position[e[2]]]]

(* gather() returns: the action counts as executed, refusals or not.  The   *)
(* store may fail to give the positions, or give them after the timeout.    *)
CancelDone(r) ==
  /\ run[r].pc = "cancelling" /\ run[r].pending = {}
  /\ \/ /\ AutoLiquidate
        /\ run' = [run EXCEPT ![r].pc = "liquidating",
                              ![r].todo = {<<s, known[s]>> : s \in {x \in Symbol : known[x] # 0}}]
        /\ ledger' = Take(r)
        /\ UNCHANGED halted
     \/ /\ run' = [run EXCEPT ![r].pc = "done", ![r].failed = @ \/ AutoLiquidate]
        /\ Disabled
        /\ UNCHANGED ledger
  /\ UNCHANGED <<reason, active, open, position, known>>

(* The next position is taken up, at the first broker. *)
NextPosition(r) ==
  /\ run[r].pc = "liquidating" /\ run[r].symbol = {}
  /\ \E p \in run[r].todo :
       run' = [run EXCEPT ![r].symbol = {p}, ![r].todo = @ \ {p}, ![r].broker = 1]
  /\ UNCHANGED <<halted, reason, active, open, position, known, ledger>>

(* An order that reached the market closes what the snapshot said was held. *)
Closed(p) == [position EXCEPT ![p[1]] = @ - p[2]]

(* It is one more of its call, and the other calls know nothing of it. *)
Entered(r, s, lost) == [e \in Run \X Symbol |->
  IF e = <<r, s>>
  THEN [ledger[e] EXCEPT !.executed = @ + 1, !.unheard = @ + lost]
  ELSE Moved(s)[e]]

Executed(r, p, lost) == position' = Closed(p) /\ ledger' = Entered(r, p[1], lost)

(* Mutant: the loop goes on to the next broker. *)
AfterSuccessNext(r) == [run EXCEPT ![r].broker = @ + 1]

(* The loop over the brokers ends with the first that takes the order. *)
AfterSuccess(r) == [run EXCEPT ![r].symbol = {}]

(* Mutant: one broker too many is asked. *)
UntriedLate(r) == run[r].broker <= Brokers + 1

Untried(r) == run[r].broker <= Brokers

Submit(r, p) ==
  /\ run[r].pc = "liquidating" /\ p \in run[r].symbol /\ Untried(r)
  /\ \/ Executed(r, p, 0) /\ run' = AfterSuccess(r)
     \/ /\ run' = [run EXCEPT ![r].broker = @ + 1]
        /\ \/ UNCHANGED <<position, ledger>>
           \/ AnswersLost /\ Executed(r, p, 1)
  /\ UNCHANGED <<halted, reason, active, open, known>>

NoBrokerLeft(r) ==
  /\ run[r].pc = "liquidating" /\ run[r].symbol # {} /\ ~Untried(r)
  /\ run' = [run EXCEPT ![r].symbol = {}, ![r].failed = TRUE]
  /\ UNCHANGED <<halted, reason, active, open, position, known, ledger>>

LiquidationDone(r) ==
  /\ run[r].pc = "liquidating" /\ run[r].symbol = {} /\ run[r].todo = {}
  /\ run' = [run EXCEPT ![r].pc = "done"]
  /\ Disabled
  /\ UNCHANGED <<reason, active, open, position, known, ledger>>

(* Mutant: the timeout is looked at between two positions only. *)
LiquidationTimesOutBetween(r) ==
  /\ run[r].pc = "liquidating" /\ run[r].symbol = {}
  /\ run' = [run EXCEPT ![r].pc = "done", ![r].todo = {}, ![r].failed = TRUE]
  /\ Disabled
  /\ UNCHANGED <<reason, active, open, position, known, ledger>>

(* wait_for() gives up; the order it was waiting for may have got through.  *)
LiquidationTimesOut(r) ==
  /\ run[r].pc = "liquidating"
  /\ \/ UNCHANGED <<position, ledger>>
     \/ \E p \in run[r].symbol :
          AnswersLost /\ Untried(r) /\ Executed(r, p, 0)
  /\ run' = [run EXCEPT ![r].pc = "done", ![r].todo = {}, ![r].symbol = {},
                        ![r].failed = TRUE]
  /\ Disabled
  /\ UNCHANGED <<reason, active, open, known>>

-----------------------------------------------------------------------------
(* The steps a run makes by itself, and those a broker has to answer.       *)
OwnStep(r) == CancelDone(r) \/ NextPosition(r) \/ NoBrokerLeft(r) \/ LiquidationDone(r)
              \/ LiquidationTimesOut(r)
BrokerStep(r) == \/ \E b \in Broker, o \in Order : CancelAnswered(r, b, o)
                 \/ \E p \in run[r].symbol : Submit(r, p)

Next ==
  \/ \E o \in Order, b \in Broker : PlaceOrder(o, b) \/ Fill(o, b)
  \/ \E s \in Symbol : Learn(s)
  \/ \E why \in Reason : Trip(why)
  \/ \E r \in Run : Begin(r) \/ OwnStep(r) \/ BrokerStep(r)

Spec == Init /\ [][Next]_vars

(* The event loop runs whatever is ready and fires the timeout of           *)
(* liquidation; nothing makes a broker answer and nobody has to call        *)
(* execute_safety_actions().                                                *)
FairSpec == Spec /\ \A r \in Run : WF_vars(OwnStep(r))

-----------------------------------------------------------------------------
Step == {"idle", "cancelling", "liquidating", "done"}

(* Type invariant. *)
TypeOK ==
  /\ halted \in BOOLEAN /\ reason \in Reason \cup {NoReason}
  /\ active \subseteq Order
  /\ open \in [Broker -> SUBSET Order]
  /\ position \in [Symbol -> Int] /\ known \in [Symbol -> Int]
  /\ run \in [Run -> [pc : Step, snapshot : SUBSET Order, pending : SUBSET (Broker \X Order),
                      refused : SUBSET (Broker \X Order), todo : SUBSET (Symbol \X Int),
                      symbol : SUBSET (Symbol \X Int), broker : 1 .. Brokers + 1,
                      failed : BOOLEAN]]
  /\ ledger \in [Run \X Symbol ->
                 [taken : Int, executed : Nat, unheard : Nat, steady : BOOLEAN]]

(* A safety run that has ended leaves the system halted, whatever was       *)
(* refused, failed or timed out (kill_switch.py:157-160), and no order it   *)
(* found is open anywhere but where the broker refused to cancel it, which  *)
(* needs every order to be tried at every broker (kill_switch.py:112-121).  *)
SafetyRunComplete ==
  \A r \in Run : run[r].pc = "done" =>
    /\ halted
    /\ \A b \in Broker, o \in run[r].snapshot : o \in open[b] => <<b, o>> \in run[r].refused

(* kill_switch.py:39, "Flatten all positions via market orders": however    *)
(* many brokers refuse, whatever fills meanwhile, whoever else liquidates   *)
(* and wherever the timeout strikes (kill_switch.py:204-234), the market    *)
(* executes at most one order of a call for a symbol, and one more for each *)
(* it executed and raised all the same.  So a call whose answers were heard *)
(* leaves the symbol untouched or flat, unless what it took up was not what *)
(* is held: a fill the store had not heard of, or one since, or another     *)
(* call's order.                                                            *)
NoFlip ==
  \A r \in Run, s \in Symbol : LET e == ledger[<<r, s>>] IN
    /\ e.executed <= 1 + e.unheard
    /\ e.steady => position[s] = e.taken - e.executed * e.taken

(* A liquidation comes to an end although a broker may never answer.        *)
LiquidationEnds == \A r \in Run : run[r].pc = "liquidating" ~> run[r].pc = "done"
================================================================================
