----------------------------- MODULE KillSwitchProofs --------------------------
(***************************************************************************)
(* Proofs about the kill switch, for any number of orders, symbols,         *)
(* brokers, reasons and calls of execute_safety_actions().                  *)
(***************************************************************************)
EXTENDS KillSwitch, TLAPS

Task == Broker \X Order
Lot == Symbol \X Int
Call == [pc : Step, snapshot : SUBSET Order, pending : SUBSET Task, refused : SUBSET Task,
         todo : SUBSET Lot, symbol : SUBSET Lot, broker : 1 .. Brokers + 1, failed : BOOLEAN]

Entry == [taken : Int, executed : Nat, unheard : Nat, steady : BOOLEAN]

Unfinished(r) == run[r].todo \cup run[r].symbol

(* What a call found is open only where it is still asking or was refused;  *)
(* the orders it found stay listed, so none is placed a second time.        *)
Cancelling ==
  \A r \in Run :
    /\ run[r].snapshot \subseteq active
    /\ run[r].pc # "cancelling" => run[r].pending = {}
    /\ \A b \in Broker, o \in run[r].snapshot :
         o \in open[b] => <<b, o>> \in run[r].pending \cup run[r].refused
    /\ run[r].pc = "done" => halted

(* A call has at most one lot of a symbol before it, and the one it is      *)
(* closing is no longer among those to do.                                  *)
Tidy ==
  \A r \in Run :
    /\ run[r].pc # "liquidating" => Unfinished(r) = {}
    /\ \A p, q \in Unfinished(r) : p[1] = q[1] => p = q
    /\ \A p, q \in run[r].symbol : p = q
    /\ run[r].symbol \cap run[r].todo = {}

(* What the ledger says of a symbol, of which the account holds `held`. *)
Square(e, held) ==
  /\ e.executed <= 1 + e.unheard
  /\ e.steady => held = e.taken - e.executed * e.taken

(* The ledger is square, and of a lot that is yet to be closed the market   *)
(* has executed no order a call heard of.                                   *)
Closing ==
  \A r \in Run :
    /\ \A s \in Symbol : Square(ledger[<<r, s>>], position[s])
    /\ \A p \in Unfinished(r) :
         /\ p[2] = ledger[<<r, p[1]>>].taken
         /\ ledger[<<r, p[1]>>].executed = ledger[<<r, p[1]>>].unheard

Inv == TypeOK /\ Cancelling /\ Tidy /\ Closing

LEMMA Parameters == Brokers \in Nat /\ Broker = 1 .. Brokers
BY KillAssumption DEF KillAssumption, Broker

(* The type of a call, in the invariant and at one of them. *)
LEMMA Calls == TypeOK => run \in [Run -> Call] /\ ledger \in [Run \X Symbol -> Entry]
BY DEF TypeOK, Call, Task, Lot, Entry

(* The arithmetic of an entry: a new one, and one order more. *)
LEMMA SquareNew == \A n \in Int, h \in Int, b \in BOOLEAN :
  (b => h = n) => Square([taken |-> n, executed |-> 0, unheard |-> 0, steady |-> b], h)
<1> SUFFICES ASSUME NEW n \in Int, NEW h \in Int, NEW b \in BOOLEAN, b => h = n
             PROVE Square([taken |-> n, executed |-> 0, unheard |-> 0, steady |-> b], h)
  OBVIOUS
<1>1. 0 * n = 0 /\ n - 0 = n
  OBVIOUS
<1> QED
  BY <1>1 DEF Square

LEMMA SquareMoved == \A e \in Entry, h \in Int, g \in Int :
  Square(e, h) => Square([e EXCEPT !.steady = FALSE], g)
BY DEF Square, Entry

LEMMA SquareExecuted == \A e \in Entry, h \in Int, lost \in {0, 1} :
  Square(e, h) /\ e.executed = e.unheard =>
    Square([e EXCEPT !.executed = @ + 1, !.unheard = @ + lost], h - e.taken)
<1> SUFFICES ASSUME NEW e \in Entry, NEW h \in Int, NEW lost \in {0, 1}, Square(e, h),
                    e.executed = e.unheard
             PROVE Square([e EXCEPT !.executed = @ + 1, !.unheard = @ + lost], h - e.taken)
  OBVIOUS
<1> DEFINE x == [e EXCEPT !.executed = @ + 1, !.unheard = @ + lost]
<1>1. /\ x.taken = e.taken /\ x.steady = e.steady
      /\ x.executed = e.executed + 1 /\ x.unheard = e.unheard + lost
      /\ e.taken \in Int /\ e.executed \in Nat /\ e.unheard \in Nat
  BY DEF Entry
<1>2. \A n, k \in Int : n - (k + 1) * n = (n - k * n) - n
  OBVIOUS
<1>3. e.steady => h - e.taken = e.taken - (e.executed + 1) * e.taken
  BY <1>1, <1>2 DEF Square
<1> HIDE DEF x
<1>4. Square(x, h - e.taken)
  BY <1>1, <1>3 DEF Square
<1> QED
  BY <1>4 DEF x

LEMMA InvInit == Init => Inv
<1> SUFFICES ASSUME Init PROVE Inv
  OBVIOUS
<1>1. NoRun \in Call /\ \A r \in Run : run[r] = NoRun
  BY Parameters DEF Init, NoRun, Call, Step, Task, Lot
<1>2. TypeOK
  <2>1. run \in [Run -> Call] /\ ledger \in [Run \X Symbol -> Entry]
    BY <1>1 DEF Init, NoEntry, Entry
  <2>2. position \in [Symbol -> Int]
    BY KillAssumption DEF KillAssumption, Init
  <2> QED
    BY <2>1, <2>2 DEF Init, TypeOK, Call, Task, Lot, Entry
<1>3. Cancelling /\ Tidy
  BY <1>1 DEF Cancelling, Tidy, Unfinished, NoRun
<1>4. Closing
  <2>1. \A r \in Run : Unfinished(r) = {}
    BY <1>1 DEF Unfinished, NoRun
  <2>2. \A r \in Run, s \in Symbol : Square(ledger[<<r, s>>], position[s])
    BY DEF Init, NoEntry, Square
  <2> QED
    BY <2>1, <2>2 DEF Closing
<1> QED
  BY <1>2, <1>3, <1>4 DEF Inv

-----------------------------------------------------------------------------
(* What a step may do to the ledger. *)

(* Nothing moves, and nothing is taken up. *)
LEMMA ClosingStays ==
  ASSUME Inv, UNCHANGED <<position, ledger>>,
         \A q \in Run : Unfinished(q)' \subseteq Unfinished(q)
  PROVE  Closing'
BY DEF Inv, Closing

(* An entry that is no longer steady, and one with an order more. *)
LEMMA EntryMoved == \A e \in Entry :
  LET x == [e EXCEPT !.steady = FALSE]
  IN  x \in Entry /\ x.taken = e.taken /\ x.executed = e.executed /\ x.unheard = e.unheard
BY DEF Entry

LEMMA EntryExecuted == \A e \in Entry, lost \in {0, 1} :
  LET x == [e EXCEPT !.executed = @ + 1, !.unheard = @ + lost]
  IN  /\ x \in Entry /\ x.taken = e.taken
      /\ x.executed = e.executed + 1 /\ x.unheard = e.unheard + lost
<1> SUFFICES ASSUME NEW e \in Entry, NEW lost \in {0, 1}
             PROVE  LET x == [e EXCEPT !.executed = @ + 1, !.unheard = @ + lost]
                    IN  /\ x \in Entry /\ x.taken = e.taken
                        /\ x.executed = e.executed + 1 /\ x.unheard = e.unheard + lost
  OBVIOUS
<1>1. e.executed + 1 \in Nat /\ e.unheard + lost \in Nat
  BY DEF Entry
<1> QED
  BY <1>1 DEF Entry

LEMMA Pairs == \A e \in Run \X Symbol : e[1] \in Run /\ e[2] \in Symbol /\ e = <<e[1], e[2]>>
  OBVIOUS

(* A ledger that has an entry for every call and symbol. *)
LEMMA Ledgers ==
  ASSUME NEW f, f = [e \in Run \X Symbol |-> f[e]],
         \A r \in Run, s \in Symbol : f[<<r, s>>] \in Entry
  PROVE  f \in [Run \X Symbol -> Entry]
<1>1. ASSUME NEW e \in Run \X Symbol PROVE f[e] \in Entry
  <2>1. e[1] \in Run /\ e[2] \in Symbol /\ e = <<e[1], e[2]>>
    BY Pairs
  <2>2. f[<<e[1], e[2]>>] \in Entry
    BY <2>1
  <2> QED
    BY <2>1, <2>2, Zenon
<1> QED
  BY <1>1

(* Others move a symbol. *)
LEMMA ClosingMoves ==
  ASSUME Inv, NEW s \in Symbol, ledger' = Moved(s), position' \in [Symbol -> Int],
         \A x \in Symbol : x # s => position'[x] = position[x],
         UNCHANGED run
  PROVE  ledger' \in [Run \X Symbol -> Entry] /\ Closing'
<1>1. ledger \in [Run \X Symbol -> Entry] /\ position \in [Symbol -> Int]
  BY Calls DEF Inv, TypeOK
<1>2. \A r \in Run, x \in Symbol :
        /\ ledger[<<r, x>>] \in Entry
        /\ ledger'[<<r, x>>] = IF x = s THEN [ledger[<<r, x>>] EXCEPT !.steady = FALSE]
                                       ELSE ledger[<<r, x>>]
  BY <1>1 DEF Moved
<1>3. ASSUME NEW r \in Run, NEW x \in Symbol
      PROVE  /\ ledger'[<<r, x>>] \in Entry
             /\ ledger'[<<r, x>>].taken = ledger[<<r, x>>].taken
             /\ ledger'[<<r, x>>].executed = ledger[<<r, x>>].executed
             /\ ledger'[<<r, x>>].unheard = ledger[<<r, x>>].unheard
             /\ Square(ledger'[<<r, x>>], position'[x])
  <2> DEFINE e == ledger[<<r, x>>]
  <2>1. e \in Entry /\ Square(e, position[x]) /\ position[x] \in Int /\ position'[x] \in Int
    BY <1>1, <1>2 DEF Inv, Closing
  <2>2. ledger'[<<r, x>>] = IF x = s THEN [e EXCEPT !.steady = FALSE] ELSE e
    BY <1>2
  <2> HIDE DEF e
  <2>3. CASE x = s
    <3>1. ledger'[<<r, x>>] = [e EXCEPT !.steady = FALSE]
      BY <2>2, <2>3
    <3>2. /\ ledger'[<<r, x>>] \in Entry /\ ledger'[<<r, x>>].taken = e.taken
          /\ ledger'[<<r, x>>].executed = e.executed /\ ledger'[<<r, x>>].unheard = e.unheard
      BY <2>1, <3>1, EntryMoved
    <3>3. Square(ledger'[<<r, x>>], position'[x])
      BY <2>1, <3>1, SquareMoved
    <3> QED
      BY <3>2, <3>3 DEF e
  <2>4. CASE x # s
    <3>1. ledger'[<<r, x>>] = e /\ position'[x] = position[x]
      BY <2>2, <2>4
    <3> QED
      BY <2>1, <3>1 DEF e
  <2> QED
    BY <2>3, <2>4
<1>4. ledger' \in [Run \X Symbol -> Entry]
  <2>1. ledger' = [e \in Run \X Symbol |-> ledger'[e]]
    BY DEF Moved
  <2> QED
    BY <1>3, <2>1, Ledgers
<1>5. ASSUME NEW r \in Run, NEW p \in Unfinished(r)'
      PROVE  /\ p[2] = ledger'[<<r, p[1]>>].taken
             /\ ledger'[<<r, p[1]>>].executed = ledger'[<<r, p[1]>>].unheard
  <2>1. p \in Unfinished(r) /\ p[1] \in Symbol
    BY Calls DEF Inv, Unfinished, Call, Lot
  <2>2. /\ p[2] = ledger[<<r, p[1]>>].taken
        /\ ledger[<<r, p[1]>>].executed = ledger[<<r, p[1]>>].unheard
    BY <2>1 DEF Inv, Closing
  <2> DEFINE x == p[1]
  <2>3. x \in Symbol
    BY <2>1
  <2> HIDE DEF x
  <2>4. /\ ledger'[<<r, x>>].taken = ledger[<<r, x>>].taken
        /\ ledger'[<<r, x>>].executed = ledger[<<r, x>>].executed
        /\ ledger'[<<r, x>>].unheard = ledger[<<r, x>>].unheard
    BY <1>3, <2>3
  <2> QED
    BY <2>2, <2>4 DEF x
<1> QED
  BY <1>3, <1>4, <1>5 DEF Closing

(* The market executes an order of a call, which hears of it or does not.   *)
LEMMA ClosingExecutes ==
  ASSUME Inv, NEW r \in Run, NEW p \in run[r].symbol, NEW lost \in {0, 1}, Executed(r, p, lost),
         \A q \in Run : Unfinished(q)' \subseteq Unfinished(q),
         lost = 0 => p \notin Unfinished(r)'
  PROVE  /\ ledger' \in [Run \X Symbol -> Entry] /\ position' \in [Symbol -> Int]
         /\ Closing'
<1> DEFINE s == p[1]
<1>1. /\ ledger \in [Run \X Symbol -> Entry] /\ position \in [Symbol -> Int]
      /\ p \in Unfinished(r) /\ p \in Lot /\ s \in Symbol /\ p[2] \in Int
      /\ <<r, s>> \in Run \X Symbol
  BY Calls DEF Inv, TypeOK, Unfinished, Call, Lot
<1>2. /\ position' = [position EXCEPT ![s] = @ - p[2]]
      /\ ledger' = Entered(r, s, lost)
  BY DEF Executed, Closed
<1>3. /\ position' \in [Symbol -> Int] /\ position'[s] = position[s] - p[2]
      /\ \A x \in Symbol : x # s => position'[x] = position[x]
  BY <1>1, <1>2
<1>4. /\ p[2] = ledger[<<r, s>>].taken /\ ledger[<<r, s>>].executed = ledger[<<r, s>>].unheard
      /\ Square(ledger[<<r, s>>], position[s])
  BY <1>1 DEF Inv, Closing
<1>5. \A q \in Run, x \in Symbol :
        /\ ledger[<<q, x>>] \in Entry
        /\ ledger'[<<q, x>>] =
             IF q = r /\ x = s
             THEN [ledger[<<r, s>>] EXCEPT !.executed = @ + 1, !.unheard = @ + lost]
             ELSE IF x = s THEN [ledger[<<q, x>>] EXCEPT !.steady = FALSE] ELSE ledger[<<q, x>>]
  BY <1>1, <1>2 DEF Entered, Moved
<1>6. ASSUME NEW q \in Run, NEW x \in Symbol, q # r \/ x # s
      PROVE  /\ ledger'[<<q, x>>] \in Entry
             /\ ledger'[<<q, x>>].taken = ledger[<<q, x>>].taken
             /\ ledger'[<<q, x>>].executed = ledger[<<q, x>>].executed
             /\ ledger'[<<q, x>>].unheard = ledger[<<q, x>>].unheard
             /\ Square(ledger'[<<q, x>>], position'[x])
  <2> DEFINE e == ledger[<<q, x>>]
  <2>1. e \in Entry /\ Square(e, position[x]) /\ position[x] \in Int /\ position'[x] \in Int
    BY <1>1, <1>3, <1>5 DEF Inv, Closing
  <2>2. ledger'[<<q, x>>] = IF x = s THEN [e EXCEPT !.steady = FALSE] ELSE e
    BY <1>5, <1>6
  <2>3. x # s => position'[x] = position[x]
    BY <1>3
  <2> HIDE DEF e, s
  <2>4. CASE x = s
    <3>1. ledger'[<<q, x>>] = [e EXCEPT !.steady = FALSE]
      BY <2>2, <2>4
    <3>2. /\ ledger'[<<q, x>>] \in Entry /\ ledger'[<<q, x>>].taken = e.taken
          /\ ledger'[<<q, x>>].executed = e.executed /\ ledger'[<<q, x>>].unheard = e.unheard
      BY <2>1, <3>1, EntryMoved
    <3>3. Square(ledger'[<<q, x>>], position'[x])
      BY <2>1, <3>1, SquareMoved
    <3> QED
      BY <3>2, <3>3 DEF e
  <2>5. CASE x # s
    <3>1. ledger'[<<q, x>>] = e /\ position'[x] = position[x]
      BY <2>2, <2>3, <2>5
    <3> QED
      BY <2>1, <3>1 DEF e
  <2> QED
    BY <2>4, <2>5
<1>7. /\ ledger'[<<r, s>>] \in Entry /\ ledger'[<<r, s>>].taken = ledger[<<r, s>>].taken
      /\ ledger'[<<r, s>>].executed = ledger[<<r, s>>].executed + 1
      /\ ledger'[<<r, s>>].unheard = ledger[<<r, s>>].unheard + lost
      /\ Square(ledger'[<<r, s>>], position'[s])
  <2> DEFINE e == ledger[<<r, s>>]
  <2>1. /\ e \in Entry /\ ledger'[<<r, s>>] = [e EXCEPT !.executed = @ + 1, !.unheard = @ + lost]
        /\ position[s] \in Int /\ position'[s] = position[s] - e.taken
        /\ Square(e, position[s]) /\ e.executed = e.unheard
    BY <1>1, <1>3, <1>4, <1>5
  <2> HIDE DEF e, s
  <2>2. /\ ledger'[<<r, s>>] \in Entry /\ ledger'[<<r, s>>].taken = e.taken
        /\ ledger'[<<r, s>>].executed = e.executed + 1
        /\ ledger'[<<r, s>>].unheard = e.unheard + lost
    BY <2>1, EntryExecuted
  <2>3. Square([e EXCEPT !.executed = @ + 1, !.unheard = @ + lost], position[s] - e.taken)
    BY <2>1, SquareExecuted
  <2> QED
    BY <2>1, <2>2, <2>3 DEF e
<1>8. ledger' \in [Run \X Symbol -> Entry]
  <2>1. ledger' = [e \in Run \X Symbol |-> ledger'[e]]
    BY <1>2 DEF Entered
  <2>2. \A q \in Run, x \in Symbol : ledger'[<<q, x>>] \in Entry
    BY <1>6, <1>7
  <2> QED
    BY <2>1, <2>2, Ledgers
<1>9. \A q \in Run, x \in Symbol : Square(ledger'[<<q, x>>], position'[x])
  BY <1>6, <1>7
<1>10. ASSUME NEW q \in Run, NEW y \in Unfinished(q)'
       PROVE  /\ y[2] = ledger'[<<q, y[1]>>].taken
              /\ ledger'[<<q, y[1]>>].executed = ledger'[<<q, y[1]>>].unheard
  <2> DEFINE x == y[1]
  <2>1. y \in Unfinished(q)
    OBVIOUS
  <2>2. x \in Symbol
    BY <2>1, Calls DEF Inv, Unfinished, Call, Lot
  <2>3. y[2] = ledger[<<q, x>>].taken /\ ledger[<<q, x>>].executed = ledger[<<q, x>>].unheard
    BY <2>1 DEF Inv, Closing
  <2>4. q = r /\ x = s => lost = 1
    <3>1. SUFFICES ASSUME q = r, x = s PROVE y = p
      OBVIOUS
    <3> QED
      BY <1>1, <2>1, <3>1 DEF Inv, Tidy
  <2> HIDE DEF x, s
  <2>5. CASE q # r \/ x # s
    <3>1. /\ ledger'[<<q, x>>].taken = ledger[<<q, x>>].taken
          /\ ledger'[<<q, x>>].executed = ledger[<<q, x>>].executed
          /\ ledger'[<<q, x>>].unheard = ledger[<<q, x>>].unheard
      BY <1>6, <2>2, <2>5
    <3> QED
      BY <2>3, <3>1 DEF x
  <2>6. CASE q = r /\ x = s
    <3>1. /\ ledger'[<<q, x>>].taken = ledger[<<q, x>>].taken
          /\ ledger'[<<q, x>>].executed = ledger[<<q, x>>].executed + 1
          /\ ledger'[<<q, x>>].unheard = ledger[<<q, x>>].unheard + 1
      BY <1>7, <2>4, <2>6
    <3> QED
      BY <2>3, <3>1 DEF x
  <2> QED
    BY <2>5, <2>6
<1> QED
  BY <1>3, <1>8, <1>9, <1>10 DEF Closing

-----------------------------------------------------------------------------
(* Steps of others. *)

LEMMA PlaceOrderKeeps == ASSUME Inv, NEW o \in Order, NEW b \in Broker, PlaceOrder(o, b) PROVE Inv'
<1>1. /\ o \notin active
      /\ open' = [open EXCEPT ![b] = @ \cup {o}] /\ active' = active \cup {o}
      /\ UNCHANGED <<halted, reason, position, known, run, ledger>>
  BY DEF PlaceOrder
<1>2. /\ open' \in [Broker -> SUBSET Order] /\ active' \subseteq Order
      /\ \A c \in Broker : open'[c] \subseteq open[c] \cup {o}
  BY <1>1 DEF Inv, TypeOK
<1>3. TypeOK'
  BY <1>1, <1>2 DEF Inv, TypeOK
<1>4. Cancelling'
  <2>1. \A r \in Run : o \notin run[r].snapshot
    BY <1>1 DEF Inv, Cancelling
  <2> QED
    BY <1>1, <1>2, <2>1 DEF Inv, Cancelling
<1>5. Tidy' /\ Closing'
  BY <1>1 DEF Inv, Tidy, Closing, Unfinished
<1> QED
  BY <1>3, <1>4, <1>5 DEF Inv

LEMMA FillKeeps == ASSUME Inv, NEW o \in Order, NEW b \in Broker, Fill(o, b) PROVE Inv'
<1>1. /\ open' = [open EXCEPT ![b] = @ \ {o}]
      /\ position' = [position EXCEPT ![o.symbol] = @ + o.quantity]
      /\ ledger' = Moved(o.symbol)
      /\ UNCHANGED <<halted, reason, active, known, run>>
  BY DEF Fill
<1>2. o.symbol \in Symbol /\ o.quantity \in Int
  BY KillAssumption DEF KillAssumption
<1>3. /\ position' \in [Symbol -> Int]
      /\ \A x \in Symbol : x # o.symbol => position'[x] = position[x]
  BY <1>1, <1>2 DEF Inv, TypeOK
<1>4. /\ open' \in [Broker -> SUBSET Order] /\ \A c \in Broker : open'[c] \subseteq open[c]
  BY <1>1 DEF Inv, TypeOK
<1>5. ledger' \in [Run \X Symbol -> Entry] /\ Closing'
  BY <1>1, <1>2, <1>3, ClosingMoves
<1>6. TypeOK'
  BY <1>1, <1>3, <1>4, <1>5 DEF Inv, TypeOK, Entry
<1>7. Cancelling' /\ Tidy'
  BY <1>1, <1>4 DEF Inv, Cancelling, Tidy, Unfinished
<1> QED
  BY <1>5, <1>6, <1>7 DEF Inv

LEMMA LearnKeeps == ASSUME Inv, NEW s \in Symbol, Learn(s) PROVE Inv'
<1>1. /\ known' = [known EXCEPT ![s] = position[s]]
      /\ UNCHANGED <<halted, reason, active, open, position, run, ledger>>
  BY DEF Learn
<1>2. /\ known' \in [Symbol -> Int] /\ known'[s] = position[s]
      /\ \A x \in Symbol : x # s => known'[x] = known[x]
  BY <1>1 DEF Inv, TypeOK
<1>3. TypeOK'
  BY <1>1, <1>2 DEF Inv, TypeOK
<1>4. Cancelling' /\ Tidy'
  BY <1>1 DEF Inv, Cancelling, Tidy, Unfinished
<1>5. Closing'
  BY <1>1 DEF Inv, Closing, Unfinished
<1> QED
  BY <1>3, <1>4, <1>5 DEF Inv

LEMMA TripKeeps == ASSUME Inv, NEW why \in Reason, Trip(why) PROVE Inv'
<1>1. /\ halted' = TRUE /\ reason' = why
      /\ UNCHANGED <<active, open, position, known, run, ledger>>
  BY DEF Trip
<1>2. TypeOK'
  BY <1>1 DEF Inv, TypeOK
<1>3. Cancelling' /\ Tidy' /\ Closing'
  BY <1>1 DEF Inv, Cancelling, Tidy, Closing, Unfinished
<1> QED
  BY <1>2, <1>3 DEF Inv

-----------------------------------------------------------------------------
(* Steps of a call. *)

LEMMA BeginKeeps == ASSUME Inv, NEW r \in Run, Begin(r) PROVE Inv'
<1> DEFINE listed == [run[r] EXCEPT !.pc = "cancelling", !.snapshot = active,
                                    !.pending = Broker \X active]
           unlisted == [run[r] EXCEPT !.pc = "cancelling", !.failed = TRUE]
<1>1. /\ run[r].pc = "idle"
      /\ \/ run' = [run EXCEPT ![r].pc = "cancelling", ![r].snapshot = active,
                               ![r].pending = Broker \X active]
         \/ run' = [run EXCEPT ![r].pc = "cancelling", ![r].failed = TRUE]
      /\ UNCHANGED <<halted, reason, active, open, position, known, ledger>>
  BY DEF Begin, CancelTasks
<1>2. /\ run \in [Run -> Call] /\ run[r] \in Call
      /\ active \in SUBSET Order /\ Broker \X active \in SUBSET Task
  BY Calls DEF Inv, TypeOK, Task
<1>3. /\ listed \in Call /\ listed.pc = "cancelling" /\ listed.snapshot = active
      /\ listed.pending = Broker \X active /\ listed.refused = run[r].refused
      /\ listed.todo = run[r].todo /\ listed.symbol = run[r].symbol
  BY <1>2 DEF Call, Step
<1>4. /\ unlisted \in Call /\ unlisted.pc = "cancelling" /\ unlisted.snapshot = run[r].snapshot
      /\ unlisted.pending = run[r].pending /\ unlisted.refused = run[r].refused
      /\ unlisted.todo = run[r].todo /\ unlisted.symbol = run[r].symbol
  BY <1>2 DEF Call, Step
<1>5. run' = [run EXCEPT ![r] = listed] \/ run' = [run EXCEPT ![r] = unlisted]
  BY <1>1, <1>2
<1> HIDE DEF listed, unlisted
<1>6. /\ run' \in [Run -> Call] /\ run'[r].pc = "cancelling"
      /\ run'[r].todo = run[r].todo /\ run'[r].symbol = run[r].symbol
      /\ run'[r].refused = run[r].refused
      /\ \/ run'[r].snapshot = active /\ run'[r].pending = Broker \X active
         \/ run'[r].snapshot = run[r].snapshot /\ run'[r].pending = run[r].pending
      /\ \A q \in Run : q # r => run'[q] = run[q]
  BY <1>2, <1>3, <1>4, <1>5
<1>7. TypeOK'
  BY <1>1, <1>6 DEF Inv, TypeOK, Call, Task, Lot
<1>8. Cancelling'
  <2>1. CASE run'[r].snapshot = active /\ run'[r].pending = Broker \X active
    BY <1>1, <1>6, <2>1 DEF Inv, Cancelling
  <2>2. CASE run'[r].snapshot = run[r].snapshot /\ run'[r].pending = run[r].pending
    BY <1>1, <1>6, <2>2 DEF Inv, Cancelling
  <2> QED
    BY <1>6, <2>1, <2>2
<1>9. Unfinished(r) = {}
  BY <1>1 DEF Inv, Tidy
<1>10. \A q \in Run : /\ Unfinished(q)' = Unfinished(q)
                      /\ run'[q].symbol = run[q].symbol /\ run'[q].todo = run[q].todo
  BY <1>6 DEF Unfinished
<1>11. Tidy'
  BY <1>6, <1>9, <1>10 DEF Inv, Tidy
<1>12. Closing'
  BY <1>1, <1>10, ClosingStays
<1> QED
  BY <1>7, <1>8, <1>11, <1>12 DEF Inv

LEMMA CancelAnsweredKeeps ==
  ASSUME Inv, NEW r \in Run, NEW b \in Broker, NEW o \in Order, CancelAnswered(r, b, o) PROVE Inv'
<1>1. /\ run[r].pc = "cancelling" /\ <<b, o>> \in run[r].pending
      /\ UNCHANGED <<halted, reason, active, position, known, ledger>>
      /\ \/ /\ open' = [open EXCEPT ![b] = @ \ {o}]
            /\ run' = [run EXCEPT ![r].pending = @ \ {<<b, o>>}]
         \/ /\ run' = [run EXCEPT ![r].pending = @ \ {<<b, o>>}, ![r].refused = @ \cup {<<b, o>>}]
            /\ UNCHANGED open
  BY DEF CancelAnswered
<1>2. run \in [Run -> Call] /\ open \in [Broker -> SUBSET Order] /\ <<b, o>> \in Task
  BY Calls DEF Inv, TypeOK, Task
<1>3. /\ run' \in [Run -> Call]
      /\ \A q \in Run : /\ run'[q].pc = run[q].pc /\ run'[q].snapshot = run[q].snapshot
                        /\ run'[q].todo = run[q].todo /\ run'[q].symbol = run[q].symbol
      /\ \A q \in Run : q # r => run'[q] = run[q]
      /\ run'[r].pending = run[r].pending \ {<<b, o>>}
      /\ run'[r].refused \in {run[r].refused, run[r].refused \cup {<<b, o>>}}
  <2>1. CASE run' = [run EXCEPT ![r].pending = @ \ {<<b, o>>}]
    BY <1>2, <2>1 DEF Call
  <2>2. CASE run' = [run EXCEPT ![r].pending = @ \ {<<b, o>>}, ![r].refused = @ \cup {<<b, o>>}]
    BY <1>2, <2>2 DEF Call
  <2> QED
    BY <1>1, <2>1, <2>2
<1>4. /\ open' \in [Broker -> SUBSET Order] /\ \A c \in Broker : open'[c] \subseteq open[c]
      /\ o \in open'[b] => run'[r].refused = run[r].refused \cup {<<b, o>>}
  <2>1. CASE open' = [open EXCEPT ![b] = @ \ {o}]
    BY <1>2, <2>1
  <2>2. CASE /\ run' = [run EXCEPT ![r].pending = @ \ {<<b, o>>}, ![r].refused = @ \cup {<<b, o>>}]
             /\ UNCHANGED open
    BY <1>2, <2>2 DEF Call
  <2> QED
    BY <1>1, <2>1, <2>2
<1>5. TypeOK'
  BY <1>1, <1>3, <1>4 DEF Inv, TypeOK, Call, Task, Lot
<1>6. Cancelling'
  <2>1. ASSUME NEW q \in Run, NEW c \in Broker, NEW x \in run[q].snapshot, x \in open'[c]
        PROVE  <<c, x>> \in run'[q].pending \cup run'[q].refused
    <3>1. <<c, x>> \in run[q].pending \cup run[q].refused
      BY <1>4, <2>1 DEF Inv, Cancelling
    <3>2. CASE <<c, x>> = <<b, o>>
      BY <1>3, <1>4, <2>1, <3>1, <3>2
    <3>3. CASE <<c, x>> # <<b, o>>
      BY <1>3, <3>1, <3>3
    <3> QED
      BY <3>2, <3>3
  <2> QED
    BY <1>1, <1>3, <2>1 DEF Inv, Cancelling
<1>7. \A q \in Run : Unfinished(q)' = Unfinished(q)
  BY <1>3 DEF Unfinished
<1>8. Tidy' /\ Closing'
  BY <1>1, <1>3, <1>7, ClosingStays DEF Inv, Tidy
<1> QED
  BY <1>5, <1>6, <1>8 DEF Inv

(* A step of a call that has no cancellation before it. *)
LEMMA Liquidates ==
  ASSUME Inv, NEW r \in Run, run' \in [Run -> Call],
         \A q \in Run : q # r => run'[q] = run[q],
         run'[r].snapshot = run[r].snapshot, run'[r].pending = run[r].pending,
         run'[r].refused = run[r].refused, run[r].pending = {},
         UNCHANGED <<reason, active, open, known>>,
         halted' \in BOOLEAN, halted => halted', run'[r].pc = "done" => halted',
         position' \in [Symbol -> Int], ledger' \in [Run \X Symbol -> Entry]
  PROVE  TypeOK' /\ Cancelling'
<1>1. TypeOK'
  BY DEF Inv, TypeOK, Call, Task, Lot, Entry
<1>2. \A q \in Run : /\ run'[q].snapshot = run[q].snapshot /\ run'[q].pending = run[q].pending
                     /\ run'[q].refused = run[q].refused
  OBVIOUS
<1>3. \A q \in Run : run'[q].pc # "cancelling" => run'[q].pending = {}
  BY DEF Inv, Cancelling
<1>4. \A q \in Run : run'[q].pc = "done" => halted'
  BY DEF Inv, Cancelling
<1>5. \A q \in Run : /\ run'[q].snapshot \subseteq active'
                     /\ \A b \in Broker, o \in run'[q].snapshot :
                          o \in open'[b] => <<b, o>> \in run'[q].pending \cup run'[q].refused
  BY <1>2 DEF Inv, Cancelling
<1> QED
  BY <1>1, <1>3, <1>4, <1>5 DEF Cancelling

(* The positions are taken up: what is to be closed is what the ledger      *)
(* says, and no order of the call is out.                                   *)
LEMMA ClosingTakes ==
  ASSUME Inv, NEW r \in Run, ledger' = Take(r), UNCHANGED position,
         \A p \in Unfinished(r)' : p[1] \in Symbol /\ p[2] = known[p[1]],
         \A q \in Run : q # r => Unfinished(q)' = Unfinished(q)
  PROVE  ledger' \in [Run \X Symbol -> Entry] /\ Closing'
<1>1. /\ ledger \in [Run \X Symbol -> Entry]
      /\ position \in [Symbol -> Int] /\ known \in [Symbol -> Int]
  BY Calls DEF Inv, TypeOK
<1>2. ASSUME NEW s \in Symbol
      PROVE  /\ ledger'[<<r, s>>] = [taken |-> known[s], executed |-> 0, unheard |-> 0,
                                     steady |-> known[s] = position[s]]
             /\ ledger'[<<r, s>>] \in Entry
             /\ \A q \in Run : q # r => ledger'[<<q, s>>] = ledger[<<q, s>>]
  BY <1>1 DEF Take, Entry
<1>3. ledger' \in [Run \X Symbol -> Entry]
  <2>1. ledger' = [e \in Run \X Symbol |-> ledger'[e]]
    BY DEF Take
  <2>2. ASSUME NEW q \in Run, NEW s \in Symbol PROVE ledger'[<<q, s>>] \in Entry
    <3>1. CASE q = r
      BY <1>2, <3>1
    <3>2. CASE q # r
      BY <1>1, <1>2, <3>2
    <3> QED
      BY <3>1, <3>2
  <2> QED
    BY <2>1, <2>2, Ledgers
<1>4. ASSUME NEW q \in Run, NEW s \in Symbol PROVE Square(ledger'[<<q, s>>], position'[s])
  <2>1. CASE q # r
    BY <1>2, <2>1 DEF Inv, Closing
  <2>2. CASE q = r
    <3>1. known[s] \in Int /\ position[s] \in Int /\ position'[s] = position[s]
      BY <1>1
    <3>2. (known[s] = position[s]) \in BOOLEAN
      OBVIOUS
    <3>3. Square([taken |-> known[s], executed |-> 0, unheard |-> 0,
                  steady |-> known[s] = position[s]], position[s])
      BY <3>1, <3>2, SquareNew
    <3> QED
      BY <1>2, <2>2, <3>1, <3>3
  <2> QED
    BY <2>1, <2>2
<1>5. ASSUME NEW q \in Run, NEW p \in Unfinished(q)'
      PROVE  /\ p[2] = ledger'[<<q, p[1]>>].taken
             /\ ledger'[<<q, p[1]>>].executed = ledger'[<<q, p[1]>>].unheard
  <2> DEFINE x == p[1]
  <2>1. CASE q # r
    <3>1. p \in Unfinished(q) /\ x \in Symbol
      BY <2>1, Calls DEF Inv, Unfinished, Call, Lot
    <3>2. p[2] = ledger[<<q, x>>].taken /\ ledger[<<q, x>>].executed = ledger[<<q, x>>].unheard
      BY <3>1 DEF Inv, Closing
    <3> HIDE DEF x
    <3>3. ledger'[<<q, x>>] = ledger[<<q, x>>]
      BY <1>2, <2>1, <3>1
    <3> QED
      BY <3>2, <3>3 DEF x
  <2>2. CASE q = r
    <3>1. x \in Symbol /\ p[2] = known[x]
      BY <2>2
    <3> HIDE DEF x
    <3>2. ledger'[<<q, x>>] = [taken |-> known[x], executed |-> 0, unheard |-> 0,
                               steady |-> known[x] = position[x]]
      BY <1>2, <2>2, <3>1
    <3> DEFINE e == ledger'[<<q, x>>]
    <3>3. e.taken = known[x] /\ e.executed = 0 /\ e.unheard = 0
      BY <3>2
    <3> QED
      BY <3>1, <3>3 DEF x
  <2> QED
    BY <2>1, <2>2
<1> QED
  BY <1>3, <1>4, <1>5 DEF Closing

LEMMA CancelDoneKeeps == ASSUME Inv, NEW r \in Run, CancelDone(r) PROVE Inv'
<1> DEFINE T == {<<s, known[s]>> : s \in {x \in Symbol : known[x] # 0}}
           liquidating == [run[r] EXCEPT !.pc = "liquidating", !.todo = T]
           done == [run[r] EXCEPT !.pc = "done", !.failed = @ \/ AutoLiquidate]
<1>1. /\ run[r].pc = "cancelling" /\ run[r].pending = {}
      /\ UNCHANGED <<reason, active, open, position, known>>
      /\ \/ /\ run' = [run EXCEPT ![r].pc = "liquidating", ![r].todo = T]
            /\ ledger' = Take(r) /\ UNCHANGED halted
         \/ /\ run' = [run EXCEPT ![r].pc = "done", ![r].failed = @ \/ AutoLiquidate]
            /\ halted' = TRUE /\ UNCHANGED ledger
  BY DEF CancelDone, Disabled
<1>2. run \in [Run -> Call] /\ run[r] \in Call /\ T \in SUBSET Lot
  BY Calls DEF Inv, TypeOK, Lot
<1>3. run[r].todo = {} /\ run[r].symbol = {}
  BY <1>1 DEF Inv, Tidy, Unfinished
<1>4. /\ liquidating \in Call /\ liquidating.pc = "liquidating" /\ liquidating.todo = T
      /\ liquidating.symbol = {} /\ liquidating.snapshot = run[r].snapshot
      /\ liquidating.pending = run[r].pending /\ liquidating.refused = run[r].refused
  BY <1>2, <1>3 DEF Call, Step
<1>5. /\ done \in Call /\ done.pc = "done" /\ done.todo = {}
      /\ done.symbol = {} /\ done.snapshot = run[r].snapshot
      /\ done.pending = run[r].pending /\ done.refused = run[r].refused
  BY <1>2, <1>3 DEF Call, Step
<1>6. \/ run' = [run EXCEPT ![r] = liquidating] /\ ledger' = Take(r) /\ UNCHANGED halted
      \/ run' = [run EXCEPT ![r] = done] /\ halted' = TRUE /\ UNCHANGED ledger
  BY <1>1, <1>2
<1>7. \A p, q \in T : p[1] = q[1] => p = q
  OBVIOUS
<1>8. \A p \in T : p[1] \in Symbol /\ p[2] = known[p[1]]
  OBVIOUS
<1> HIDE DEF T, liquidating, done
<1>9. /\ run' \in [Run -> Call] /\ \A q \in Run : q # r => run'[q] = run[q]
      /\ run'[r].snapshot = run[r].snapshot /\ run'[r].pending = run[r].pending
      /\ run'[r].refused = run[r].refused /\ run'[r].symbol = {}
      /\ \/ /\ run'[r].pc = "liquidating" /\ run'[r].todo = T
            /\ ledger' = Take(r) /\ halted' = halted
         \/ /\ run'[r].pc = "done" /\ run'[r].todo = {}
            /\ ledger' = ledger /\ halted' = TRUE
  BY <1>2, <1>4, <1>5, <1>6
<1>10. Unfinished(r)' \subseteq T /\ (run'[r].pc = "done" => Unfinished(r)' = {})
  BY <1>9 DEF Unfinished
<1>11. \A q \in Run : q # r => Unfinished(q)' = Unfinished(q)
  BY <1>9 DEF Unfinished
<1>12. ledger' \in [Run \X Symbol -> Entry] /\ Closing'
  <2>1. CASE ledger' = Take(r)
    <3>1. \A p \in Unfinished(r)' : p[1] \in Symbol /\ p[2] = known[p[1]]
      BY <1>8, <1>10
    <3> QED
      BY <1>1, <1>11, <2>1, <3>1, ClosingTakes
  <2>2. CASE run'[r].pc = "done" /\ ledger' = ledger
    <3>1. \A q \in Run : Unfinished(q)' \subseteq Unfinished(q)
      BY <1>10, <1>11, <2>2
    <3> QED
      BY <1>1, <2>2, <3>1, ClosingStays, Calls DEF Inv
  <2> QED
    BY <1>9, <2>1, <2>2
<1>13. TypeOK' /\ Cancelling'
  <2>1. halted' \in BOOLEAN /\ (halted => halted') /\ (run'[r].pc = "done" => halted')
    <3>1. CASE run'[r].pc = "liquidating" /\ halted' = halted
      BY <3>1 DEF Inv, TypeOK
    <3>2. CASE halted' = TRUE
      BY <3>2
    <3> QED
      BY <1>9, <3>1, <3>2
  <2>2. position' \in [Symbol -> Int]
    BY <1>1 DEF Inv, TypeOK
  <2> QED
    BY <1>1, <1>9, <1>12, <2>1, <2>2, Liquidates
<1>14. Tidy'
  BY <1>7, <1>9, <1>10, <1>11 DEF Inv, Tidy
<1> QED
  BY <1>12, <1>13, <1>14 DEF Inv

LEMMA NextPositionKeeps == ASSUME Inv, NEW r \in Run, NextPosition(r) PROVE Inv'
<1>1. PICK p \in run[r].todo : run' = [run EXCEPT ![r].symbol = {p}, ![r].todo = @ \ {p}, ![r].broker = 1]
  BY DEF NextPosition
<1>2. /\ run[r].pc = "liquidating" /\ run[r].symbol = {}
      /\ UNCHANGED <<halted, reason, active, open, position, known, ledger>>
  BY DEF NextPosition
<1> DEFINE c == [run[r] EXCEPT !.symbol = {p}, !.todo = @ \ {p}, !.broker = 1]
<1>3. run \in [Run -> Call] /\ run[r] \in Call
  BY Calls DEF Inv
<1>4. p \in Lot /\ 1 \in 1 .. Brokers + 1
  BY <1>3, Parameters DEF Call
<1>5. /\ c \in Call /\ c.pc = run[r].pc /\ c.symbol = {p} /\ c.todo = run[r].todo \ {p}
      /\ c.snapshot = run[r].snapshot /\ c.pending = run[r].pending /\ c.refused = run[r].refused
  BY <1>3, <1>4 DEF Call
<1>6. run' = [run EXCEPT ![r] = c]
  BY <1>1, <1>3
<1> HIDE DEF c
<1>7. /\ run' \in [Run -> Call] /\ \A q \in Run : q # r => run'[q] = run[q]
      /\ run'[r].pc = "liquidating" /\ run'[r].symbol = {p} /\ run'[r].todo = run[r].todo \ {p}
      /\ run'[r].snapshot = run[r].snapshot /\ run'[r].pending = run[r].pending
      /\ run'[r].refused = run[r].refused
  BY <1>2, <1>3, <1>5, <1>6
<1>8. run[r].pending = {}
  BY <1>2 DEF Inv, Cancelling
<1>9. TypeOK' /\ Cancelling'
  <2>1. /\ halted' \in BOOLEAN /\ (halted => halted') /\ (run'[r].pc = "done" => halted')
        /\ position' \in [Symbol -> Int] /\ ledger' \in [Run \X Symbol -> Entry]
    BY <1>2, <1>7, Calls DEF Inv, TypeOK
  <2> QED
    BY <1>2, <1>7, <1>8, <2>1, Liquidates
<1>10. \A q \in Run : Unfinished(q)' = Unfinished(q) /\ run'[q].pc = run[q].pc
  BY <1>1, <1>2, <1>7 DEF Unfinished
<1>11. Tidy'
  BY <1>7, <1>10 DEF Inv, Tidy
<1>12. Closing'
  BY <1>2, <1>10, ClosingStays
<1> QED
  BY <1>9, <1>11, <1>12 DEF Inv

(* The lot a call was closing is dealt with: it is closed, or given up.     *)
LEMMA LotDone ==
  ASSUME Inv, NEW r \in Run, run[r].pc = "liquidating", run' \in [Run -> Call],
         \A q \in Run : q # r => run'[q] = run[q],
         run'[r].pc \in {"liquidating", "done"},
         run'[r].symbol = {}, run'[r].todo \subseteq run[r].todo,
         run'[r].pc = "done" => run'[r].todo = {},
         \/ UNCHANGED <<position, ledger>>
         \/ \E p \in run[r].symbol : Executed(r, p, 0)
  PROVE  /\ Tidy' /\ Closing'
         /\ position' \in [Symbol -> Int] /\ ledger' \in [Run \X Symbol -> Entry]
<1>1. \A q \in Run : q # r => Unfinished(q)' = Unfinished(q)
  BY DEF Unfinished
<1>2. /\ Unfinished(r)' = run'[r].todo /\ Unfinished(r)' \subseteq run[r].todo
      /\ run[r].todo \subseteq Unfinished(r)
  BY DEF Unfinished
<1>3. Tidy'
  BY <1>1, <1>2 DEF Inv, Tidy
<1>4. \A q \in Run : Unfinished(q)' \subseteq Unfinished(q)
  BY <1>1, <1>2
<1>5. CASE UNCHANGED <<position, ledger>>
  <2>1. Closing'
    BY <1>4, <1>5, ClosingStays
  <2>2. position' \in [Symbol -> Int] /\ ledger' \in [Run \X Symbol -> Entry]
    BY <1>5, Calls DEF Inv, TypeOK
  <2> QED
    BY <1>3, <2>1, <2>2
<1>6. ASSUME NEW p \in run[r].symbol, Executed(r, p, 0)
      PROVE  /\ Closing' /\ position' \in [Symbol -> Int]
             /\ ledger' \in [Run \X Symbol -> Entry]
  <2>1. p \notin Unfinished(r)'
    BY <1>2 DEF Inv, Tidy
  <2>2. 0 \in {0, 1}
    OBVIOUS
  <2> QED
    BY <1>4, <1>6, <2>1, <2>2, ClosingExecutes
<1> QED
  BY <1>3, <1>5, <1>6

LEMMA SubmitKeeps == ASSUME Inv, NEW r \in Run, NEW p \in run[r].symbol, Submit(r, p) PROVE Inv'
<1>1. /\ run[r].pc = "liquidating" /\ run[r].broker <= Brokers
      /\ UNCHANGED <<halted, reason, active, open, known>>
      /\ \/ Executed(r, p, 0) /\ run' = [run EXCEPT ![r].symbol = {}]
         \/ /\ run' = [run EXCEPT ![r].broker = @ + 1]
            /\ UNCHANGED <<position, ledger>> \/ Executed(r, p, 1)
  BY DEF Submit, Untried, AfterSuccess
<1>2. run \in [Run -> Call] /\ run[r] \in Call
  BY Calls DEF Inv
<1>3. run[r].pending = {}
  BY <1>1 DEF Inv, Cancelling
<1>5. CASE Executed(r, p, 0) /\ run' = [run EXCEPT ![r].symbol = {}]
  <2> DEFINE c == [run[r] EXCEPT !.symbol = {}]
  <2>1. /\ c \in Call /\ c.pc = run[r].pc /\ c.symbol = {} /\ c.todo = run[r].todo
        /\ c.snapshot = run[r].snapshot /\ c.pending = run[r].pending /\ c.refused = run[r].refused
    BY <1>2 DEF Call
  <2>2. run' = [run EXCEPT ![r] = c]
    BY <1>2, <1>5
  <2> HIDE DEF c
  <2>3. /\ run' \in [Run -> Call] /\ \A q \in Run : q # r => run'[q] = run[q]
        /\ run'[r].pc = "liquidating" /\ run'[r].symbol = {} /\ run'[r].todo = run[r].todo
        /\ run'[r].snapshot = run[r].snapshot /\ run'[r].pending = run[r].pending
        /\ run'[r].refused = run[r].refused
    BY <1>1, <1>2, <2>1, <2>2
  <2>4. /\ run'[r].pc \in {"liquidating", "done"} /\ run'[r].todo \subseteq run[r].todo
        /\ (run'[r].pc = "done" => run'[r].todo = {}) /\ \E x \in run[r].symbol : Executed(r, x, 0)
    BY <1>5, <2>3
  <2>5. /\ Tidy' /\ Closing'
        /\ position' \in [Symbol -> Int] /\ ledger' \in [Run \X Symbol -> Entry]
    BY <1>1, <2>3, <2>4, LotDone
  <2>6. halted' \in BOOLEAN /\ (halted => halted') /\ (run'[r].pc = "done" => halted')
    BY <1>1, <2>3 DEF Inv, TypeOK
  <2>7. TypeOK' /\ Cancelling'
    BY <1>1, <1>3, <2>3, <2>5, <2>6, Liquidates
  <2> QED
    BY <2>5, <2>7 DEF Inv
<1>6. CASE /\ run' = [run EXCEPT ![r].broker = @ + 1]
           /\ UNCHANGED <<position, ledger>> \/ Executed(r, p, 1)
  <2> DEFINE c == [run[r] EXCEPT !.broker = @ + 1]
  <2>1. run[r].broker + 1 \in 1 .. Brokers + 1
    BY <1>1, <1>2, Parameters DEF Call
  <2>2. /\ c \in Call /\ c.pc = run[r].pc /\ c.symbol = run[r].symbol /\ c.todo = run[r].todo
        /\ c.snapshot = run[r].snapshot /\ c.pending = run[r].pending /\ c.refused = run[r].refused
    BY <1>2, <2>1 DEF Call
  <2>3. run' = [run EXCEPT ![r] = c]
    BY <1>2, <1>6
  <2> HIDE DEF c
  <2>4. /\ run' \in [Run -> Call] /\ \A q \in Run : q # r => run'[q] = run[q]
        /\ run'[r].pc = "liquidating" /\ run'[r].symbol = run[r].symbol /\ run'[r].todo = run[r].todo
        /\ run'[r].snapshot = run[r].snapshot /\ run'[r].pending = run[r].pending
        /\ run'[r].refused = run[r].refused
    BY <1>1, <1>2, <2>2, <2>3
  <2>5. \A q \in Run : Unfinished(q)' = Unfinished(q) /\ run'[q].pc = run[q].pc
    BY <1>1, <2>4 DEF Unfinished
  <2>6. /\ Closing'
        /\ position' \in [Symbol -> Int] /\ ledger' \in [Run \X Symbol -> Entry]
    <3>1. CASE UNCHANGED <<position, ledger>>
      BY <2>5, <3>1, ClosingStays, Calls DEF Inv, TypeOK
    <3>2. CASE Executed(r, p, 1)
      <4>1. 1 \in {0, 1}
        OBVIOUS
      <4> QED
        BY <2>5, <3>2, <4>1, ClosingExecutes, 1 # 0
    <3> QED
      BY <1>6, <3>1, <3>2
  <2>7. halted' \in BOOLEAN /\ (halted => halted') /\ (run'[r].pc = "done" => halted')
    BY <1>1, <2>4 DEF Inv, TypeOK
  <2>8. TypeOK' /\ Cancelling'
    BY <1>1, <1>3, <2>4, <2>6, <2>7, Liquidates
  <2>9. Tidy'
    BY <2>4, <2>5 DEF Inv, Tidy
  <2> QED
    BY <2>6, <2>8, <2>9 DEF Inv
<1> QED
  BY <1>1, <1>5, <1>6

LEMMA NoBrokerLeftKeeps == ASSUME Inv, NEW r \in Run, NoBrokerLeft(r) PROVE Inv'
<1>1. /\ run[r].pc = "liquidating" /\ run' = [run EXCEPT ![r].symbol = {}, ![r].failed = TRUE]
      /\ UNCHANGED <<halted, reason, active, open, position, known, ledger>>
  BY DEF NoBrokerLeft
<1> DEFINE c == [run[r] EXCEPT !.symbol = {}, !.failed = TRUE]
<1>2. run \in [Run -> Call] /\ run[r] \in Call
  BY Calls DEF Inv
<1>3. /\ c \in Call /\ c.pc = run[r].pc /\ c.symbol = {} /\ c.todo = run[r].todo
      /\ c.snapshot = run[r].snapshot /\ c.pending = run[r].pending /\ c.refused = run[r].refused
  BY <1>2 DEF Call
<1>4. run' = [run EXCEPT ![r] = c]
  BY <1>1, <1>2
<1> HIDE DEF c
<1>5. /\ run' \in [Run -> Call] /\ \A q \in Run : q # r => run'[q] = run[q]
      /\ run'[r].pc = "liquidating" /\ run'[r].symbol = {} /\ run'[r].todo = run[r].todo
      /\ run'[r].snapshot = run[r].snapshot /\ run'[r].pending = run[r].pending
      /\ run'[r].refused = run[r].refused
  BY <1>1, <1>2, <1>3, <1>4
<1>6. run[r].pending = {}
  BY <1>1 DEF Inv, Cancelling
<1>7. halted' \in BOOLEAN /\ (halted => halted') /\ (run'[r].pc = "done" => halted')
  BY <1>1, <1>5 DEF Inv, TypeOK
<1>8. /\ Tidy' /\ Closing'
      /\ position' \in [Symbol -> Int] /\ ledger' \in [Run \X Symbol -> Entry]
  BY <1>1, <1>5, LotDone
<1>9. TypeOK' /\ Cancelling'
  BY <1>1, <1>5, <1>6, <1>7, <1>8, Liquidates
<1> QED
  BY <1>8, <1>9 DEF Inv

(* The call ends, with everything closed or given up. *)
LEMMA EndKeeps ==
  ASSUME Inv, NEW r \in Run, LiquidationDone(r) \/ LiquidationTimesOut(r) PROVE Inv'
<1> DEFINE c == [run[r] EXCEPT !.pc = "done", !.todo = {}, !.symbol = {}, !.failed = TRUE]
           d == [run[r] EXCEPT !.pc = "done"]
<1>1. /\ run[r].pc = "liquidating" /\ halted' = TRUE
      /\ UNCHANGED <<reason, active, open, known>>
      /\ \/ /\ run' = [run EXCEPT ![r].pc = "done", ![r].todo = {}, ![r].symbol = {}, ![r].failed = TRUE]
         \/ /\ run' = [run EXCEPT ![r].pc = "done"] /\ run[r].symbol = {} /\ run[r].todo = {}
      /\ \/ UNCHANGED <<position, ledger>>
         \/ \E p \in run[r].symbol : Executed(r, p, 0)
  BY DEF LiquidationDone, LiquidationTimesOut, Disabled
<1>2. run \in [Run -> Call] /\ run[r] \in Call
  BY Calls DEF Inv
<1>3. /\ c \in Call /\ c.pc = "done" /\ c.symbol = {} /\ c.todo = {}
      /\ c.snapshot = run[r].snapshot /\ c.pending = run[r].pending /\ c.refused = run[r].refused
  BY <1>2 DEF Call, Step
<1>4. /\ d \in Call /\ d.pc = "done" /\ d.symbol = run[r].symbol /\ d.todo = run[r].todo
      /\ d.snapshot = run[r].snapshot /\ d.pending = run[r].pending /\ d.refused = run[r].refused
  BY <1>2 DEF Call, Step
<1>5. \/ run' = [run EXCEPT ![r] = c]
      \/ run' = [run EXCEPT ![r] = d] /\ run[r].symbol = {} /\ run[r].todo = {}
  BY <1>1, <1>2
<1> HIDE DEF c, d
<1>6. /\ run' \in [Run -> Call] /\ \A q \in Run : q # r => run'[q] = run[q]
      /\ run'[r].pc = "done" /\ run'[r].symbol = {} /\ run'[r].todo = {}
      /\ run'[r].snapshot = run[r].snapshot /\ run'[r].pending = run[r].pending
      /\ run'[r].refused = run[r].refused
  BY <1>2, <1>3, <1>4, <1>5
<1>7. run[r].pending = {}
  BY <1>1 DEF Inv, Cancelling
<1>8. /\ Tidy' /\ Closing'
      /\ position' \in [Symbol -> Int] /\ ledger' \in [Run \X Symbol -> Entry]
  BY <1>1, <1>6, LotDone
<1>9. halted' \in BOOLEAN /\ (halted => halted') /\ (run'[r].pc = "done" => halted')
  BY <1>1 DEF Inv, TypeOK
<1>10. TypeOK' /\ Cancelling'
  BY <1>1, <1>6, <1>7, <1>8, <1>9, Liquidates
<1> QED
  BY <1>8, <1>10 DEF Inv

-----------------------------------------------------------------------------

LEMMA InvStep == Inv /\ [Next]_vars => Inv'
<1> SUFFICES ASSUME Inv, [Next]_vars PROVE Inv'
  OBVIOUS
<1>1. CASE UNCHANGED vars
  BY <1>1 DEF vars, Inv, TypeOK, Cancelling, Tidy, Closing, Unfinished
<1>2. ASSUME NEW o \in Order, NEW b \in Broker, PlaceOrder(o, b) PROVE Inv'
  BY <1>2, PlaceOrderKeeps
<1>8. ASSUME NEW o \in Order, NEW b \in Broker, Fill(o, b) PROVE Inv'
  BY <1>8, FillKeeps
<1>3. ASSUME NEW s \in Symbol, Learn(s) PROVE Inv'
  BY <1>3, LearnKeeps
<1>4. ASSUME NEW why \in Reason, Trip(why) PROVE Inv'
  BY <1>4, TripKeeps
<1>5. ASSUME NEW r \in Run, Begin(r) PROVE Inv'
  BY <1>5, BeginKeeps
<1>6. ASSUME NEW r \in Run, OwnStep(r) PROVE Inv'
  BY <1>6, CancelDoneKeeps, NextPositionKeeps, NoBrokerLeftKeeps, EndKeeps DEF OwnStep
<1>7. ASSUME NEW r \in Run, BrokerStep(r) PROVE Inv'
  BY <1>7, CancelAnsweredKeeps, SubmitKeeps DEF BrokerStep
<1> QED
  BY <1>1, <1>2, <1>3, <1>4, <1>5, <1>6, <1>7, <1>8 DEF Next

LEMMA Invariance == Spec => []Inv
<1> QED
  BY InvInit, InvStep, PTL DEF Spec

(* Calls, brokers and orders stay within their types, however many calls of *)
(* execute_safety_actions() overlap.                                        *)
THEOREM KillTypeOK == Spec => []TypeOK
<1>1. Inv => TypeOK
  BY DEF Inv
<1> QED
  BY <1>1, Invariance, PTL

(* A safety run that has ended leaves the system halted, and no order it    *)
(* found open but where the broker refused.                                 *)
THEOREM KillSafetyRunComplete == Spec => []SafetyRunComplete
<1>1. Inv => SafetyRunComplete
  BY DEF Inv, Cancelling, SafetyRunComplete
<1> QED
  BY <1>1, Invariance, PTL

(* The market executes one order of a call for a symbol, and one more for   *)
(* each it executed unheard, whatever fills meanwhile and however many      *)
(* calls liquidate; so a call that was answered leaves what it took up      *)
(* untouched or flat, as long as that was held and nobody else moved it.    *)
THEOREM KillNoFlip == Spec => []NoFlip
<1>1. Inv => NoFlip
  BY DEF Inv, Closing, Square, NoFlip
<1> QED
  BY <1>1, Invariance, PTL
================================================================================
