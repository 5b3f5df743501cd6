---------------------------- MODULE EntryProofs -----------------------------
(***************************************************************************)
(* How a signal becomes an order of an account: the life of the order      *)
(* (OrderLifecycle), and the limits on the entries (SignalGate).           *)
(***************************************************************************)
EXTENDS OrderLifecycle, SignalGate, NumberLemmas

(***************************************************************************)
(* OrderLifecycle.  For any number of intents, with both processes,        *)
(* crashes, lost answers and partial fills: an order reaches the broker    *)
(* under a reservation nobody touched, a reservation moves only along the  *)
(* ledger, and a trade is closed with its reservation.                     *)
(***************************************************************************)
\* A process never sees an order the broker does not have.
ViewsBehind ==
    \A p \in Processes, i \in Intents :
        view[p].orders[i].status # "absent" => order[i].status # "absent"

\* An intent without a reservation row has no order.
NoRowNoOrder ==
    \A i \in Intents : reservation[i] = "none" => order[i].status = "absent"

\* In the middle of an intent, the automation knows which.
CurrentKnown == Automation \notin {"idle", "positions", "orders", "ready"} => current \in Intents

\* About to submit, the reservation is as evaluate_and_reserve inserted it.
ReadyToSubmit ==
    Automation = "submit" =>
        reservation[current] = "reserved" /\ order[current].status = "absent"

\* A dry run has released its reservation before it is recorded.
DryRunReleased == Automation = "dry_run" => reservation[current] = "released"

\* The inductive invariant of the lifecycle in any environment.
Inv ==
    /\ TypeOK
    /\ ViewsBehind
    /\ NoRowNoOrder
    /\ CurrentKnown
    /\ ReadyToSubmit
    /\ DryRunReleased
    /\ ClosedTradesReleased

\* Nothing is reserved, ordered or traded yet.
LEMMA InitInv == Init => Inv
BY ProcessAssumption, EnvironmentAssumption
   DEF Init, Inv, TypeOK, ViewsBehind, NoRowNoOrder, CurrentKnown, ReadyToSubmit,
       DryRunReleased, ClosedTradesReleased, Automation, Absent, NoView, Orders, Statuses,
       Views, Steps, TradeStates, Ledger!ReservationStates

\* An order that has arrived stays; the broker changes nothing else.
LEMMA BrokerStep ==
    ASSUME Inv,
           \E i \in Intents : PartialFill(i) \/ Fill(i) \/ Cancel(i) \/ ClosePosition(i)
    PROVE  /\ Inv'
           /\ UNCHANGED <<database, pc, view, current>>
           /\ \A i \in Intents : order[i].status = "absent" => order'[i].status = "absent"
<1> USE DEF Inv
<1>1. PICK i \in Intents : PartialFill(i) \/ Fill(i) \/ Cancel(i) \/ ClosePosition(i)
  OBVIOUS
<1>2. /\ order' \in [Intents -> Orders]
      /\ order'[i].status = "absent" <=> order[i].status = "absent"
      /\ \A j \in Intents \ {i} : order'[j] = order[j]
      /\ held' \subseteq Intents
      /\ UNCHANGED <<database, pc, view, current, crashes>>
  <2>1. CASE PartialFill(i)
    BY <2>1 DEF PartialFill, TypeOK, Orders, Statuses
  <2>2. CASE Fill(i)
    BY <2>2 DEF Fill, Working, TypeOK, Orders, Statuses
  <2>3. CASE Cancel(i)
    BY <2>3 DEF Cancel, Working, TypeOK, Orders, Statuses
  <2>4. CASE ClosePosition(i)
    <3>1. order[i] \in Orders /\ order' = [order EXCEPT ![i] = [order[i] EXCEPT !.legs = FALSE]]
      BY <2>4 DEF ClosePosition, TypeOK
    <3>2. [order[i] EXCEPT !.legs = FALSE] \in Orders
          /\ [order[i] EXCEPT !.legs = FALSE].status = order[i].status
      BY <3>1 DEF Orders
    <3>3. order' \in [Intents -> Orders] /\ order'[i].status = order[i].status
          /\ \A j \in Intents \ {i} : order'[j] = order[j]
      BY <3>1, <3>2 DEF TypeOK
    <3>4. QED
      BY <2>4, <3>3 DEF ClosePosition, TypeOK
  <2>5. QED
    BY <1>1, <2>1, <2>2, <2>3, <2>4
<1>3. \A j \in Intents : order'[j].status = "absent" <=> order[j].status = "absent"
  BY <1>2
<1>4. TypeOK'
  BY <1>2 DEF TypeOK, database
<1>5. ViewsBehind' /\ NoRowNoOrder'
  BY <1>2, <1>3 DEF ViewsBehind, NoRowNoOrder, database
<1>6. CurrentKnown' /\ DryRunReleased' /\ ClosedTradesReleased'
  BY <1>2 DEF CurrentKnown, DryRunReleased, ClosedTradesReleased, Automation, database
<1>7. ReadyToSubmit'
  BY <1>2, <1>3 DEF ReadyToSubmit, CurrentKnown, Automation, database
<1>8. QED
  BY <1>2, <1>3, <1>4, <1>5, <1>6, <1>7

\* A fetch replaces a view by what the broker has.
LEMMA FetchStep ==
    ASSUME Inv, NEW p \in Processes, FetchPositions(p) \/ FetchOrders(p)
    PROVE  Inv'
<1> USE DEF Inv
<1>1. CASE FetchPositions(p)
  <2>1. /\ view' = [view EXCEPT ![p] = [view[p] EXCEPT !.positions = {SymbolOf[i] : i \in held}]]
        /\ view'[p] \in Views /\ view'[p].orders = view[p].orders
    BY <1>1, IntentAssumption DEF FetchPositions, TypeOK, Views
  <2>2. TypeOK'
    BY <1>1, <2>1 DEF FetchPositions, TypeOK, Steps, broker, database
  <2>3. ViewsBehind'
    BY <1>1, <2>1 DEF FetchPositions, ViewsBehind, TypeOK, broker
  <2>4. QED
    BY <1>1, <2>2, <2>3
       DEF FetchPositions, NoRowNoOrder, CurrentKnown, ReadyToSubmit, DryRunReleased,
           ClosedTradesReleased, Automation, TypeOK, broker, database
<1>2. CASE FetchOrders(p)
  <2>1. /\ view' = [view EXCEPT ![p] = [view[p] EXCEPT !.orders = order]]
        /\ view'[p] \in Views /\ view'[p].orders = order
    BY <1>2 DEF FetchOrders, TypeOK, Views
  <2>2. TypeOK'
    BY <1>2, <2>1 DEF FetchOrders, TypeOK, Steps, broker, database
  <2>3. ViewsBehind'
    BY <1>2, <2>1 DEF FetchOrders, ViewsBehind, TypeOK, broker
  <2>4. QED
    BY <1>2, <2>2, <2>3
       DEF FetchOrders, NoRowNoOrder, CurrentKnown, ReadyToSubmit, DryRunReleased,
           ClosedTradesReleased, Automation, TypeOK, broker, database
<1>3. QED
  BY <1>1, <1>2

\* What a reconciliation does to one intent.
LEMMA ReconciledIntent ==
    ASSUME Inv, NEW p \in Processes, NEW i \in Intents
    PROVE  /\ ReconciledReservation(view[p], i) \in Ledger!ReservationStates
           /\ \/ ReconciledReservation(view[p], i) = reservation[i]
              \/ <<reservation[i], ReconciledReservation(view[p], i)>> \in Ledger!Moves
           /\ ReconciledReservation(view[p], i) # reservation[i] => order[i].status # "absent"
           /\ ReconciledReservation(view[p], i) = "none" <=> reservation[i] = "none"
           /\ reservation[i] = "released" => ReconciledReservation(view[p], i) = "released"
           /\ ReconciledTrade(view[p], i) \in TradeStates
           /\ ReconciledTrade(view[p], i) \in {"dry_run", "canceled", "position_closed"}
                => ReconciledReservation(view[p], i) = "released"
<1> DEFINE v == view[p]
           o == v.orders[i]
           new == ReconciledReservation(v, i)
<1> USE DEF Inv, ActiveStates, Ledger!ActiveStates, Ledger!ReservationStates
<1>1. /\ reservation[i] \in Ledger!ReservationStates /\ trade[i] \in TradeStates
      /\ trade[i] \in {"dry_run", "canceled", "position_closed"} => reservation[i] = "released"
      /\ v \in Views /\ o \in Orders
  BY DEF TypeOK, ClosedTradesReleased, Views
<1>2. CASE ~ Considered(v, i)
  BY <1>1, <1>2 DEF ReconciledReservation, ReconciledTrade
<1>3. CASE Considered(v, i)
  <2>1. reservation[i] \in ActiveStates /\ order[i].status # "absent"
    BY <1>3 DEF Considered, ViewsBehind
  <2>2. CASE HasPosition(v, i) \/ IsActive(o)
    BY <1>1, <1>3, <2>1, <2>2
       DEF ReconciledReservation, ReconciledTrade, IsActive, TradeStates, Ledger!Moves
  <2>3. CASE ~ (HasPosition(v, i) \/ IsActive(o)) /\ o.status = "canceled"
    BY <1>1, <1>3, <2>1, <2>3
       DEF ReconciledReservation, ReconciledTrade, IsActive, TradeStates, Ledger!Moves
  <2>4. CASE ~ (HasPosition(v, i) \/ IsActive(o)) /\ o.status = "filled"
    BY <1>1, <1>3, <2>1, <2>4
       DEF ReconciledReservation, ReconciledTrade, IsActive, TradeStates, Ledger!Moves
  <2>5. CASE o.status \notin {"canceled", "filled"} /\ ~ (HasPosition(v, i) \/ IsActive(o))
    BY <1>1, <1>3, <2>1, <2>5
       DEF ReconciledReservation, ReconciledTrade, IsActive, TradeStates, Ledger!Moves
  <2>6. QED
    BY <2>2, <2>3, <2>4, <2>5
<1>4. QED
  BY <1>2, <1>3

\* A reconciliation never touches an intent whose order has not arrived.
LEMMA ReconcileStep ==
    ASSUME Inv, NEW p \in Processes, RecordOrderReconciliation(p)
    PROVE  /\ Inv'
           /\ order' = order
           /\ \A i \in Intents :
                 \/ reservation'[i] = reservation[i]
                 \/ <<reservation[i], reservation'[i]>> \in Ledger!Moves
<1> USE DEF Inv
<1>1. /\ reservation' = [i \in Intents |-> ReconciledReservation(view[p], i)]
      /\ trade' = [i \in Intents |-> ReconciledTrade(view[p], i)]
      /\ UNCHANGED <<broker, signals, current, crashes>>
  BY DEF RecordOrderReconciliation
<1>2. /\ pc' \in [Processes -> Steps]
      /\ view' \in [Processes -> Views]
      /\ pc'["automation"] = pc["automation"] \/ pc'["automation"] = "ready"
      /\ \A q \in Processes, i \in Intents :
            view'[q].orders[i].status # "absent" => view[q].orders[i].status # "absent"
  <2>1. NoView \in Views /\ \A i \in Intents : NoView.orders[i].status = "absent"
    BY DEF NoView, Views, Absent, Orders, Statuses
  <2>2. CASE p = "automation"
    BY <2>2, ProcessAssumption DEF RecordOrderReconciliation, TypeOK, Steps
  <2>3. CASE p # "automation"
    BY <2>1, <2>3, ProcessAssumption DEF RecordOrderReconciliation, TypeOK, Steps
  <2>4. QED
    BY <2>2, <2>3
<1>3. TypeOK'
  BY <1>1, <1>2, ReconciledIntent DEF TypeOK, broker
<1>4. ViewsBehind' /\ CurrentKnown'
  BY <1>1, <1>2 DEF ViewsBehind, CurrentKnown, Automation, broker
<1>5. NoRowNoOrder' /\ ClosedTradesReleased'
  BY <1>1, ReconciledIntent DEF NoRowNoOrder, ClosedTradesReleased, broker
<1>6. ReadyToSubmit' /\ DryRunReleased'
  BY <1>1, <1>2, ReconciledIntent
     DEF ReadyToSubmit, DryRunReleased, CurrentKnown, Automation, broker
<1>7. QED
  BY <1>1, <1>3, <1>4, <1>5, <1>6, ReconciledIntent DEF broker

\* The automation records a signal, leaves it, or ends its cycle: no row and no
\* order changes.
LEMMA SignalStep ==
    ASSUME Inv, (\E i \in Intents : RecordSignal(i)) \/ Block \/ EndCycle
    PROVE  Inv' /\ UNCHANGED <<order, reservation>>
<1> USE ProcessAssumption DEF Inv, Goto, Automation, broker, database
<1>1. NoView \in Views /\ \A i \in Intents : NoView.orders[i].status = "absent"
  BY DEF NoView, Views, Absent, Orders, Statuses
<1>2. CASE \E i \in Intents : RecordSignal(i)
  BY <1>2 DEF RecordSignal, TypeOK, Steps, ViewsBehind, NoRowNoOrder, CurrentKnown,
              ReadyToSubmit, DryRunReleased, ClosedTradesReleased
<1>3. CASE Block
  BY <1>3 DEF Block, TypeOK, Steps, ViewsBehind, NoRowNoOrder, CurrentKnown,
              ReadyToSubmit, DryRunReleased, ClosedTradesReleased
<1>4. CASE EndCycle
  BY <1>1, <1>4 DEF EndCycle, TypeOK, Steps, ViewsBehind, NoRowNoOrder, CurrentKnown,
              ReadyToSubmit, DryRunReleased, ClosedTradesReleased
<1>5. QED
  BY <1>2, <1>3, <1>4

\* The automation's steps that write the current intent's reservation.
LEMMA ReservationStep ==
    ASSUME Inv, Reserve \/ DryRun \/ MarkSubmitted \/ ReleaseAfterFailure
    PROVE  /\ Inv'
           /\ order' = order
           /\ \A i \in Intents :
                 \/ reservation'[i] = reservation[i]
                 \/ <<reservation[i], reservation'[i]>> \in Ledger!Moves
<1> USE ProcessAssumption DEF Inv, Goto, Automation, broker, database
<1>1. current \in Intents
  BY DEF Reserve, DryRun, MarkSubmitted, ReleaseAfterFailure, CurrentKnown
<1>2. NoView \in Views /\ \A i \in Intents : NoView.orders[i].status = "absent"
  BY DEF NoView, Views, Absent, Orders, Statuses
<1>3. PICK s \in Ledger!ReservationStates :
         /\ reservation' = [reservation EXCEPT ![current] = s]
         /\ s = reservation[current] \/ <<reservation[current], s>> \in Ledger!Moves
         /\ s = "none" => reservation[current] = "none"
         /\ reservation[current] = "released" => s = "released"
         /\ pc'["automation"] = "submit" => s = "reserved" /\ order[current].status = "absent"
         /\ pc'["automation"] = "dry_run" => s = "released"
  <2> USE DEF Ledger!ReservationStates, Ledger!ActiveStates, Ledger!Moves, ActiveStates, TypeOK
  <2>1. CASE Reserve /\ pc'["automation"] = "submit"
    BY <1>1, <2>1 DEF Reserve, NoRowNoOrder
  <2>2. CASE Reserve /\ pc'["automation"] # "submit"
    BY <1>1, <2>2 DEF Reserve
  <2>3. CASE DryRun
    BY <1>1, <2>3 DEF DryRun, ReadyToSubmit
  <2>4. CASE MarkSubmitted
    BY <1>1, <2>4 DEF MarkSubmitted
  <2>5. CASE ReleaseAfterFailure
    <3>1. reservation[current] \in Ledger!ReservationStates
      BY <1>1
    <3>2. pc'["automation"] = "idle"
      BY <2>5 DEF ReleaseAfterFailure
    <3>3. PICK s : /\ s = IF reservation[current] \in ActiveStates
                          THEN "released" ELSE reservation[current]
                   /\ reservation' = [reservation EXCEPT ![current] = s]
      BY <2>5 DEF ReleaseAfterFailure
    <3>4. s \in Ledger!ReservationStates
          /\ (s = reservation[current] \/ <<reservation[current], s>> \in Ledger!Moves)
      BY <3>1, <3>3
    <3> HIDE DEF Inv, TypeOK, Goto, Automation, broker, database, Ledger!ReservationStates,
                 Ledger!Moves
    <3>5. s = "none" => reservation[current] = "none"
      BY <3>3
    <3>6. reservation[current] = "released" => s = "released"
      BY <3>3
    <3>7. QED
      BY <3>2, <3>3, <3>4, <3>5, <3>6
  <2> HIDE DEF Inv, TypeOK, Goto, Automation, broker, database, Ledger!ReservationStates,
               Ledger!ActiveStates, Ledger!Moves, ActiveStates
  <2>6. QED
    BY <2>1, <2>2, <2>3, <2>4, <2>5
<1>4. /\ pc' \in [Processes -> Steps] /\ view' \in [Processes -> Views]
      /\ current' \in Intents \cup {NoIntent}
      /\ pc'["automation"] \in {"submit", "rejected", "dry_run", "submitted", "failed", "idle"}
      /\ pc'["automation"] # "idle" => current' = current
      /\ \A q \in Processes, i \in Intents :
            view'[q].orders[i].status # "absent" => view[q].orders[i].status # "absent"
      /\ UNCHANGED <<broker, trade, signals, crashes>>
  BY <1>1, <1>2
     DEF Reserve, DryRun, MarkSubmitted, ReleaseAfterFailure, TypeOK, Steps
<1>5. /\ order' = order
      /\ \A i \in Intents :
            \/ reservation'[i] = reservation[i]
            \/ <<reservation[i], reservation'[i]>> \in Ledger!Moves
  BY <1>1, <1>3, <1>4 DEF TypeOK
<1>6. TypeOK'
  BY <1>1, <1>3, <1>4 DEF TypeOK
<1>7. ViewsBehind' /\ NoRowNoOrder' /\ CurrentKnown'
  BY <1>1, <1>3, <1>4 DEF TypeOK, ViewsBehind, NoRowNoOrder, CurrentKnown
<1>8. ReadyToSubmit' /\ DryRunReleased' /\ ClosedTradesReleased'
  BY <1>1, <1>3, <1>4 DEF TypeOK, ReadyToSubmit, DryRunReleased, ClosedTradesReleased
<1>9. QED
  BY <1>5, <1>6, <1>7, <1>8

\* The only step by which an order arrives, and its reservation is untouched.
LEMMA SubmitStep ==
    ASSUME Inv, Submit
    PROVE  /\ Inv'
           /\ reservation' = reservation
           /\ \A i \in Intents :
                 order[i].status = "absent" /\ order'[i].status # "absent"
                   => reservation[i] = "reserved"
<1> USE ProcessAssumption DEF Inv, Goto, Automation, database
<1>1. /\ current \in Intents /\ reservation[current] = "reserved"
      /\ order[current] \in Orders
  BY DEF Submit, CurrentKnown, ReadyToSubmit, TypeOK
<1>2. /\ order' \in [Intents -> Orders]
      /\ \A i \in Intents \ {current} : order'[i] = order[i]
      /\ order'[current].status # "absent" \/ order' = order
  <2>1. CASE order' = order
    BY <2>1 DEF TypeOK
  <2>2. CASE order' = [order EXCEPT ![current] = [order[current] EXCEPT !.status = "working"]]
    <3>1. /\ [order[current] EXCEPT !.status = "working"] \in Orders
          /\ [order[current] EXCEPT !.status = "working"].status = "working"
      BY <1>1 DEF Orders, Statuses
    <3>2. QED
      BY <1>1, <2>2, <3>1 DEF TypeOK
  <2>3. QED
    BY <2>1, <2>2 DEF Submit
<1>3. /\ pc' \in [Processes -> Steps]
      /\ pc'["automation"] \in {"accepted", "failed"}
      /\ UNCHANGED <<held, database, view, current, crashes>>
  BY DEF Submit, TypeOK, Steps
<1>4. QED
  BY <1>1, <1>2, <1>3
     DEF TypeOK, ViewsBehind, NoRowNoOrder, CurrentKnown, ReadyToSubmit, DryRunReleased,
         ClosedTradesReleased

\* A dry run is recorded as such only when its reservation is released.
LEMMA TradeRowStep ==
    ASSUME Inv, RecordTradeResult
    PROVE  Inv' /\ UNCHANGED <<order, reservation>>
<1> USE ProcessAssumption DEF Inv, Goto, Automation, broker
<1>1. current \in Intents /\ trade' \in [Intents -> TradeStates]
  BY DEF RecordTradeResult, CurrentKnown, TypeOK, TradeStates
<1>2. QED
  BY <1>1 DEF RecordTradeResult, TypeOK, Steps, ViewsBehind, NoRowNoOrder, CurrentKnown,
              ReadyToSubmit, DryRunReleased, ClosedTradesReleased

\* A process that dies forgets what it saw and was doing, and nothing else.
LEMMA CrashStep ==
    ASSUME Inv, NEW p \in Processes, Crash(p)
    PROVE  Inv' /\ UNCHANGED <<order, reservation>>
<1> USE ProcessAssumption, EnvironmentAssumption DEF Inv, Automation, broker, database
<1>1. NoView \in Views /\ \A i \in Intents : NoView.orders[i].status = "absent"
  BY DEF NoView, Views, Absent, Orders, Statuses
<1>2. TypeOK'
  BY <1>1 DEF Crash, TypeOK, Steps
<1>3. ViewsBehind'
  BY <1>1 DEF Crash, TypeOK, ViewsBehind
<1>4. QED
  BY <1>2, <1>3 DEF Crash, TypeOK, NoRowNoOrder, CurrentKnown, ReadyToSubmit, DryRunReleased,
                    ClosedTradesReleased

\* What every step keeps, and how it may move the reservations and the orders.
LEMMA NextStep ==
    ASSUME Inv, [Next]_vars
    PROVE  /\ Inv'
           /\ \A i \in Intents :
                 \/ reservation'[i] = reservation[i]
                 \/ <<reservation[i], reservation'[i]>> \in Ledger!Moves
           /\ \A i \in Intents :
                 order[i].status = "absent" /\ order'[i].status # "absent"
                   => reservation[i] = "reserved"
<1>1. CASE UNCHANGED vars
  BY <1>1 DEF vars, Inv, TypeOK, ViewsBehind, NoRowNoOrder, CurrentKnown, ReadyToSubmit,
              DryRunReleased, ClosedTradesReleased, Automation
<1>2. CASE \E i \in Intents : PartialFill(i) \/ Fill(i) \/ Cancel(i) \/ ClosePosition(i)
  BY <1>2, BrokerStep DEF database
<1>3. CASE \E p \in Processes : Reconcile(p)
  <2>1. PICK p \in Processes : Reconcile(p)
    BY <1>3
  <2>2. CASE FetchPositions(p) \/ FetchOrders(p)
    BY <2>2, FetchStep DEF FetchPositions, FetchOrders, broker, database
  <2>3. CASE RecordOrderReconciliation(p)
    BY <2>3, ReconcileStep
  <2>4. QED
    BY <2>1, <2>2, <2>3 DEF Reconcile
<1>4. CASE Trade
  BY <1>4, SignalStep, ReservationStep, SubmitStep, TradeRowStep DEF Trade
<1>5. CASE \E p \in Processes : Crash(p)
  BY <1>5, CrashStep
<1>6. QED
  BY <1>1, <1>2, <1>3, <1>4, <1>5 DEF Next

\* The invariant holds of every behaviour.
LEMMA InvHolds == Spec => []Inv
<1>1. Inv /\ [Next]_vars => Inv'
  BY NextStep
<1>2. QED
  BY <1>1, InitInv, PTL DEF Spec

\* The lifecycle is type correct, for any intents, processes and crashes
\* (risk_authority.py, audit.py, the orders of the broker).
THEOREM LifecycleTypeCorrect == Spec => []TypeOK
<1>1. Inv => TypeOK
  BY DEF Inv
<1>2. QED
  BY InvHolds, <1>1, PTL

\* However the two processes, the crashes and the broker interleave, an order is
\* sent under a reservation that is exactly as evaluate_and_reserve inserted it.
THEOREM ArrivesReserved == Spec => OrdersArriveReserved
<1>1. Inv /\ [Next]_vars =>
        [\A i \in Intents : order[i].status = "absent" /\ order'[i].status # "absent"
            => reservation[i] = "reserved"]_vars
  BY NextStep
<1>2. QED
  BY <1>1, InvHolds, PTL DEF Spec, OrdersArriveReserved

\* Every step of the lifecycle moves the risk_reservations rows as the ledger
\* allows, or leaves them alone.
THEOREM LifecycleImplementsLedger == Spec => ImplementsLedger
<1>1. Init => Ledger!Init
  BY DEF Init, Ledger!Init
<1>2. Inv /\ Inv' /\ [Next]_vars => [Ledger!Next]_reservation
  BY NextStep DEF Inv, TypeOK, Ledger!Next
<1>3. QED
  BY <1>1, <1>2, InvHolds, PTL DEF Spec, ImplementsLedger, Ledger!Spec

\* A trade row that says dry_run, canceled or position_closed has a released
\* reservation, in whichever order process, record_trade_result and the
\* reconciliations of both processes come.
THEOREM ClosedWithReservation == Spec => []ClosedTradesReleased
<1>1. Inv => ClosedTradesReleased
  BY DEF Inv
<1>2. QED
  BY <1>1, InvHolds, PTL

-----------------------------------------------------------------------------
(***************************************************************************)
(* Cycles that take turns and whole fills.  Then no reconciliation         *)
(* releases what lives: an order seen final is final, and a reservation    *)
(* that awaits a second absence has a filled order, so that a position     *)
(* absent in this cycle is gone for good.  What is left is the failure     *)
(* path of process.                                                        *)
(***************************************************************************)
\* No process starts a cycle while another is in one.  The two services of the code
\* take no such turns; a single process always does.
OneCycleAtATime == \A p, q \in Processes : p # q => pc[p] = "idle" \/ pc[q] = "idle"

InTurns == OneCycleAtATime /\ ~ PartialFills

\* A held position has a filled order, and live legs guard a held position.
WholeFills ==
    \A i \in Intents :
        /\ order[i].status # "partially_filled"
        /\ i \in held => order[i].status = "filled"
        /\ order[i].legs => i \in held

\* A final status that was seen is still the order's status.
SeenFinal ==
    \A p \in Processes, i \in Intents :
        view[p].orders[i].status \in {"canceled", "filled"}
            => order[i].status = view[p].orders[i].status

\* Only a filled order awaits a second absence of its position.
PendingFilled ==
    \A i \in Intents : reservation[i] = "closing_pending" => order[i].status = "filled"

\* A position awaited and not among those fetched is not held.
AbsenceCertain ==
    \A p \in Processes, i \in Intents :
        /\ pc[p] \in {"positions", "orders"}
        /\ reservation[i] = "closing_pending"
        /\ SymbolOf[i] \notin view[p].positions
        => i \notin held

\* What is added to Inv when cycles take turns.
TurnsInv ==
    /\ WholeFills
    /\ SeenFinal
    /\ PendingFilled
    /\ AbsenceCertain

\* A reservation of what lives stays active in this step.
KeepsLive ==
    \A i \in Intents : Live(i)' /\ reservation[i] \in ActiveStates => reservation'[i] \in ActiveStates

\* No order and no reservation exists.
LEMMA InitTurns == Init => TurnsInv
BY ProcessAssumption
   DEF Init, TurnsInv, WholeFills, SeenFinal, PendingFilled, AbsenceCertain, Absent, NoView

\* An order that is absent or final without a position is not live.
LEMMA NotLive ==
    ASSUME WholeFills, NEW i \in Intents,
           order[i].status \in {"absent", "canceled"}
             \/ (order[i].status = "filled" /\ i \notin held)
    PROVE  ~ Live(i)
BY DEF WholeFills, Live, IsActive, Working

\* The broker fills and cancels only what is working, and closes what is held.
LEMMA BrokerTurns ==
    ASSUME InTurns, InTurns', Inv, TurnsInv,
           \E i \in Intents : PartialFill(i) \/ Fill(i) \/ Cancel(i) \/ ClosePosition(i)
    PROVE  TurnsInv' /\ \A j \in Intents : Live(j)' => Live(j)
<1> USE ProcessAssumption DEF Inv, TurnsInv, InTurns
<1>1. PICK i \in Intents : Fill(i) \/ Cancel(i) \/ ClosePosition(i)
  BY DEF PartialFill
<1>2. /\ \A j \in Intents \ {i} : order'[j] = order[j] /\ (j \in held' <=> j \in held)
      /\ UNCHANGED <<reservation, pc, view, current>>
      /\ order[i].status # "absent" /\ order'[i].status # "absent"
      /\ order[i].status \in {"canceled", "filled"} => order'[i].status = order[i].status
      /\ i \in held' => i \in held \/ order[i].status = "working"
      /\ Live(i)
      /\ order'[i].status # "partially_filled"
      /\ i \in held' => order'[i].status = "filled"
      /\ order'[i].legs => i \in held'
  <2>1. order[i] \in Orders /\ order \in [Intents -> Orders]
    BY DEF TypeOK
  <2>2. order[i].status # "partially_filled" /\ (i \in held => order[i].status = "filled")
        /\ (order[i].legs => i \in held)
    BY DEF WholeFills
  <2>3. CASE Fill(i)
    BY <2>1, <2>2, <2>3 DEF Fill, Working, Live, IsActive, database
  <2>4. CASE Cancel(i)
    BY <2>1, <2>2, <2>4 DEF Cancel, Working, Live, IsActive, database, Orders
  <2>5. CASE ClosePosition(i)
    <3>1. /\ order' = [order EXCEPT ![i] = [order[i] EXCEPT !.legs = FALSE]]
          /\ [order[i] EXCEPT !.legs = FALSE].status = order[i].status
          /\ [order[i] EXCEPT !.legs = FALSE].legs = FALSE
      BY <2>1, <2>5 DEF ClosePosition, Orders
    <3>2. order'[i].status = order[i].status /\ order'[i].legs = FALSE
          /\ \A j \in Intents \ {i} : order'[j] = order[j]
      BY <2>1, <3>1
    <3>3. order[i].status = "filled" /\ Live(i) /\ i \notin held'
      BY <2>2, <2>5 DEF ClosePosition, Live
    <3>4. QED
      BY <2>5, <3>2, <3>3 DEF ClosePosition, database
  <2>6. QED
    BY <1>1, <2>3, <2>4, <2>5
<1>3. \A j \in Intents : Live(j)' => Live(j)
  BY <1>2 DEF Live, IsActive, Working
<1>4. WholeFills'
  BY <1>2 DEF WholeFills
<1>5. SeenFinal' /\ PendingFilled'
  BY <1>2 DEF SeenFinal, PendingFilled
<1>6. AbsenceCertain'
  BY <1>2 DEF AbsenceCertain, PendingFilled
<1>7. QED
  BY <1>3, <1>4, <1>5, <1>6

\* The fetches: what is not among the positions fetched is not held.
LEMMA FetchTurns ==
    ASSUME InTurns, InTurns', Inv, TurnsInv, NEW p \in Processes, FetchPositions(p) \/ FetchOrders(p)
    PROVE  /\ TurnsInv' /\ UNCHANGED <<order, held, reservation>>
           /\ pc'["automation"] \in {"idle", "positions", "orders"}
<1> USE ProcessAssumption DEF Inv, TurnsInv, InTurns
<1>1. /\ UNCHANGED <<order, held, reservation, current>>
      /\ pc'[p] \in {"positions", "orders"}
      /\ \A q \in Processes \ {p} : pc'[q] = "idle" /\ view'[q] = view[q]
  BY DEF FetchPositions, FetchOrders, OneCycleAtATime, TypeOK, broker, database
<1>2. view \in [Processes -> Views]
  BY DEF TypeOK
<1>3. CASE FetchPositions(p)
  <2>1. /\ view'[p].positions = {SymbolOf[i] : i \in held}
        /\ view'[p].orders = view[p].orders
    BY <1>2, <1>3 DEF FetchPositions, Views
  <2>2. SeenFinal'
    BY <1>1, <2>1 DEF SeenFinal
  <2>3. AbsenceCertain'
    BY <1>1, <2>1 DEF AbsenceCertain
  <2>4. QED
    BY <1>1, <2>2, <2>3 DEF WholeFills, PendingFilled
<1>4. CASE FetchOrders(p)
  <2>1. /\ view'[p].positions = view[p].positions
        /\ view'[p].orders = order
        /\ pc[p] = "positions"
    BY <1>2, <1>4 DEF FetchOrders, Views
  <2>2. SeenFinal'
    BY <1>1, <2>1 DEF SeenFinal
  <2>3. AbsenceCertain'
    BY <1>1, <2>1 DEF AbsenceCertain
  <2>4. QED
    BY <1>1, <2>2, <2>3 DEF WholeFills, PendingFilled
<1>5. QED
  BY <1>1, <1>3, <1>4

\* A reconciliation releases only what is over for good.
LEMMA ReconcileTurns ==
    ASSUME InTurns, InTurns', Inv, TurnsInv, NEW p \in Processes, RecordOrderReconciliation(p)
    PROVE  /\ TurnsInv' /\ KeepsLive /\ UNCHANGED <<order, held>>
           /\ pc'["automation"] \in {"idle", "ready"}
<1> USE ProcessAssumption DEF Inv, TurnsInv, InTurns
<1> USE DEF ActiveStates, Ledger!ActiveStates
<1>1. /\ UNCHANGED <<order, held, current>>
      /\ pc[p] = "orders" /\ pc'[p] \in {"idle", "ready"}
      /\ \A q \in Processes \ {p} : pc'[q] = "idle"
      /\ \A q \in Processes : view'[q] \in {view[q], NoView}
      /\ reservation' = [i \in Intents |-> ReconciledReservation(view[p], i)]
  BY DEF RecordOrderReconciliation, OneCycleAtATime, TypeOK, broker
<1>2. \A i \in Intents : Live(i)' <=> Live(i)
  BY <1>1 DEF Live
<1>3. ASSUME NEW i \in Intents
      PROVE  /\ reservation'[i] = "closing_pending" => order[i].status = "filled"
             /\ Live(i) /\ reservation[i] \in ActiveStates => reservation'[i] \in ActiveStates
  <2> DEFINE v == view[p]
             o == v.orders[i]
  <2>1. o.status \in {"canceled", "filled"} => order[i].status = o.status
    BY DEF SeenFinal
  <2>2. reservation'[i] = ReconciledReservation(v, i)
    BY <1>1
  <2>3. CASE ~ Considered(v, i) \/ HasPosition(v, i) \/ IsActive(o)
    <3>1. reservation'[i] = reservation[i] \/ reservation'[i] = "open"
      BY <2>2, <2>3 DEF ReconciledReservation
    <3>2. QED
      BY <3>1 DEF PendingFilled
  <2>4. CASE /\ Considered(v, i) /\ ~ (HasPosition(v, i) \/ IsActive(o))
             /\ o.status = "canceled"
    BY <2>1, <2>2, <2>4, NotLive DEF ReconciledReservation
  <2>5. CASE /\ Considered(v, i) /\ ~ (HasPosition(v, i) \/ IsActive(o))
             /\ o.status = "filled"
    <3>1. reservation[i] = "closing_pending" => ~ Live(i)
      BY <1>1, <2>1, <2>5, NotLive DEF AbsenceCertain, HasPosition
    <3>2. QED
      BY <2>1, <2>2, <2>5, <3>1 DEF ReconciledReservation
  <2>6. CASE /\ Considered(v, i) /\ ~ (HasPosition(v, i) \/ IsActive(o))
             /\ o.status \notin {"canceled", "filled"}
    BY <2>2, <2>6 DEF ReconciledReservation, Considered, PendingFilled
  <2>7. QED
    BY <2>3, <2>4, <2>5, <2>6
<1>4. WholeFills' /\ SeenFinal'
  BY <1>1 DEF WholeFills, SeenFinal, NoView, Absent
<1>5. PendingFilled'
  BY <1>1, <1>3 DEF PendingFilled
<1>6. AbsenceCertain'
  BY <1>1 DEF AbsenceCertain
<1>7. KeepsLive
  BY <1>2, <1>3 DEF KeepsLive
<1>8. QED
  BY <1>1, <1>4, <1>5, <1>6, <1>7

\* The only order that becomes live is the current one.
LEMMA SubmitTurns ==
    ASSUME InTurns, InTurns', Inv, TurnsInv, Submit
    PROVE  /\ TurnsInv' /\ reservation' = reservation /\ current' = current
           /\ \A j \in Intents \ {current} : Live(j)' <=> Live(j)
           /\ pc'["automation"] \in {"accepted", "failed"}
           /\ pc'["automation"] = "failed" /\ ~ ResponsesLost => order' = order
<1> USE ProcessAssumption DEF Inv, TurnsInv, InTurns
<1>1. /\ current \in Intents /\ reservation[current] = "reserved"
      /\ order[current].status = "absent" /\ order[current] \in Orders
      /\ UNCHANGED <<held, reservation, view, current>>
      /\ pc["automation"] = "submit"
      /\ \A q \in Processes \ {"automation"} : pc'[q] = pc[q]
  BY DEF Submit, Goto, CurrentKnown, ReadyToSubmit, Automation, TypeOK, database
<1>2. /\ \A j \in Intents \ {current} : order'[j] = order[j]
      /\ order'[current].status \in {"absent", "working"}
      /\ order'[current].legs = order[current].legs
      /\ pc'["automation"] \in {"accepted", "failed"}
      /\ pc'["automation"] = "failed" /\ ~ ResponsesLost => order' = order
  <2>1. /\ [order[current] EXCEPT !.status = "working"].status = "working"
        /\ [order[current] EXCEPT !.status = "working"].legs = order[current].legs
    BY <1>1 DEF Orders
  <2>2. CASE order' = order
    BY <1>1, <2>2 DEF Submit, Goto, TypeOK
  <2>3. CASE /\ order' = [order EXCEPT ![current] = [order[current] EXCEPT !.status = "working"]]
             /\ Goto("accepted") \/ (ResponsesLost /\ Goto("failed"))
    BY <1>1, <2>1, <2>3 DEF TypeOK, Goto
  <2>4. QED
    BY <2>2, <2>3 DEF Submit
<1>3. \A j \in Intents \ {current} : Live(j)' <=> Live(j)
  BY <1>1, <1>2 DEF Live
<1>4. WholeFills' /\ SeenFinal' /\ PendingFilled' /\ AbsenceCertain'
  BY <1>1, <1>2 DEF WholeFills, SeenFinal, PendingFilled, AbsenceCertain
<1>5. QED
  BY <1>1, <1>2, <1>3, <1>4

\* The other steps of the automation move no reservation of an order that has
\* arrived out of the active states, unless they are the failure path.
LEMMA TradeTurns ==
    ASSUME InTurns, InTurns', Inv, TurnsInv,
           \/ \E i \in Intents : RecordSignal(i)
           \/ Block \/ Reserve \/ DryRun \/ MarkSubmitted \/ ReleaseAfterFailure
           \/ RecordTradeResult \/ EndCycle
           \/ \E p \in Processes : Crash(p)
    PROVE  TurnsInv' /\ (KeepsLive \/ ReleaseAfterFailure) /\ UNCHANGED <<order, held>>
<1> USE ProcessAssumption DEF Inv, TurnsInv, InTurns
<1> USE DEF ActiveStates, Ledger!ActiveStates
<1>1. /\ UNCHANGED <<order, held>>
      /\ \A q \in Processes : pc'[q] \in {"positions", "orders"} =>
            pc'[q] = pc[q] /\ view'[q] = view[q] /\ UNCHANGED reservation
      /\ \A q \in Processes, i \in Intents :
            view'[q].orders[i].status \in {view[q].orders[i].status, "absent"}
  <2>1. \A i \in Intents : NoView.orders[i].status = "absent"
    BY DEF NoView, Absent
  <2>2. UNCHANGED <<order, held>>
    BY DEF RecordSignal, Block, Reserve, DryRun, MarkSubmitted, ReleaseAfterFailure,
           RecordTradeResult, EndCycle, Crash, broker
  <2>3. \A q \in Processes : view'[q] = view[q] \/ view'[q] = NoView
    BY DEF RecordSignal, Block, Reserve, DryRun, MarkSubmitted, ReleaseAfterFailure,
           RecordTradeResult, EndCycle, Crash, TypeOK
  <2>4. ASSUME NEW q \in Processes, pc'[q] \in {"positions", "orders"}
        PROVE  pc'[q] = pc[q] /\ view'[q] = view[q] /\ UNCHANGED reservation
    <3>1. CASE \E p \in Processes : Crash(p)
      BY <2>4, <3>1 DEF Crash, TypeOK, database
    <3>2. CASE ~ \E p \in Processes : Crash(p)
      <4>1. pc["automation"] # "idle" /\ pc'["automation"] \notin {"positions", "orders"}
            /\ \A p \in Processes \ {"automation"} : pc'[p] = pc[p]
        BY <3>2 DEF RecordSignal, Block, Reserve, DryRun, MarkSubmitted, ReleaseAfterFailure,
                    RecordTradeResult, EndCycle, Goto, Automation, TypeOK
      <4>2. QED
        BY <2>4, <4>1 DEF OneCycleAtATime
    <3>3. QED
      BY <3>1, <3>2
  <2>5. QED
    BY <2>1, <2>2, <2>3, <2>4
<1>2. ASSUME NEW i \in Intents
      PROVE  \/ reservation'[i] = reservation[i]
             \/ reservation'[i] \in {"reserved", "submitted"}
             \/ reservation'[i] = "released" /\ order[i].status = "absent"
             \/ reservation'[i] = "released" /\ ReleaseAfterFailure
  <2>1. CASE Reserve \/ DryRun \/ MarkSubmitted \/ ReleaseAfterFailure
    <3>1. current \in Intents
      BY <2>1 DEF Reserve, DryRun, MarkSubmitted, ReleaseAfterFailure, CurrentKnown, Automation
    <3>2. QED
      BY <2>1, <3>1 DEF Reserve, DryRun, MarkSubmitted, ReleaseAfterFailure, ReadyToSubmit,
                        Automation, TypeOK
  <2>2. QED
    BY <2>1 DEF RecordSignal, Block, RecordTradeResult, EndCycle, Crash, database
<1>3. \A i \in Intents : Live(i)' => Live(i) /\ order[i].status # "absent"
  BY <1>1, NotLive DEF Live
<1>4. KeepsLive \/ ReleaseAfterFailure
  BY <1>2, <1>3 DEF KeepsLive
<1>5. WholeFills' /\ SeenFinal' /\ PendingFilled' /\ AbsenceCertain'
  BY <1>1, <1>2 DEF WholeFills, SeenFinal, PendingFilled, AbsenceCertain
<1>6. QED
  BY <1>1, <1>4, <1>5

\* What any step keeps, what it may make live, and what it may release.
LEMMA TurnsStep ==
    ASSUME InTurns, InTurns', Inv, TurnsInv, [Next]_vars
    PROVE  /\ TurnsInv'
           /\ \A i \in Intents : Live(i)' => Live(i) \/ (Submit /\ i = current)
           /\ \A i \in Intents :
                 Live(i)' /\ reservation[i] \in ActiveStates /\ reservation'[i] \notin ActiveStates
                    => ReleaseAfterFailure /\ i = current
<1>1. CASE UNCHANGED vars
  BY <1>1 DEF vars, TurnsInv, WholeFills, SeenFinal, PendingFilled, AbsenceCertain, Live
<1>2. CASE \E i \in Intents : PartialFill(i) \/ Fill(i) \/ Cancel(i) \/ ClosePosition(i)
  BY <1>2, BrokerTurns, BrokerStep DEF database
<1>3. CASE \E p \in Processes : Reconcile(p)
  <2>1. PICK p \in Processes : Reconcile(p)
    BY <1>3
  <2>2. CASE FetchPositions(p) \/ FetchOrders(p)
    BY <2>2, FetchTurns DEF Live
  <2>3. CASE RecordOrderReconciliation(p)
    BY <2>3, ReconcileTurns DEF Live, KeepsLive
  <2>4. QED
    BY <2>1, <2>2, <2>3 DEF Reconcile
<1>4. CASE Submit
  BY <1>4, SubmitTurns
<1>5. CASE ReleaseAfterFailure
  <2>1. \A i \in Intents \ {current} : reservation'[i] = reservation[i]
    BY <1>5 DEF ReleaseAfterFailure, Inv, TypeOK
  <2>2. QED
    BY <1>5, <2>1, TradeTurns DEF Live
<1>6. CASE \/ \E i \in Intents : RecordSignal(i)
           \/ Block \/ Reserve \/ DryRun \/ MarkSubmitted
           \/ RecordTradeResult \/ EndCycle
           \/ \E p \in Processes : Crash(p)
  <2>1. TurnsInv' /\ UNCHANGED <<order, held>> /\ (KeepsLive \/ ReleaseAfterFailure)
    BY <1>6, TradeTurns
  <2>2. QED
    BY <1>5, <2>1 DEF Live, KeepsLive
<1>7. QED
  BY <1>1, <1>2, <1>3, <1>4, <1>5, <1>6 DEF Next, Trade

\* The invariant holds of every behaviour in which cycles take turns.
LEMMA TurnsHolds ==
    ASSUME ~ PartialFills
    PROVE  Spec /\ []OneCycleAtATime => []TurnsInv
<1>1. Inv /\ TurnsInv /\ OneCycleAtATime /\ OneCycleAtATime' /\ [Next]_vars => TurnsInv'
  BY TurnsStep DEF InTurns
<1>2. QED
  BY <1>1, InitTurns, InvHolds, PTL DEF Spec

\* The reservation of an order or position that lives leaves the active states only
\* when process releases the intent in hand after a failure.
ReleasedByFailureOnly ==
    [][ \A i \in Intents :
          Live(i)' /\ reservation[i] \in ActiveStates /\ reservation'[i] \notin ActiveStates
            => ReleaseAfterFailure /\ i = current ]_vars

\* However many answers of submit_order are lost and however often the processes die,
\* no reconciliation, dry run or later cycle gives up the reservation of a live order
\* (audit.py record_order_reconciliation): where the cycles of the automation and the
\* heartbeat do not overlap and fills are whole, the except branch of
\* TradingEngine.process is the only way by which its risk is lost from the books.
THEOREM OnlyFailureReleases ==
    ASSUME ~ PartialFills
    PROVE  Spec /\ []OneCycleAtATime => ReleasedByFailureOnly
<1>1. Inv /\ TurnsInv /\ OneCycleAtATime /\ OneCycleAtATime' /\ [Next]_vars =>
        [\A i \in Intents :
            Live(i)' /\ reservation[i] \in ActiveStates /\ reservation'[i] \notin ActiveStates
              => ReleaseAfterFailure /\ i = current]_vars
  BY TurnsStep DEF InTurns
<1>2. QED
  BY <1>1, TurnsHolds, InvHolds, PTL DEF Spec, ReleasedByFailureOnly

-----------------------------------------------------------------------------
(***************************************************************************)
(* Cycles that take turns, whole fills and no lost answer.  Then a live    *)
(* order always has an active reservation, and a symbol never two live     *)
(* orders; each of the three conditions is needed (the README names the    *)
(* runs).  The failure path then meets only orders that never arrived, and *)
(* between the block check and the submission no other order of the symbol *)
(* can become live.                                                        *)
(***************************************************************************)
\* What the automation knows of the order it is submitting.
SubmissionKnown ==
    /\ Automation = "submit" =>
         \A j \in Intents \ {current} : SymbolOf[j] = SymbolOf[current] => ~ Live(j)
    /\ Automation = "accepted" => reservation[current] = "reserved"
    /\ Automation = "failed" => order[current].status = "absent"

\* What is added to Inv and TurnsInv when no answer is lost.
SoloInv ==
    /\ SubmissionKnown
    /\ LiveOrdersReserved
    /\ OneLiveOrderPerSymbol

\* No order exists.
LEMMA InitSolo == Init => SoloInv
BY ProcessAssumption
   DEF Init, SoloInv, SubmissionKnown, LiveOrdersReserved, OneLiveOrderPerSymbol, Automation,
       Absent, NoView, Live, IsActive, Working

\* The reservation is what blocks a second order of a symbol, and a live order has one:
\* so a symbol whose block check passed has no live order.
LEMMA ReserveSolo ==
    ASSUME InTurns, InTurns', ~ ResponsesLost, Inv, TurnsInv, SoloInv, Reserve
    PROVE  SubmissionKnown'
<1> USE ProcessAssumption DEF Inv, SoloInv, InTurns
<1>1. /\ current \in Intents /\ UNCHANGED <<order, held, current>>
      /\ pc'["automation"] \in {"submit", "rejected"}
  BY DEF Reserve, CurrentKnown, Automation, Goto, TypeOK, broker
<1>2. \A j \in Intents : SymbolOf[j] = SymbolOf[current] => ~ Live(j)
  BY DEF Reserve, Blocked, ManagedSymbols, LiveOrdersReserved
<1>3. QED
  BY <1>1, <1>2 DEF SubmissionKnown, Automation, Live

\* Between its submission and what follows, the automation keeps what it knows.
LEMMA SubmissionStep ==
    ASSUME InTurns, InTurns', ~ ResponsesLost, Inv, TurnsInv, SoloInv, [Next]_vars
    PROVE  SubmissionKnown'
<1> USE ProcessAssumption DEF Inv, SoloInv, InTurns
<1>1. CASE UNCHANGED vars
  BY <1>1 DEF vars, SubmissionKnown, Automation, Live
<1>2. CASE \E i \in Intents : PartialFill(i) \/ Fill(i) \/ Cancel(i) \/ ClosePosition(i)
  <2>1. /\ UNCHANGED <<database, pc, view, current>>
        /\ \A i \in Intents : order[i].status = "absent" => order'[i].status = "absent"
        /\ \A i \in Intents : Live(i)' => Live(i)
    BY <1>2, BrokerStep, BrokerTurns
  <2>2. QED
    BY <2>1 DEF SubmissionKnown, CurrentKnown, Automation, database
<1>3. CASE \E p \in Processes : Reconcile(p)
  <2>1. pc'["automation"] \in {"idle", "positions", "orders", "ready"}
    BY <1>3, FetchTurns, ReconcileTurns DEF Reconcile
  <2>2. QED
    BY <2>1 DEF SubmissionKnown, Automation
<1>4. CASE Reserve
  BY <1>4, ReserveSolo
<1>5. CASE Submit
  <2>1. current \in Intents /\ reservation[current] = "reserved"
        /\ order[current].status = "absent"
    BY <1>5 DEF Submit, CurrentKnown, ReadyToSubmit, Automation
  <2>2. QED
    BY <1>5, <2>1, SubmitTurns DEF SubmissionKnown, Automation
<1>6. CASE MarkSubmitted
  BY <1>6 DEF MarkSubmitted, Goto, SubmissionKnown, Automation, TypeOK
<1>7. CASE \/ \E i \in Intents : RecordSignal(i)
           \/ Block \/ DryRun \/ ReleaseAfterFailure \/ RecordTradeResult \/ EndCycle
           \/ \E p \in Processes : Crash(p)
  <2>1. pc'["automation"] \in {"signal", "ready", "dry_run", "idle"}
    BY <1>7 DEF RecordSignal, Block, DryRun, ReleaseAfterFailure, RecordTradeResult, EndCycle,
                Crash, Goto, OneCycleAtATime, TypeOK
  <2>2. QED
    BY <2>1 DEF SubmissionKnown, Automation
<1>8. QED
  BY <1>1, <1>2, <1>3, <1>4, <1>5, <1>6, <1>7 DEF Next, Trade

\* The stronger invariant holds of every such behaviour.
LEMMA SoloHolds ==
    ASSUME ~ PartialFills, ~ ResponsesLost
    PROVE  Spec /\ []OneCycleAtATime => []SoloInv
<1>1. ASSUME Inv, TurnsInv, OneCycleAtATime, OneCycleAtATime', SoloInv, [Next]_vars
      PROVE  SoloInv'
  <2> USE <1>1 DEF InTurns
  <2>1. /\ \A i \in Intents : Live(i)' => Live(i) \/ (Submit /\ i = current)
        /\ \A i \in Intents :
              Live(i)' /\ reservation[i] \in ActiveStates /\ reservation'[i] \notin ActiveStates
                 => ReleaseAfterFailure /\ i = current
    BY TurnsStep
  <2>2. ASSUME NEW i \in Intents, ReleaseAfterFailure, i = current PROVE ~ Live(i)'
    <3>1. order[i].status = "absent"
      BY <2>2 DEF ReleaseAfterFailure, SoloInv, SubmissionKnown, Automation
    <3>2. ~ Live(i) /\ UNCHANGED <<order, held>>
      BY <2>2, <3>1, NotLive DEF TurnsInv, ReleaseAfterFailure, broker
    <3>3. QED
      BY <3>2 DEF Live
  <2>3. Submit => /\ current \in Intents /\ reservation'[current] \in ActiveStates
                  /\ \A j \in Intents \ {current} : SymbolOf[j] = SymbolOf[current] => ~ Live(j)
    BY DEF Submit, Inv, CurrentKnown, ReadyToSubmit, SoloInv, SubmissionKnown, Automation,
           database, ActiveStates, Ledger!ActiveStates
  <2>4. LiveOrdersReserved'
    BY <2>1, <2>2, <2>3 DEF SoloInv, LiveOrdersReserved, ActiveStates, Ledger!ActiveStates
  <2>5. OneLiveOrderPerSymbol'
    BY <2>1, <2>3 DEF SoloInv, OneLiveOrderPerSymbol
  <2>6. QED
    BY <2>4, <2>5, SubmissionStep DEF SoloInv
<1>2. QED
  BY <1>1, TurnsHolds, InitSolo, InvHolds, PTL DEF Spec

\* "Reservations remain active while an order or position is open"
\* (src/docs/ARCHITECTURE.md) for cycles that do not overlap, with orders that fill
\* whole or not at all and answers that arrive, however often the processes crash and
\* whatever is canceled, filled or closed between two fetches
\* (audit.py record_order_reconciliation).
THEOREM LiveStaysReserved ==
    ASSUME ~ PartialFills, ~ ResponsesLost
    PROVE  Spec /\ []OneCycleAtATime => []LiveOrdersReserved
<1>1. SoloInv => LiveOrdersReserved
  BY DEF SoloInv
<1>2. QED
  BY <1>1, SoloHolds, PTL

\* Under the same conditions the account never has two live orders or positions in
\* one symbol (automation.py _signal_block_reason).
THEOREM SymbolTradedOnce ==
    ASSUME ~ PartialFills, ~ ResponsesLost
    PROVE  Spec /\ []OneCycleAtATime => []OneLiveOrderPerSymbol
<1>1. SoloInv => OneLiveOrderPerSymbol
  BY DEF SoloInv
<1>2. QED
  BY <1>1, SoloHolds, PTL

\* The automation on its own needs no turns: as long as no heartbeat runs beside it,
\* both promises hold of all its behaviours.
THEOREM AutomationAlone ==
    ASSUME Processes = {"automation"}, ~ PartialFills, ~ ResponsesLost
    PROVE  Spec => [](LiveOrdersReserved /\ OneLiveOrderPerSymbol)
<1>1. OneCycleAtATime
  BY DEF OneCycleAtATime
<1>2. QED
  BY <1>1, LiveStaysReserved, SymbolTradedOnce, PTL

-----------------------------------------------------------------------------
(***************************************************************************)
(* SignalGate.  Of the orders sent, submitted_orders_since misses the one  *)
(* in hand and those a crash or a lost answer has hidden.                  *)
(***************************************************************************)
OrderStatuses == {"absent", "open", "held", "over"}
\* What a cycle has fetched, and the allocation it is at.
CycleRows == [at : Bars, held : SUBSET Signals, open : SUBSET Signals,
              next : 1..(Len(Allocations) + 1)]

\* The cycle has chosen a signal.
Choosing == gatePc \in {"allocate", "submit", "accepted", "marked"}

\* The types of the gate, and how its state goes with the place of its cycle.
GateTypes ==
    /\ gateNow \in Bars
    /\ gateOrder \in [Signals -> OrderStatuses]
    /\ gateReserved \in [Signals -> ReservationRows]
    /\ gateTraded \subseteq Signals
    /\ gatePc \in {"idle", "loop", "allocate", "submit", "accepted", "marked"}
    /\ gateCycle \in CycleRows /\ gateCycle.at <= gateNow
    /\ Choosing => gateCurrent = InHand /\ gateCurrent \in Signals
    /\ gateFailures \in Nat

\* The order that was sent and whose row is still to be written.
InFlight == {s \in {gateCurrent} : gatePc \in {"accepted", "marked"}}

\* Orders sent whose row will never be written.
Hidden == (Sent \ gateTraded) \ InFlight

\* The orders with a row of a day.
TradedOn(day) == {s \in gateTraded : DayOfBar(s.bar) = day}

\* Each failure has hidden one order at most.
HiddenByFailures ==
    /\ IsFiniteSet(Sent) /\ IsFiniteSet(gateTraded)
    /\ Cardinality(Hidden) <= gateFailures

\* The rows of a day are within its limit, and one below it while an order is on its way.
RowsWithinLimit ==
    /\ \A day \in {DayOfBar(b) : b \in Bars} : Cardinality(TradedOn(day)) <= MaxDailyOrders
    /\ Choosing => Cardinality(TradedOn(DayOfBar(gateCycle.at))) < MaxDailyOrders

\* A signal in hand comes a cooldown after every order of its symbol that is known, and
\* its interval after every one of its allocation.
Follows(s, t, minimum) == gateReserved[t].marked => gateReserved[t].at + minimum <= s.bar

\* The signal in hand keeps its distance from every reservation known to be marked.
SpacedInHand ==
    /\ gatePc \in {"allocate", "submit", "accepted"} =>
          \A t \in Signals :
              /\ Symbol(t) = Symbol(gateCurrent) => Follows(gateCurrent, t, Cooldown)
              /\ t.alloc = gateCurrent.alloc =>
                    Follows(gateCurrent, t, Allocations[gateCurrent.alloc].interval)
    /\ gatePc \in {"submit", "accepted"} => gateReserved[gateCurrent].at >= gateCycle.at

\* The inductive invariants of SignalGate: the daily limit, and the spacing.
LimitInv == GateTypes /\ HiddenByFailures /\ RowsWithinLimit

SpacingInv == GateTypes /\ SpacedInHand /\ EntriesSpaced

\* Signals index the allocations.
LEMMA SignalTypes ==
    ASSUME GateTypes, NEW s \in Signals
    PROVE  /\ s.alloc \in DOMAIN Allocations /\ s.bar \in Bars /\ s.bar \in Nat
           /\ Allocations[s.alloc].interval \in Nat
<1> DEFINE AllocationRows == [strategy : STRING, symbol : STRING, underlying : STRING, interval : Nat]
<1>1. s.alloc \in DOMAIN Allocations /\ s.bar \in Bars
  BY DEF Signals
<1>2. Allocations \in Seq(AllocationRows)
  BY GateAssumption
<1> HIDE DEF AllocationRows
<1>3. Allocations[s.alloc] \in AllocationRows
  BY <1>1, <1>2
<1>4. QED
  BY <1>1, <1>3, GateAssumption DEF Bars, AllocationRows

\* A cycle that goes on to its next allocation, or ends, has none in hand.
LEMMA OnwardTypes ==
    ASSUME GateTypes, NextAllocation \/ AbortCycle,
           NextAllocation => gateCycle.next <= Len(Allocations)
    PROVE  /\ gateCycle' \in CycleRows /\ gateCycle'.at <= gateNow
           /\ gatePc' \in {"idle", "loop"} /\ ~ Choosing'
<1> USE GateAssumption
<1>1. CASE NextAllocation
  <2>1. gateCycle \in CycleRows /\ gateCycle.next + 1 \in 1..(Len(Allocations) + 1)
    BY <1>1 DEF GateTypes, CycleRows
  <2>2. gateCycle' = [gateCycle EXCEPT !.next = gateCycle.next + 1]
    BY <1>1, <2>1 DEF NextAllocation, CycleRows
  <2>3. gateCycle' \in CycleRows /\ gateCycle'.at = gateCycle.at
    BY <2>1, <2>2 DEF CycleRows
  <2>4. QED
    BY <1>1, <2>3 DEF NextAllocation, GateGoto, Choosing, GateTypes
<1>2. CASE AbortCycle
  <2>1. gateCycle' = NoCycle
    BY <1>2 DEF AbortCycle
  <2>2. 0 \in Bars /\ 1 \in 1..(Len(Allocations) + 1)
    BY DEF Bars
  <2>3. NoCycle \in CycleRows /\ NoCycle.at = 0
    BY <2>2 DEF CycleRows, NoCycle
  <2>4. gateNow \in Nat
    BY DEF GateTypes, Bars
  <2>5. QED
    BY <1>2, <2>1, <2>3, <2>4 DEF AbortCycle, GateGoto, Choosing
<1>3. QED
  BY <1>1, <1>2

\* The gate starts with nothing reserved, sent or in hand.
LEMMA GateInitTypes == GateInit => GateTypes
<1> SUFFICES ASSUME GateInit PROVE GateTypes
  OBVIOUS
<1> USE GateAssumption DEF GateInit
<1>1. 0 \in Bars /\ 1 \in 1..(Len(Allocations) + 1)
  BY DEF Bars
<1>2. NoCycle \in CycleRows /\ NoCycle.at = 0
  BY <1>1 DEF CycleRows, NoCycle
<1>3. NotReserved \in ReservationRows
  BY <1>1 DEF NotReserved, ReservationRows
<1>4. QED
  BY <1>1, <1>2, <1>3 DEF GateTypes, OrderStatuses, Choosing

\* Types are kept by every step.
LEMMA GateNextTypes == GateTypes /\ [GateNext]_gateVars => GateTypes'
<1> SUFFICES ASSUME GateTypes, [GateNext]_gateVars PROVE GateTypes'
  OBVIOUS
<1> USE GateAssumption
<1>1. CASE NextBar
  <2>1. gateNow' \in Bars /\ gateNow <= gateNow' /\ gateCycle.at \in Nat /\ gateNow \in Nat
    BY <1>1 DEF NextBar, GateTypes, Bars, CycleRows
  <2>2. QED
    BY <1>1, <2>1 DEF NextBar, GateTypes, Choosing, InHand, gateBroker, gateDatabase
<1>2. ASSUME NEW s \in Signals, FillEntry(s) \/ FinishEntry(s) PROVE GateTypes'
  BY <1>2 DEF FillEntry, FinishEntry, GateTypes, OrderStatuses, Choosing, InHand, gateDatabase
<1>3. ASSUME NEW s \in Signals, ReconcileOver(s) PROVE GateTypes'
  <2>1. [gateReserved[s] EXCEPT !.state = "released"] \in ReservationRows
    BY DEF GateTypes, ReservationRows
  <2>2. QED
    BY <1>3, <2>1 DEF ReconcileOver, GateTypes, Choosing, InHand, gateBroker
<1>4. CASE StartCycle
  <2>1. gateCycle' \in CycleRows /\ gateCycle'.at = gateNow /\ gateNow \in Nat
    BY <1>4 DEF StartCycle, CycleRows, GateTypes, Bars
  <2>2. QED
    BY <1>4, <2>1 DEF StartCycle, GateTypes, Choosing, GateGoto, gateBroker, gateDatabase
<1>5. CASE SkipAllocation
  BY <1>5, OnwardTypes DEF SkipAllocation, GateTypes, gateBroker, gateDatabase
<1>6. CASE NewSignal
  <2>1. CASE GateBlocks(InHand)
    <3>1. NextAllocation
      BY <1>6, <2>1 DEF NewSignal
    <3>2. QED
      BY <1>6, <3>1, OnwardTypes DEF NewSignal, GateTypes, gateBroker
  <2>2. CASE ~ GateBlocks(InHand)
    <3>1. gatePc' = "allocate" /\ gateCurrent' = InHand /\ gateCycle' = gateCycle
      BY <1>6, <2>2 DEF NewSignal, GateGoto
    <3>2. InHand \in Signals
      BY <1>6 DEF NewSignal, InHand, Signals, GateTypes, CycleRows
    <3>3. QED
      BY <1>6, <3>1, <3>2 DEF NewSignal, GateTypes, InHand, gateBroker
  <2>3. QED
    BY <2>1, <2>2
<1>7. ASSUME Choosing PROVE gateCycle.next <= Len(Allocations)
  BY <1>7 DEF GateTypes, InHand, Signals
<1>8. CASE Decline
  BY <1>7, <1>8, OnwardTypes DEF Decline, Choosing, GateTypes, gateBroker, gateDatabase
<1>9. CASE Approve
  <2>1. [state |-> "active", marked |-> FALSE, at |-> gateNow] \in ReservationRows
    BY DEF ReservationRows, GateTypes
  <2>2. QED
    BY <1>9, <2>1 DEF Approve, GateTypes, Choosing, GateGoto, InHand, gateBroker
<1>10. CASE SubmitEntry
  BY <1>10 DEF SubmitEntry, GateTypes, Choosing, GateGoto, InHand, OrderStatuses, gateDatabase
<1>11. CASE SubmitRaises
  <2>1. gateCurrent \in Signals
    BY <1>11 DEF SubmitRaises, GateTypes, Choosing
  <2>2. [gateReserved[gateCurrent] EXCEPT !.state = "released"] \in ReservationRows
    BY <2>1 DEF GateTypes, ReservationRows
  <2>3. gateReserved' \in [Signals -> ReservationRows]
    BY <1>11, <2>1, <2>2 DEF SubmitRaises, GateTypes
  <2>4. gateOrder' \in [Signals -> OrderStatuses] /\ gateFailures' \in Nat
    BY <1>11 DEF SubmitRaises, GateTypes, OrderStatuses
  <2>5. ~ NextAllocation
    BY <1>11 DEF SubmitRaises, AbortCycle, NextAllocation, GateGoto
  <2>6. QED
    BY <1>11, <2>3, <2>4, <2>5, OnwardTypes DEF SubmitRaises, GateTypes
<1>12. CASE MarkEntry
  <2>1. [gateReserved[gateCurrent] EXCEPT !.marked = TRUE] \in ReservationRows
    BY <1>12 DEF MarkEntry, GateTypes, ReservationRows, Choosing
  <2>2. QED
    BY <1>12, <2>1 DEF MarkEntry, GateTypes, Choosing, GateGoto, InHand, gateBroker
<1>13. CASE RecordEntry
  BY <1>7, <1>13, OnwardTypes DEF RecordEntry, Choosing, GateTypes, gateBroker
<1>14. CASE CompleteCycle
  <2>1. ~ NextAllocation
    BY <1>14 DEF CompleteCycle, AbortCycle, NextAllocation, GateGoto
  <2>2. QED
    BY <1>14, <2>1, OnwardTypes DEF CompleteCycle, GateTypes, gateBroker, gateDatabase
<1>15. CASE GateCrash
  <2>1. ~ NextAllocation
    BY <1>15 DEF GateCrash, AbortCycle, NextAllocation, GateGoto
  <2>2. QED
    BY <1>15, <2>1, OnwardTypes DEF GateCrash, GateTypes, gateBroker, gateDatabase
<1>16. CASE UNCHANGED gateVars
  BY <1>16 DEF gateVars, gateBroker, gateDatabase, GateTypes, Choosing, InHand
<1>17. QED
  BY <1>1, <1>2, <1>3, <1>4, <1>5, <1>6, <1>8, <1>9, <1>10, <1>11, <1>12, <1>13, <1>14,
     <1>15, <1>16 DEF GateNext, GateCycleStep

\* The signals recorded and the one in hand, and the failures so far.
RecordedTypes ==
    /\ gateSignals \subseteq Signals
    /\ gateCurrent \in gateSignals \cup {NoSignal}
    /\ gateFailures \in 0..MaxFailures

\* A signal in hand stays recorded: only a new one makes the gate forget those of earlier bars.
LEMMA RecordedStep ==
    ASSUME GateTypes, RecordedTypes, [GateNext]_gateVars
    PROVE  RecordedTypes'
<1>1. ASSUME gateSignals' = gateSignals, gateCurrent' \in {gateCurrent, NoSignal},
             gateFailures' \in 0..MaxFailures
      PROVE  RecordedTypes'
  BY <1>1 DEF RecordedTypes
<1>2. gateFailures \in 0..MaxFailures
  BY DEF RecordedTypes
<1>3. gateFailures < MaxFailures => gateFailures + 1 \in 0..MaxFailures
  BY <1>2, GateAssumption
<1>4. CASE UNCHANGED gateVars \/ NextBar
           \/ \E s \in Signals : FillEntry(s) \/ FinishEntry(s) \/ ReconcileOver(s)
  BY <1>1, <1>2, <1>4 DEF gateVars, gateDatabase, NextBar, FillEntry, FinishEntry, ReconcileOver
<1>5. CASE StartCycle \/ Approve \/ SubmitEntry \/ MarkEntry
  BY <1>1, <1>2, <1>5 DEF StartCycle, Approve, SubmitEntry, MarkEntry, gateDatabase
<1>6. CASE SkipAllocation \/ Decline \/ RecordEntry \/ CompleteCycle
  BY <1>1, <1>2, <1>6 DEF SkipAllocation, Decline, RecordEntry, CompleteCycle, NextAllocation,
                          AbortCycle, gateDatabase
<1>7. CASE NewSignal
  <2>1. InHand \in Signals
    BY <1>7, GateAssumption DEF NewSignal, InHand, Signals, GateTypes, CycleRows
  <2>2. gateSignals' \subseteq Signals /\ InHand \in gateSignals'
    BY <1>7, <2>1 DEF NewSignal, RecordedTypes
  <2>3. gateCurrent' \in {InHand, NoSignal} /\ gateFailures' = gateFailures
    BY <1>7 DEF NewSignal, NextAllocation
  <2>4. QED
    BY <1>2, <2>2, <2>3 DEF RecordedTypes
<1>8. CASE SubmitRaises
  BY <1>1, <1>2, <1>3, <1>8 DEF SubmitRaises, AbortCycle
<1>9. CASE GateCrash
  BY <1>1, <1>3, <1>9 DEF GateCrash, AbortCycle, gateDatabase
<1>10. QED
  BY <1>4, <1>5, <1>6, <1>7, <1>8, <1>9 DEF GateNext, GateCycleStep

\* The gate is type correct, for any allocations, limits, bars and failures: the signal in
\* hand is one the cycle has recorded (automation.py run_cycle).
THEOREM GateTypeCorrect == GateSpec => []GateTypeOK
<1>1. GateInit => RecordedTypes
  BY GateAssumption DEF GateInit, RecordedTypes
<1>2. GateTypes /\ RecordedTypes => GateTypeOK
  <2>1. SUFFICES ASSUME GateTypes, RecordedTypes PROVE GateTypeOK
    OBVIOUS
  <2>2. /\ gateCycle.at \in Bars /\ gateCycle.at <= gateNow /\ gateNow \in Bars
        /\ gateCycle.next \in 1..(Len(Allocations) + 1)
        /\ gateCycle.held \subseteq Signals /\ gateCycle.open \subseteq Signals
    BY <2>1 DEF GateTypes, CycleRows
  <2>3. gateCycle.at \in 0..gateNow
    BY <2>2, GateAssumption DEF Bars
  <2>4. QED
    BY <2>1, <2>2, <2>3 DEF GateTypes, RecordedTypes, GateTypeOK, OrderStatuses
<1>3. QED
  BY <1>1, <1>2, RecordedStep, GateInitTypes, GateNextTypes, PTL DEF GateSpec

\* The sets the limit counts are finite.
LEMMA HiddenFinite ==
    ASSUME HiddenByFailures
    PROVE  /\ IsFiniteSet(Hidden) /\ Cardinality(Hidden) \in Nat
           /\ \A day \in Int : IsFiniteSet(TradedOn(day)) /\ Cardinality(TradedOn(day)) \in Nat
<1>1. IsFiniteSet(Hidden)
  <2>1. Hidden \in SUBSET Sent
    BY DEF Hidden
  <2>2. QED
    BY <2>1, FS_Subset DEF HiddenByFailures
<1>2. \A day \in Int : IsFiniteSet(TradedOn(day))
  <2> SUFFICES ASSUME NEW day \in Int PROVE IsFiniteSet(TradedOn(day))
    OBVIOUS
  <2>1. TradedOn(day) \in SUBSET gateTraded
    BY DEF TradedOn
  <2>2. QED
    BY <2>1, FS_Subset DEF HiddenByFailures
<1>3. QED
  BY <1>1, <1>2, FS_CardinalityType

\* A failure hides one order at most.
LEMMA HiddenGrows ==
    ASSUME GateTypes, HiddenByFailures, NEW more, gateFailures' \in Nat,
           IsFiniteSet(Sent'), IsFiniteSet(gateTraded'),
           \/ Hidden' \subseteq Hidden /\ gateFailures' >= gateFailures
           \/ Hidden' \subseteq Hidden \cup {more} /\ gateFailures' = gateFailures + 1
    PROVE  HiddenByFailures'
<1>1. IsFiniteSet(Hidden) /\ Cardinality(Hidden) \in Nat /\ Cardinality(Hidden) <= gateFailures
      /\ gateFailures \in Nat
  BY HiddenFinite DEF HiddenByFailures, GateTypes
<1>2. IsFiniteSet(Hidden \cup {more}) /\ Cardinality(Hidden \cup {more}) \in Nat
      /\ Cardinality(Hidden \cup {more}) <= Cardinality(Hidden) + 1
  BY <1>1, OneMore
<1>3. Cardinality(Hidden') <= gateFailures'
  <2>1. CASE Hidden' \subseteq Hidden /\ gateFailures' >= gateFailures
    <3>1. Hidden' \in SUBSET Hidden
      BY <2>1
    <3>2. Cardinality(Hidden') <= Cardinality(Hidden) /\ Cardinality(Hidden') \in Nat
      BY <1>1, <3>1, FS_Subset, FS_CardinalityType
    <3>3. QED
      BY <1>1, <2>1, <3>2
  <2>2. CASE Hidden' \subseteq Hidden \cup {more} /\ gateFailures' = gateFailures + 1
    <3>1. Hidden' \in SUBSET (Hidden \cup {more})
      BY <2>2
    <3>2. Cardinality(Hidden') <= Cardinality(Hidden \cup {more}) /\ Cardinality(Hidden') \in Nat
      BY <1>2, <3>1, FS_Subset, FS_CardinalityType
    <3>3. QED
      BY <1>1, <1>2, <2>2, <3>2
  <2>3. QED
    BY <2>1, <2>2
<1>4. QED
  BY <1>3 DEF HiddenByFailures

\* Steps that neither send an order nor write its row.
LEMMA HiddenStays ==
    ASSUME GateTypes, HiddenByFailures, Sent' = Sent, InFlight' = InFlight,
           UNCHANGED <<gateTraded, gateFailures>>
    PROVE  HiddenByFailures'
BY DEF HiddenByFailures, Hidden

\* Each crash and each lost answer hides an order at most; nothing else does.
LEMMA HiddenInv ==
    ASSUME GateTypes, GateTypes', HiddenByFailures, [GateNext]_gateVars
    PROVE  HiddenByFailures'
<1>1. IsFiniteSet(Sent) /\ IsFiniteSet(gateTraded)
      /\ IsFiniteSet(Sent \cup {gateCurrent}) /\ IsFiniteSet(gateTraded \cup {gateCurrent})
  BY FS_AddElement DEF HiddenByFailures
<1>2. CASE gateOrder' = gateOrder /\ gateTraded' = gateTraded /\ gateFailures' = gateFailures
           /\ gatePc' = gatePc /\ gateCurrent' = gateCurrent
  BY <1>2, HiddenStays DEF Sent, InFlight
<1>3. ASSUME NEW s \in Signals, FillEntry(s) \/ FinishEntry(s) PROVE HiddenByFailures'
  <2>1. Sent' = Sent
    BY <1>3 DEF FillEntry, FinishEntry, Sent, GateTypes
  <2>2. InFlight' = InFlight /\ gateTraded' = gateTraded /\ gateFailures' = gateFailures
    BY <1>3 DEF FillEntry, FinishEntry, InFlight, gateDatabase
  <2>3. QED
    BY <2>1, <2>2, HiddenStays
<1>4. CASE StartCycle \/ SkipAllocation \/ NewSignal \/ Decline \/ Approve \/ MarkEntry
           \/ CompleteCycle
  <2>1. Sent' = Sent /\ gateTraded' = gateTraded /\ gateFailures' = gateFailures
    BY <1>4 DEF StartCycle, SkipAllocation, NewSignal, Decline, Approve, MarkEntry,
                CompleteCycle, gateBroker, gateDatabase, Sent
  <2>2. InFlight' = InFlight
    BY <1>4 DEF StartCycle, SkipAllocation, NewSignal, Decline, Approve, MarkEntry,
                CompleteCycle, InFlight, GateGoto, NextAllocation, AbortCycle
  <2>3. QED
    BY <2>1, <2>2, HiddenStays
<1>5. ASSUME gateCurrent \in Signals, gateOrder' = [gateOrder EXCEPT ![gateCurrent] = "open"]
      PROVE  Sent' = Sent \cup {gateCurrent}
  BY <1>5 DEF Sent, GateTypes
<1>6. CASE SubmitEntry
  <2>1. Sent' = Sent \cup {gateCurrent}
    BY <1>5, <1>6 DEF SubmitEntry, GateTypes, Choosing
  <2>2. InFlight' = {gateCurrent} /\ gateTraded' = gateTraded /\ gateFailures' = gateFailures
    BY <1>6 DEF SubmitEntry, InFlight, GateGoto, gateDatabase
  <2>3. InFlight = {}
    BY <1>6 DEF SubmitEntry, InFlight
  <2>4. Hidden' \subseteq Hidden
    BY <2>1, <2>2, <2>3 DEF Hidden
  <2>5. gateFailures' >= gateFailures /\ gateFailures' \in Nat
    BY <2>2 DEF GateTypes
  <2>6. QED
    BY <1>1, <2>1, <2>2, <2>4, <2>5, HiddenGrows
<1>7. CASE SubmitRaises
  <2>1. InFlight = {} /\ InFlight' = {} /\ gateTraded' = gateTraded
    BY <1>7 DEF SubmitRaises, InFlight, AbortCycle, GateGoto
  <2>2. CASE UNCHANGED <<gateOrder, gateFailures>>
    BY <2>1, <2>2, HiddenStays DEF Sent
  <2>3. CASE ~ UNCHANGED <<gateOrder, gateFailures>>
    <3>1. Sent' = Sent \cup {gateCurrent} /\ gateFailures' = gateFailures + 1
      BY <1>5, <1>7, <2>3 DEF SubmitRaises, GateTypes, Choosing
    <3>2. Hidden' \subseteq Hidden \cup {gateCurrent}
      BY <2>1, <3>1 DEF Hidden
    <3>3. gateFailures' \in Nat
      BY DEF GateTypes
    <3>4. QED
      BY <1>1, <2>1, <3>1, <3>2, <3>3, HiddenGrows
  <2>4. QED
    BY <2>2, <2>3
<1>8. CASE RecordEntry
  <2>1. Sent' = Sent /\ gateTraded' = gateTraded \cup {gateCurrent}
        /\ gateFailures' = gateFailures
    BY <1>8 DEF RecordEntry, Sent, gateBroker
  <2>2. InFlight = {gateCurrent} /\ InFlight' = {}
    BY <1>8 DEF RecordEntry, InFlight, NextAllocation, GateGoto
  <2>3. Hidden' \subseteq Hidden
    BY <2>1, <2>2 DEF Hidden
  <2>4. gateFailures' >= gateFailures /\ gateFailures' \in Nat
    BY <2>1 DEF GateTypes
  <2>5. QED
    BY <1>1, <2>1, <2>3, <2>4, HiddenGrows
<1>9. CASE GateCrash
  <2>1. Sent' = Sent /\ gateTraded' = gateTraded /\ gateFailures' = gateFailures + 1
    BY <1>9 DEF GateCrash, Sent, gateBroker, gateDatabase
  <2>2. Hidden' \subseteq Hidden \cup {gateCurrent}
    BY <2>1 DEF Hidden, InFlight
  <2>3. gateFailures' \in Nat
    BY DEF GateTypes
  <2>4. QED
    BY <1>1, <2>1, <2>2, <2>3, HiddenGrows
<1>10. QED
  BY <1>2, <1>3, <1>4, <1>6, <1>7, <1>8, <1>9
     DEF GateNext, GateCycleStep, NextBar, ReconcileOver, gateVars, gateBroker, gateDatabase

\* The gate lets no signal pass once the rows of its day are at the limit, and the row
\* of one that passed is written before the next is looked at.
LEMMA RowsInv ==
    ASSUME GateTypes, GateTypes', HiddenByFailures, RowsWithinLimit, [GateNext]_gateVars
    PROVE  RowsWithinLimit'
<1> USE GateAssumption
<1>1. \A b \in Bars : DayOfBar(b) \in Nat
  BY QuotientMonotone DEF DayOfBar, Bars
<1>2. gateCycle.at \in Bars /\ gateCycle'.at \in Bars
  BY DEF GateTypes, CycleRows
<1>3. CASE gateTraded' = gateTraded /\ (Choosing' => Choosing /\ gateCycle' = gateCycle)
  <2>1. \A day : TradedOn(day)' = TradedOn(day)
    BY <1>3 DEF TradedOn
  <2>2. QED
    BY <1>3, <2>1 DEF RowsWithinLimit
<1>4. CASE NewSignal
  <2>1. \A day : TradedOn(day)' = TradedOn(day)
    BY <1>4 DEF NewSignal, TradedOn
  <2>2. CASE GateBlocks(InHand)
    <3>1. ~ Choosing'
      BY <1>4, <2>2 DEF NewSignal, NextAllocation, GateGoto, Choosing
    <3>2. QED
      BY <2>1, <3>1 DEF RowsWithinLimit
  <2>3. CASE ~ GateBlocks(InHand)
    <3> DEFINE day == DayOfBar(gateCycle.at)
               since == {s \in gateTraded : DayOfBar(s.bar) >= day}
    <3>1. gateCycle' = gateCycle /\ gateTraded' = gateTraded
      BY <1>4, <2>3 DEF NewSignal
    <3>2. ~ (Cardinality(since) >= MaxDailyOrders)
      BY <2>3 DEF GateBlocks, SubmittedSince
    <3>3. since \in SUBSET gateTraded /\ TradedOn(day) \in SUBSET since
      BY <1>1, <1>2 DEF TradedOn
    <3>4. IsFiniteSet(since) /\ Cardinality(since) \in Nat
      BY <3>3, FS_Subset, FS_CardinalityType DEF HiddenByFailures
    <3>5. Cardinality(TradedOn(day)) <= Cardinality(since) /\ Cardinality(TradedOn(day)) \in Nat
      BY <3>3, <3>4, FS_Subset, FS_CardinalityType
    <3> HIDE DEF since
    <3>6. Cardinality(TradedOn(day)) < MaxDailyOrders
      BY <3>2, <3>4, <3>5
    <3>7. QED
      BY <2>1, <3>1, <3>6 DEF RowsWithinLimit
  <2>4. QED
    BY <2>2, <2>3
<1>5. CASE RecordEntry
  <2> PICK day : day = DayOfBar(gateCycle.at)
    OBVIOUS
  <2>1. gateTraded' = gateTraded \cup {gateCurrent} /\ ~ Choosing'
    BY <1>5 DEF RecordEntry, NextAllocation, GateGoto, Choosing
  <2>2. gateCurrent.bar = gateCycle.at /\ Choosing
    BY <1>5 DEF RecordEntry, GateTypes, Choosing, InHand
  <2>3. \A d : d # day => TradedOn(d)' = TradedOn(d)
    BY <2>1, <2>2 DEF TradedOn
  <2>4. TradedOn(day)' = TradedOn(day) \cup {gateCurrent}
    BY <2>1, <2>2 DEF TradedOn
  <2>5. day \in Int
    BY <1>1, <1>2
  <2>6. Cardinality(TradedOn(day)) < MaxDailyOrders /\ Cardinality(TradedOn(day)) \in Nat
        /\ IsFiniteSet(TradedOn(day))
    BY <2>2, <2>5, HiddenFinite DEF RowsWithinLimit
  <2>7. Cardinality(TradedOn(day) \cup {gateCurrent}) <= Cardinality(TradedOn(day)) + 1
        /\ Cardinality(TradedOn(day) \cup {gateCurrent}) \in Nat
    BY <2>6, OneMore
  <2>8. Cardinality(TradedOn(day) \cup {gateCurrent}) <= MaxDailyOrders
    BY <2>6, <2>7
  <2>9. QED
    BY <2>1, <2>3, <2>4, <2>8 DEF RowsWithinLimit
<1>6. CASE StartCycle \/ SkipAllocation \/ Decline \/ SubmitRaises \/ CompleteCycle \/ GateCrash
  <2>1. gateTraded' = gateTraded /\ ~ Choosing'
    BY <1>6 DEF StartCycle, SkipAllocation, Decline, SubmitRaises, CompleteCycle, GateCrash,
                Choosing, NextAllocation, AbortCycle, GateGoto, gateDatabase
  <2>2. QED
    BY <1>3, <2>1
<1>7. CASE Approve \/ SubmitEntry \/ MarkEntry
  <2>1. gateTraded' = gateTraded /\ gateCycle' = gateCycle /\ Choosing
    BY <1>7 DEF Approve, SubmitEntry, MarkEntry, Choosing, gateDatabase
  <2>2. QED
    BY <1>3, <2>1
<1>8. CASE NextBar \/ (\E s \in Signals : FillEntry(s) \/ FinishEntry(s) \/ ReconcileOver(s))
           \/ UNCHANGED gateVars
  <2>1. gateTraded' = gateTraded /\ gateCycle' = gateCycle /\ gatePc' = gatePc
    BY <1>8 DEF NextBar, FillEntry, FinishEntry, ReconcileOver, gateVars, gateDatabase
  <2>2. QED
    BY <1>3, <2>1 DEF Choosing
<1>9. QED
  BY <1>4, <1>5, <1>6, <1>7, <1>8 DEF GateNext, GateCycleStep

\* The orders of a day are those with a row, the one in hand and the hidden ones.
LEMMA LimitCovers == LimitInv => DailyLimitKept
<1> SUFFICES ASSUME LimitInv, NEW b \in Bars
             PROVE  Cardinality({s \in Sent : DayOfBar(s.bar) = DayOfBar(b)})
                      <= MaxDailyOrders + gateFailures
  BY DEF DailyLimitKept
<1> USE GateAssumption DEF LimitInv
<1> DEFINE day == DayOfBar(b)
           sent == {s \in Sent : DayOfBar(s.bar) = day}
           flying == {s \in InFlight : DayOfBar(s.bar) = day}
           known == TradedOn(day) \cup flying
<1>1. day \in Int
  BY QuotientMonotone DEF DayOfBar, Bars
<1>2. IsFiniteSet(Hidden) /\ Cardinality(Hidden) \in Nat /\ Cardinality(Hidden) <= gateFailures
      /\ IsFiniteSet(TradedOn(day)) /\ Cardinality(TradedOn(day)) \in Nat
      /\ Cardinality(TradedOn(day)) <= MaxDailyOrders /\ gateFailures \in Nat
  BY <1>1, HiddenFinite DEF HiddenByFailures, RowsWithinLimit, GateTypes
<1>3. IsFiniteSet(known) /\ Cardinality(known) \in Nat /\ Cardinality(known) <= MaxDailyOrders
  <2>1. CASE flying = {}
    <3>1. known = TradedOn(day)
      BY <2>1
    <3>2. QED
      BY <1>2, <3>1
  <2>2. CASE flying # {}
    <3>1. flying = {gateCurrent} /\ Choosing /\ DayOfBar(gateCurrent.bar) = day
      BY <2>2 DEF InFlight, Choosing
    <3>2. gateCurrent.bar = gateCycle.at
      BY <3>1 DEF GateTypes, InHand
    <3>3. Cardinality(TradedOn(day)) < MaxDailyOrders
      BY <3>1, <3>2 DEF RowsWithinLimit
    <3>4. known = TradedOn(day) \cup {gateCurrent}
      BY <3>1
    <3> HIDE DEF known
    <3>5. IsFiniteSet(known) /\ Cardinality(known) <= Cardinality(TradedOn(day)) + 1
          /\ Cardinality(known) \in Nat
      BY <1>2, <3>4, OneMore
    <3>6. QED
      BY <1>2, <3>3, <3>5
  <2>3. QED
    BY <2>1, <2>2
<1>4. sent \subseteq known \cup Hidden
  BY DEF Hidden, TradedOn
<1> HIDE DEF sent, known
<1>5. IsFiniteSet(known \cup Hidden)
      /\ Cardinality(known \cup Hidden) <= Cardinality(known) + Cardinality(Hidden)
      /\ Cardinality(known \cup Hidden) \in Nat
  BY <1>2, <1>3, UnionBound
<1>6. Cardinality(sent) <= Cardinality(known \cup Hidden) /\ Cardinality(sent) \in Nat
  BY <1>4, <1>5, FS_Subset, FS_CardinalityType
<1>7. Cardinality(sent) <= MaxDailyOrders + gateFailures
  BY <1>2, <1>3, <1>5, <1>6
<1>8. QED
  BY <1>7 DEF sent

\* An account sends no more orders a day than its plan allows and failures hid, for any
\* allocations, limits and cooldowns (automation.py _signal_block_reason, audit.py
\* submitted_orders_since).
THEOREM DailyLimitHolds == GateSpec => []DailyLimitKept
<1>1. GateInit => LimitInv
  <2> SUFFICES ASSUME GateInit PROVE LimitInv
    OBVIOUS
  <2>1. Sent = {} /\ gateTraded = {} /\ gateFailures = 0
    BY DEF GateInit, Sent
  <2>2. Hidden = {} /\ \A day : TradedOn(day) = {}
    BY <2>1 DEF Hidden, TradedOn
  <2>3. IsFiniteSet({}) /\ Cardinality({}) = 0
    BY FS_EmptySet
  <2>4. ~ Choosing
    BY DEF GateInit, Choosing
  <2>5. HiddenByFailures
    BY <2>1, <2>2, <2>3 DEF HiddenByFailures
  <2>6. RowsWithinLimit
    <3>1. \A day : Cardinality(TradedOn(day)) = 0
      BY <2>2, <2>3
    <3>2. QED
      BY <2>4, <3>1, GateAssumption DEF RowsWithinLimit
  <2>7. QED
    BY <2>5, <2>6, GateInitTypes DEF LimitInv
<1>2. LimitInv /\ [GateNext]_gateVars => LimitInv'
  BY GateNextTypes, HiddenInv, RowsInv DEF LimitInv
<1>3. QED
  BY <1>1, <1>2, LimitCovers, PTL DEF GateSpec

\* Every allocation trades the symbol its signals name.
Unproxied == \A i \in DOMAIN Allocations : Allocations[i].underlying = Allocations[i].symbol

\* A signal that is not too soon after some times comes the minimum after each.
LEMMA NotTooSoon ==
    ASSUME GateTypes, NEW minimum \in Nat, NEW times \in SUBSET Bars, NEW t \in times,
           ~ TooSoon(times, minimum)
    PROVE  t + minimum <= gateCycle.at
<1>1. MaxBars \in Nat /\ times \in SUBSET (0..MaxBars) /\ times # {}
  BY GateAssumption DEF Bars
<1>2. Max(times) \in times /\ t <= Max(times)
  BY <1>1, GreatestNatural
<1>3. gateCycle.at \in Nat /\ t \in Nat /\ Max(times) \in Nat
  <2>1. gateCycle.at \in Nat
    BY <1>1 DEF GateTypes, CycleRows, Bars
  <2>2. \A x \in times : x \in Nat
    BY <1>1
  <2>3. QED
    BY <1>2, <2>1, <2>2
<1>4. ~ (gateCycle.at - Max(times) < minimum)
  BY <1>1 DEF TooSoon
<1>5. QED
  BY <1>2, <1>3, <1>4

\* The signals of an unproxied symbol are found by it.
LEMMA TimesCover ==
    ASSUME GateTypes, NEW symbol, NEW strategies, NEW t \in Signals, gateReserved[t].marked,
           Underlying(t) = symbol, Strategy(t) \in strategies
    PROVE  /\ gateReserved[t].at \in SubmittedTimes(symbol, strategies)
           /\ SubmittedTimes(symbol, strategies) \in SUBSET Bars
<1>1. \A s \in Signals : s.bar \in Bars /\ gateReserved[s].at \in Bars
  BY DEF Signals, GateTypes, ReservationRows
<1>2. gateTraded \subseteq Signals
  BY DEF GateTypes
<1>3. QED
  BY <1>1, <1>2 DEF SubmittedTimes

\* What the gate lets pass follows every order it knows of its symbol and allocation.
LEMMA GateSpaces ==
    ASSUME GateTypes, Unproxied, InHand \in Signals, ~ GateBlocks(InHand),
           NEW t \in Signals, gateReserved[t].marked
    PROVE  /\ Symbol(t) = Symbol(InHand) => gateReserved[t].at + Cooldown <= gateCycle.at
           /\ t.alloc = InHand.alloc /\ Allocations[t.alloc].interval > 0 =>
                gateReserved[t].at + Allocations[InHand.alloc].interval <= gateCycle.at
<1> USE GateAssumption
<1>1. Underlying(t) = Symbol(t) /\ Strategy(t) \in AllStrategies /\ Strategy(t) \in {Strategy(t)}
  BY SignalTypes DEF Unproxied, Underlying, Symbol, Strategy, AllStrategies
<1>2. ASSUME Symbol(t) = Symbol(InHand) PROVE gateReserved[t].at + Cooldown <= gateCycle.at
  <2> DEFINE times == SubmittedTimes(Symbol(InHand), AllStrategies)
  <2>1. gateReserved[t].at \in times /\ times \in SUBSET Bars
    BY <1>1, <1>2, TimesCover
  <2>2. ~ TooSoon(times, Cooldown)
    BY DEF GateBlocks
  <2> HIDE DEF times
  <2>3. QED
    BY <2>1, <2>2, NotTooSoon
<1>3. ASSUME t.alloc = InHand.alloc, Allocations[t.alloc].interval > 0
      PROVE  gateReserved[t].at + Allocations[InHand.alloc].interval <= gateCycle.at
  <2> DEFINE minimum == Allocations[InHand.alloc].interval
             times == SubmittedTimes(Symbol(InHand), {Strategy(InHand)})
  <2>1. Symbol(t) = Symbol(InHand) /\ Strategy(t) = Strategy(InHand) /\ minimum \in Nat
    BY <1>3, SignalTypes DEF Symbol, Strategy
  <2>2. gateReserved[t].at \in times /\ times \in SUBSET Bars
    BY <1>1, <2>1, TimesCover
  <2>3. ~ TooSoon(times, minimum)
    BY <1>3 DEF GateBlocks
  <2> HIDE DEF times
  <2>4. QED
    BY <2>1, <2>2, <2>3, NotTooSoon
<1>4. QED
  BY <1>2, <1>3

\* A reservation is dated by a bar.
LEMMA MarkedTypes ==
    ASSUME GateTypes, NEW t \in Signals
    PROVE  gateReserved[t].at \in Nat
BY GateAssumption DEF GateTypes, ReservationRows, Bars

\* Reservations that are neither marked nor dated anew.
SameTimes ==
    \A t \in Signals : gateReserved'[t].marked = gateReserved[t].marked
                         /\ gateReserved'[t].at = gateReserved[t].at

\* They stay apart,
LEMMA SpacedStays == EntriesSpaced /\ SameTimes => EntriesSpaced'
BY DEF SameTimes, EntriesSpaced, CooldownKept, IntervalKept, MarkedSignals, Apart

\* and a signal still in hand follows them.
LEMMA InHandStays ==
    ASSUME GateTypes, SpacedInHand, SameTimes, UNCHANGED <<gateCurrent, gateCycle>>,
           \/ gatePc' = gatePc
           \/ gatePc = "submit" /\ gatePc' = "accepted"
    PROVE  SpacedInHand'
<1> USE GateAssumption
<1>1. CASE gatePc' \notin {"allocate", "submit", "accepted"}
  BY <1>1 DEF SpacedInHand
<1>2. CASE gatePc' \in {"allocate", "submit", "accepted"}
  <2>1. gateCurrent \in Signals /\ gatePc \in {"allocate", "submit", "accepted"}
    BY <1>2 DEF GateTypes, Choosing
  <2>2. \A t \in Signals, minimum \in Nat :
          Follows(gateCurrent, t, minimum) => Follows(gateCurrent, t, minimum)'
    BY DEF Follows, SameTimes
  <2>3. gatePc' \in {"submit", "accepted"} => gateReserved'[gateCurrent].at >= gateCycle.at
    BY <2>1 DEF SpacedInHand, SameTimes
  <2>4. ASSUME NEW t \in Signals
        PROVE  /\ Symbol(t) = Symbol(gateCurrent) => Follows(gateCurrent, t, Cooldown)'
               /\ t.alloc = gateCurrent.alloc =>
                     Follows(gateCurrent, t, Allocations[gateCurrent.alloc].interval)'
    BY <2>1, <2>2, SignalTypes DEF SpacedInHand
  <2>5. QED
    BY <2>3, <2>4 DEF SpacedInHand, Symbol
<1>3. QED
  BY <1>1, <1>2

\* Orders are marked a cooldown and an interval after the marked ones.
LEMMA SpacingNext ==
    ASSUME Unproxied, GateTypes, GateTypes', SpacedInHand, EntriesSpaced, [GateNext]_gateVars
    PROVE  SpacedInHand' /\ EntriesSpaced'
<1> USE GateAssumption
<1>1. ASSUME NEW s \in Signals, ReconcileOver(s) PROVE SpacedInHand' /\ EntriesSpaced'
  <2>1. SameTimes
    BY <1>1 DEF ReconcileOver, GateTypes, ReservationRows, SameTimes
  <2>2. UNCHANGED <<gatePc, gateCurrent, gateCycle>>
    BY <1>1 DEF ReconcileOver
  <2>3. QED
    BY <2>1, <2>2, SpacedStays, InHandStays
<1>2. CASE StartCycle \/ SkipAllocation \/ Decline \/ RecordEntry \/ CompleteCycle \/ GateCrash
  <2>1. SameTimes
    BY <1>2 DEF StartCycle, SkipAllocation, Decline, RecordEntry, CompleteCycle, GateCrash,
                gateDatabase, SameTimes
  <2>2. gatePc' \in {"idle", "loop"}
    BY <1>2 DEF StartCycle, SkipAllocation, Decline, RecordEntry, CompleteCycle, GateCrash,
                NextAllocation, AbortCycle, GateGoto
  <2>3. SpacedInHand'
    BY <2>2 DEF SpacedInHand
  <2>4. QED
    BY <2>1, <2>3, SpacedStays
<1>3. CASE SubmitRaises
  <2>1. gateCurrent \in Signals
    BY <1>3 DEF SubmitRaises, GateTypes, Choosing
  <2>2. SameTimes
    BY <1>3, <2>1 DEF SubmitRaises, GateTypes, ReservationRows, SameTimes
  <2>3. gatePc' = "idle"
    BY <1>3 DEF SubmitRaises, AbortCycle, GateGoto
  <2>4. SpacedInHand'
    BY <2>3 DEF SpacedInHand
  <2>5. QED
    BY <2>2, <2>4, SpacedStays
<1>4. CASE SubmitEntry
  <2>1. SameTimes /\ UNCHANGED <<gateCurrent, gateCycle>>
    BY <1>4 DEF SubmitEntry, gateDatabase, SameTimes
  <2>2. gatePc = "submit" /\ gatePc' = "accepted"
    BY <1>4 DEF SubmitEntry, GateGoto
  <2>3. QED
    BY <2>1, <2>2, SpacedStays, InHandStays
<1>5. CASE NextBar \/ (\E s \in Signals : FillEntry(s) \/ FinishEntry(s)) \/ UNCHANGED gateVars
  <2>1. SameTimes /\ UNCHANGED <<gatePc, gateCurrent, gateCycle>>
    BY <1>5 DEF NextBar, FillEntry, FinishEntry, gateVars, gateDatabase, SameTimes
  <2>2. QED
    BY <2>1, SpacedStays, InHandStays
<1>6. CASE NewSignal
  <2>1. gateReserved' = gateReserved
    BY <1>6 DEF NewSignal
  <2>2. CASE GateBlocks(InHand)
    <3>1. gatePc' = "loop"
      BY <1>6, <2>2 DEF NewSignal, NextAllocation, GateGoto
    <3>2. SpacedInHand'
      BY <3>1 DEF SpacedInHand
    <3>3. QED
      BY <2>1, <3>2, SpacedStays DEF SameTimes
  <2>3. CASE ~ GateBlocks(InHand)
    <3>1. gatePc' = "allocate" /\ gateCurrent' = InHand /\ gateCycle' = gateCycle
      BY <1>6, <2>3 DEF NewSignal, GateGoto
    <3>2. InHand \in Signals /\ InHand.bar = gateCycle.at
      BY <3>1 DEF GateTypes, Choosing, InHand
    <3>3. EntriesSpaced'
      BY <2>1 DEF EntriesSpaced, CooldownKept, IntervalKept, MarkedSignals, Apart
    <3>4. ASSUME NEW t \in Signals, gateReserved[t].marked
          PROVE  /\ Symbol(t) = Symbol(InHand) => gateReserved[t].at + Cooldown <= InHand.bar
                 /\ t.alloc = InHand.alloc =>
                      gateReserved[t].at + Allocations[InHand.alloc].interval <= InHand.bar
      <4>1. /\ Symbol(t) = Symbol(InHand) => gateReserved[t].at + Cooldown <= InHand.bar
            /\ t.alloc = InHand.alloc /\ Allocations[t.alloc].interval > 0 =>
                 gateReserved[t].at + Allocations[InHand.alloc].interval <= InHand.bar
        BY <2>3, <3>2, <3>4, GateSpaces
      <4>2. t.alloc = InHand.alloc /\ ~ (Allocations[t.alloc].interval > 0) =>
              gateReserved[t].at + Allocations[InHand.alloc].interval <= InHand.bar
        <5>1. ASSUME t.alloc = InHand.alloc PROVE Symbol(t) = Symbol(InHand)
          BY <5>1 DEF Symbol
        <5>2. gateReserved[t].at \in Nat /\ InHand.bar \in Nat /\ Cooldown \in Nat
              /\ Allocations[t.alloc].interval \in Nat
          BY <3>2, SignalTypes, MarkedTypes
        <5>3. ASSUME t.alloc = InHand.alloc, ~ (Allocations[t.alloc].interval > 0)
              PROVE  Allocations[InHand.alloc].interval = 0
          BY <5>2, <5>3
        <5>4. ASSUME t.alloc = InHand.alloc
              PROVE  gateReserved[t].at <= InHand.bar
          BY <4>1, <5>1, <5>2, <5>4
        <5>5. QED
          BY <5>2, <5>3, <5>4
      <4>3. QED
        BY <4>1, <4>2
    <3>5. SpacedInHand'
      BY <2>1, <3>1, <3>4 DEF SpacedInHand, Follows, Symbol
    <3>6. QED
      BY <3>3, <3>5
  <2>4. QED
    BY <2>2, <2>3
<1>7. CASE Approve
  <2>1. gateCurrent \in Signals /\ gateCurrent = InHand /\ gateCurrent.bar = gateCycle.at
    BY <1>7 DEF Approve, GateTypes, Choosing, InHand
  <2>2. /\ ~ gateReserved'[gateCurrent].marked /\ gateReserved'[gateCurrent].at = gateNow
        /\ \A t \in Signals \ {gateCurrent} : gateReserved'[t] = gateReserved[t]
    BY <1>7, <2>1 DEF Approve, GateTypes
  <2>3. gateCurrent' = gateCurrent /\ gateCycle' = gateCycle /\ gateCycle.at <= gateNow
        /\ gatePc = "allocate"
    BY <1>7 DEF Approve, GateTypes
  <2>4. EntriesSpaced'
    BY <2>2 DEF EntriesSpaced, CooldownKept, IntervalKept, MarkedSignals, Apart
  <2>5. ASSUME NEW t \in Signals, gateReserved'[t].marked
        PROVE  gateReserved'[t] = gateReserved[t]
    BY <2>2, <2>5
  <2>6. gateCycle.at \in Nat /\ gateNow \in Nat
    BY DEF GateTypes, CycleRows, Bars
  <2>7. SpacedInHand'
    BY <2>2, <2>3, <2>5, <2>6 DEF SpacedInHand, Follows
  <2>8. QED
    BY <2>4, <2>7
<1>8. CASE MarkEntry
  <2> PICK cur : cur = gateCurrent
    OBVIOUS
  <2>1. cur \in Signals /\ cur.bar = gateCycle.at /\ gatePc = "accepted"
    BY <1>8 DEF MarkEntry, GateTypes, Choosing, InHand
  <2>2. /\ gateReserved'[cur].at = gateReserved[cur].at
        /\ \A t \in Signals \ {cur} : gateReserved'[t] = gateReserved[t]
    BY <1>8, <2>1 DEF MarkEntry, GateTypes, ReservationRows
  <2>3. gatePc' = "marked"
    BY <1>8 DEF MarkEntry, GateGoto
  <2>4. SpacedInHand'
    BY <2>3 DEF SpacedInHand
  <2>5. \A t \in Signals : gateReserved'[t].at = gateReserved[t].at /\ gateReserved[t].at \in Nat
    BY <2>2, MarkedTypes
  <2>6. ASSUME NEW t \in Signals \ {cur}, gateReserved'[t].marked
        PROVE  /\ Symbol(t) = Symbol(cur) => Apart(t, cur, Cooldown)'
               /\ t.alloc = cur.alloc =>
                    Apart(t, cur, Allocations[cur.alloc].interval)'
    <3>1. gateReserved[t].marked
      BY <2>2, <2>6
    <3>2. cur.bar <= gateReserved[cur].at
      BY <2>1 DEF SpacedInHand
    <3>3. cur.bar \in Nat /\ Cooldown \in Nat
          /\ Allocations[cur.alloc].interval \in Nat
      BY <2>1, SignalTypes
    <3>3a. /\ gateReserved'[t].at = gateReserved[t].at /\ gateReserved[t].at \in Nat
           /\ gateReserved'[cur].at = gateReserved[cur].at /\ gateReserved[cur].at \in Nat
      BY <2>1, <2>5
    <3>4. Symbol(t) = Symbol(cur) => Apart(t, cur, Cooldown)'
      <4>1. Symbol(t) = Symbol(cur) => gateReserved[t].at + Cooldown <= cur.bar
        BY <2>1, <3>1 DEF SpacedInHand, Follows
      <4>2. ASSUME Symbol(t) = Symbol(cur)
            PROVE  gateReserved[t].at + Cooldown <= gateReserved[cur].at
        BY <3>2, <3>3, <3>3a, <4>1, <4>2
      <4>3. QED
        BY <3>3a, <4>2 DEF Apart, Symbol
    <3>5. t.alloc = cur.alloc =>
            Apart(t, cur, Allocations[cur.alloc].interval)'
      <4> DEFINE interval == Allocations[cur.alloc].interval
      <4>1. t.alloc = cur.alloc => gateReserved[t].at + interval <= cur.bar
        BY <2>1, <3>1 DEF SpacedInHand, Follows
      <4>2. interval \in Nat
        BY <3>3
      <4>3. SUFFICES ASSUME t.alloc = cur.alloc
                     PROVE  gateReserved'[t].at + interval <= gateReserved'[cur].at
        BY DEF Apart
      <4> HIDE DEF interval
      <4>4. gateReserved[t].at + interval <= cur.bar
        BY <4>1, <4>3
      <4>5. QED
        BY <3>2, <3>3, <3>3a, <4>2, <4>4
    <3>6. QED
      BY <3>4, <3>5
  <2>7. CooldownKept'
    <3> SUFFICES ASSUME NEW s \in MarkedSignals', NEW t \in MarkedSignals', s # t,
                        Symbol(s) = Symbol(t)
                 PROVE  (Apart(s, t, Cooldown) \/ Apart(t, s, Cooldown))'
      BY DEF CooldownKept, Symbol
    <3>1. CASE s = cur \/ t = cur
      BY <2>6, <3>1 DEF MarkedSignals
    <3>2. CASE s # cur /\ t # cur
      BY <2>2, <3>2 DEF MarkedSignals, EntriesSpaced, CooldownKept, Apart
    <3>3. QED
      BY <3>1, <3>2
  <2>8. IntervalKept'
    <3> SUFFICES ASSUME NEW s \in MarkedSignals', NEW t \in MarkedSignals', s # t,
                        s.alloc = t.alloc
                 PROVE  (\/ Apart(s, t, Allocations[s.alloc].interval)
                         \/ Apart(t, s, Allocations[s.alloc].interval))'
      BY DEF IntervalKept
    <3>1. CASE s = cur \/ t = cur
      BY <2>6, <3>1 DEF MarkedSignals
    <3>2. CASE s # cur /\ t # cur
      BY <2>2, <3>2 DEF MarkedSignals, EntriesSpaced, IntervalKept, Apart
    <3>3. QED
      BY <3>1, <3>2
  <2>9. QED
    BY <2>4, <2>7, <2>8 DEF EntriesSpaced
<1>9. QED
  BY <1>1, <1>2, <1>3, <1>4, <1>5, <1>6, <1>7, <1>8 DEF GateNext, GateCycleStep

\* Two marked orders of a symbol are a cooldown apart, and of an allocation its interval,
\* though the process may die between any two steps, for any allocations none of which
\* trades another symbol than its signals name: one that does is never found by the
\* symbol the gate asks for (automation.py _signal_block_reason, audit.py
\* last_submitted_at).
THEOREM EntriesKeepApart == ASSUME Unproxied PROVE GateSpec => []EntriesSpaced
<1>1. GateInit => SpacingInv
  <2> SUFFICES ASSUME GateInit PROVE SpacingInv
    OBVIOUS
  <2>1. \A t \in Signals : ~ gateReserved[t].marked
    BY DEF GateInit, NotReserved
  <2>2. EntriesSpaced
    BY <2>1 DEF EntriesSpaced, CooldownKept, IntervalKept, MarkedSignals
  <2>3. SpacedInHand
    BY DEF GateInit, SpacedInHand
  <2>4. QED
    BY <2>2, <2>3, GateInitTypes DEF SpacingInv
<1>2. SpacingInv /\ [GateNext]_gateVars => SpacingInv'
  BY GateNextTypes, SpacingNext DEF SpacingInv
<1>3. SpacingInv => EntriesSpaced
  BY DEF SpacingInv
<1>4. QED
  BY <1>1, <1>2, <1>3, PTL DEF GateSpec
=============================================================================
