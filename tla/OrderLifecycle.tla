--------------------------- MODULE OrderLifecycle ---------------------------
(***************************************************************************)
(* The life of an entry order of one account, from the strategy signal to  *)
(* the release of its risk reservation, with the two processes that work   *)
(* on it and the broker between them:                                      *)
(*   - "automation", PaperAutomationService.run_cycle: reconcile, record   *)
(*     new signals, reserve, submit, mark submitted, record the trade;     *)
(*   - "heartbeat", cli._run: reconcile.                                   *)
(* They share one SQLite database and nothing else.  A method of           *)
(* SqliteAuditStore is one transaction and so one action; everything       *)
(* between two transactions or REST calls can interleave.  A process that  *)
(* dies or raises loses its local state and starts a new cycle.            *)
(***************************************************************************)
EXTENDS Naturals

CONSTANTS
    Intents,        \* signal ids, which are intent ids and client_order_ids
    Symbols,
    SymbolOf,       \* instrument each intent trades
    Bracketed,      \* intents whose order carries exit legs at the broker
    Processes,      \* {"automation"} or {"automation", "heartbeat"}
    MaxCrashes,     \* bound on how often a process dies between two steps
    ResponsesLost,  \* may the broker accept an order and the answer be lost?
    PartialFills    \* may an order fill in part?

ASSUME IntentAssumption ==
    SymbolOf \in [Intents -> Symbols] /\ Bracketed \subseteq Intents
ASSUME ProcessAssumption ==
    {"automation"} \subseteq Processes /\ Processes \subseteq {"automation", "heartbeat"}
ASSUME EnvironmentAssumption ==
    MaxCrashes \in Nat /\ ResponsesLost \in BOOLEAN /\ PartialFills \in BOOLEAN

VARIABLES
    order,        \* at the broker: each intent's order, "absent" before it arrives
    held,         \* at the broker: intents whose fill is still a position
    reservation,  \* risk_reservations.state, "none" if no row
    trade,        \* trade_records.state, "none" if no row
    signals,      \* ids of the strategy_signals rows
    pc,           \* where each process is in its cycle
    view,         \* what each process fetched from the broker in this cycle
    current,      \* the intent the automation is processing, or NoIntent
    crashes       \* how often a process has died (for the bound)

broker == <<order, held>>
database == <<reservation, trade, signals>>
vars == <<order, held, reservation, trade, signals, pc, view, current, crashes>>

Ledger == INSTANCE ReservationLedger WITH Intents <- Intents, reservation <- reservation
ActiveStates == Ledger!ActiveStates

NoIntent == "no intent"

Statuses == {"absent", "working", "partially_filled", "filled", "canceled"}
Orders == [status : Statuses, filled : BOOLEAN, legs : BOOLEAN]
Absent == [status |-> "absent", filled |-> FALSE, legs |-> FALSE]

Views == [positions : SUBSET Symbols, orders : [Intents -> Orders]]
NoView == [positions |-> {}, orders |-> [i \in Intents |-> Absent]]

TradeStates == {"none", "rejected", "dry_run", "submitted", "broker_active",
                "broker_filled", "position_open", "position_close_pending",
                "position_closed", "canceled"}

Steps == {"idle", "positions", "orders", "ready", "signal", "submit",
          "accepted", "failed", "rejected", "dry_run", "submitted"}

TypeOK ==
    /\ order \in [Intents -> Orders]
    /\ held \subseteq Intents
    /\ reservation \in [Intents -> Ledger!ReservationStates]
    /\ trade \in [Intents -> TradeStates]
    /\ signals \subseteq Intents
    /\ pc \in [Processes -> Steps]
    /\ view \in [Processes -> Views]
    /\ current \in Intents \cup {NoIntent}
    /\ crashes \in 0..MaxCrashes

Init ==
    /\ order = [i \in Intents |-> Absent]
    /\ held = {}
    /\ reservation = [i \in Intents |-> "none"]
    /\ trade = [i \in Intents |-> "none"]
    /\ signals = {}
    /\ pc = [p \in Processes |-> "idle"]
    /\ view = [p \in Processes |-> NoView]
    /\ current = NoIntent
    /\ crashes = 0

-----------------------------------------------------------------------------
(***************************************************************************)
(* The broker, from how AlpacaPaperBroker and the reconciliation read it.  *)
(* A parent order that is new, accepted, held or pending is "working"; one *)
(* that is canceled, expired, rejected, replaced or done for the day is    *)
(* "canceled".                                                             *)
(***************************************************************************)
Working(o) == o.status \in {"working", "partially_filled"}

\* The status is in active_states, or a child order still is.
IsActive(o) == Working(o) \/ o.legs

Live(i) == IsActive(order[i]) \/ i \in held

PartialFill(i) ==
    /\ PartialFills
    /\ order[i].status = "working"
    /\ order' = [order EXCEPT ![i].status = "partially_filled", ![i].filled = TRUE]
    /\ held' = held \cup {i}
    /\ UNCHANGED <<database, pc, view, current, crashes>>

Fill(i) ==
    /\ Working(order[i])
    /\ order' = [order EXCEPT ![i] =
                   [status |-> "filled", filled |-> TRUE, legs |-> i \in Bracketed]]
    /\ held' = held \cup {i}
    /\ UNCHANGED <<database, pc, view, current, crashes>>

Cancel(i) ==
    /\ Working(order[i])
    /\ order' = [order EXCEPT ![i].status = "canceled"]
    /\ UNCHANGED <<held, database, pc, view, current, crashes>>

\* An exit leg fills, or the position is closed by hand or at expiration.
ClosePosition(i) ==
    /\ i \in held
    /\ ~ Working(order[i])
    /\ held' = held \ {i}
    /\ order' = [order EXCEPT ![i].legs = FALSE]
    /\ UNCHANGED <<database, pc, view, current, crashes>>

-----------------------------------------------------------------------------
(***************************************************************************)
(* Reconciliation: positions and orders are two REST calls, the result is  *)
(* applied in one transaction.                                             *)
(***************************************************************************)
FetchPositions(p) ==
    /\ pc[p] = "idle"
    /\ view' = [view EXCEPT ![p].positions = {SymbolOf[i] : i \in held}]
    /\ pc' = [pc EXCEPT ![p] = "positions"]
    /\ UNCHANGED <<broker, database, current, crashes>>

\* Mutant of FetchOrders: the canceled status is stored under a name not known.
FetchOrdersUnknownStatus(p) ==
    /\ pc[p] = "positions"
    /\ view' = [view EXCEPT ![p].orders =
                  [i \in Intents |-> [order[i] EXCEPT !.status =
                      IF @ = "canceled" THEN "unknown" ELSE @]]]
    /\ pc' = [pc EXCEPT ![p] = "orders"]
    /\ UNCHANGED <<broker, database, current, crashes>>

FetchOrders(p) ==
    /\ pc[p] = "positions"
    /\ view' = [view EXCEPT ![p].orders = order]
    /\ pc' = [pc EXCEPT ![p] = "orders"]
    /\ UNCHANGED <<broker, database, current, crashes>>

HasPosition(v, i) == SymbolOf[i] \in v.positions

\* Mutant of Considered: a released row is looked at again.
ConsideredReleased(v, i) ==
    v.orders[i].status # "absent" /\ reservation[i] # "none"

\* The rows record_order_reconciliation looks at: the broker returned the order
\* and its reservation exists and is not released.
Considered(v, i) ==
    v.orders[i].status # "absent" /\ reservation[i] \in ActiveStates

\* Mutant of ReconciledReservation: the first absence of a position releases.
ReleasedAtFirstAbsence(v, i) ==
    LET o == v.orders[i]
    IN  IF ~ Considered(v, i) THEN reservation[i]
        ELSE IF HasPosition(v, i) \/ IsActive(o) THEN "open"
        ELSE CASE o.status = "canceled" -> "released"
               [] o.status = "filled" /\ reservation[i] \in {"open", "closing_pending"} -> "released"
               [] OTHER -> reservation[i]

\* Mutant of ReconciledReservation: a row without a broker order is released.
MissingReleases(v, i) ==
    LET o == v.orders[i]
    IN  IF reservation[i] \notin ActiveStates THEN reservation[i]
        ELSE IF HasPosition(v, i) \/ IsActive(o) THEN "open"
        ELSE IF o.status \in {"absent", "canceled"} THEN "released"
        ELSE reservation[i]

\* Mutant of ReconciledReservation: a second absence does not release.
NeverReleased(v, i) ==
    LET o == v.orders[i]
    IN  IF ~ Considered(v, i) THEN reservation[i]
        ELSE IF HasPosition(v, i) \/ IsActive(o) THEN "open"
        ELSE CASE o.status = "canceled" -> "released"
               [] o.status = "filled" /\ reservation[i] = "open" -> "closing_pending"
               [] OTHER -> reservation[i]

ReconciledReservation(v, i) ==
    LET o == v.orders[i]
        previous == reservation[i]
    IN  IF ~ Considered(v, i) THEN previous
        ELSE IF HasPosition(v, i) \/ IsActive(o) THEN "open"
        ELSE CASE o.status = "canceled" -> "released"
               [] o.status = "filled" /\ previous = "closing_pending" -> "released"
               [] o.status = "filled" /\ previous = "open" -> "closing_pending"
               [] OTHER -> previous

\* Mutant of ReconciledTrade: the first absence closes the trade.
ClosedAtFirstAbsence(v, i) ==
    LET o == v.orders[i]
    IN  IF ~ Considered(v, i) \/ trade[i] = "none" THEN trade[i]
        ELSE IF HasPosition(v, i) THEN "position_open"
        ELSE IF IsActive(o) THEN "broker_active"
        ELSE IF o.status = "canceled" THEN "canceled"
        ELSE "position_closed"

\* The trade row, if record_trade_result has inserted it.
ReconciledTrade(v, i) ==
    LET o == v.orders[i]
        previous == reservation[i]
    IN  IF ~ Considered(v, i) \/ trade[i] = "none" THEN trade[i]
        ELSE IF HasPosition(v, i) THEN "position_open"
        ELSE IF Working(o) THEN "broker_active"
        ELSE IF o.legs THEN "broker_filled"
        ELSE CASE o.status = "canceled" -> "canceled"
               [] o.status = "filled" /\ previous = "closing_pending" -> "position_closed"
               [] o.status = "filled" /\ previous = "open" -> "position_close_pending"
               [] OTHER -> "broker_filled"

RecordOrderReconciliation(p) ==
    LET v == view[p]
    IN  /\ pc[p] = "orders"
        /\ reservation' = [i \in Intents |-> ReconciledReservation(v, i)]
        /\ trade' = [i \in Intents |-> ReconciledTrade(v, i)]
        /\ IF p = "automation"
           THEN pc' = [pc EXCEPT ![p] = "ready"] /\ UNCHANGED view
           ELSE pc' = [pc EXCEPT ![p] = "idle"] /\ view' = [view EXCEPT ![p] = NoView]
        /\ UNCHANGED <<broker, signals, current, crashes>>

-----------------------------------------------------------------------------
(***************************************************************************)
(* The rest of the automation's cycle.  Between RecordSignal and Reserve   *)
(* only the heartbeat runs, which touches no row of the new intent, so the *)
(* block check and the reservation are one step.                           *)
(***************************************************************************)
Automation == pc["automation"]
Goto(step) == pc' = [pc EXCEPT !["automation"] = step]

\* record_signal inserts or ignores: a signal is taken up at most once.
RecordSignal(i) ==
    /\ Automation = "ready"
    /\ i \notin signals
    /\ signals' = signals \cup {i}
    /\ current' = i
    /\ Goto("signal")
    /\ UNCHANGED <<broker, reservation, trade, view, crashes>>

ManagedSymbols == { SymbolOf[i] : i \in {j \in Intents : reservation[j] \in ActiveStates} }

\* Mutant of Blocked: only the broker's view is asked whether the symbol is busy.
BlockedByViewOnly(i) ==
    LET v == view["automation"]
        open == { j \in Intents : IsActive(v.orders[j]) }
    IN  \/ v.positions \ ManagedSymbols # {}
        \/ \E j \in open : reservation[j] \notin ActiveStates
        \/ SymbolOf[i] \in v.positions
        \/ SymbolOf[i] \in { SymbolOf[j] : j \in open }

\* The parts of _signal_block_reason that keep orders of one account apart; they
\* compare the broker view of this cycle with the reservations of this moment.
Blocked(i) ==
    LET v == view["automation"]
        open == { j \in Intents : IsActive(v.orders[j]) }
    IN  \/ v.positions \ ManagedSymbols # {}
        \/ \E j \in open : reservation[j] \notin ActiveStates
        \/ SymbolOf[i] \in v.positions \cup ManagedSymbols
        \/ SymbolOf[i] \in { SymbolOf[j] : j \in open }

\* A signal may also be blocked for a reason not modelled: the market, the age
\* of the bars, the number of positions and orders, a cooldown, the allocation.
Block ==
    /\ Automation = "signal"
    /\ Goto("ready")
    /\ current' = NoIntent
    /\ UNCHANGED <<broker, database, view, crashes>>

\* TradingEngine.process, first half: evaluate_and_reserve approves or not.
Reserve ==
    /\ Automation = "signal"
    /\ ~ Blocked(current)
    /\ \/ /\ reservation[current] = "none"
          /\ reservation' = [reservation EXCEPT ![current] = "reserved"]
          /\ Goto("submit")
       \/ UNCHANGED reservation /\ Goto("rejected")
    /\ UNCHANGED <<broker, trade, signals, view, current, crashes>>

\* Submission is switched off, or not allowed for this allocation.
DryRun ==
    /\ Automation = "submit"
    /\ reservation' = [reservation EXCEPT ![current] = "released"]
    /\ Goto("dry_run")
    /\ UNCHANGED <<broker, trade, signals, view, current, crashes>>

Submit ==
    /\ Automation = "submit"
    /\ \/ /\ order' = [order EXCEPT ![current].status = "working"]
          /\ \/ Goto("accepted")
             \/ ResponsesLost /\ Goto("failed")
       \/ UNCHANGED order /\ Goto("failed")
    /\ UNCHANGED <<held, database, view, current, crashes>>

\* mark_submitted raises when the row is no longer "reserved".
MarkSubmitted ==
    /\ Automation = "accepted"
    /\ IF reservation[current] = "reserved"
       THEN /\ reservation' = [reservation EXCEPT ![current] = "submitted"]
            /\ Goto("submitted")
       ELSE UNCHANGED reservation /\ Goto("failed")
    /\ UNCHANGED <<broker, trade, signals, view, current, crashes>>

\* The except branch of process: release the reservation, then re-raise, which
\* ends the cycle of this account.
ReleaseAfterFailure ==
    /\ Automation = "failed"
    /\ reservation' =
         [reservation EXCEPT ![current] = IF @ \in ActiveStates THEN "released" ELSE @]
    /\ Goto("idle")
    /\ view' = [view EXCEPT !["automation"] = NoView]
    /\ current' = NoIntent
    /\ UNCHANGED <<broker, trade, signals, crashes>>

RecordTradeResult ==
    /\ Automation \in {"rejected", "dry_run", "submitted"}
    /\ trade' = [trade EXCEPT ![current] = Automation]
    /\ Goto("ready")
    /\ current' = NoIntent
    /\ UNCHANGED <<broker, reservation, signals, view, crashes>>

EndCycle ==
    /\ Automation = "ready"
    /\ Goto("idle")
    /\ view' = [view EXCEPT !["automation"] = NoView]
    /\ UNCHANGED <<broker, database, current, crashes>>

\* A process dies, or raises outside process; it starts over with a new cycle.
Crash(p) ==
    /\ crashes < MaxCrashes
    /\ crashes' = crashes + 1
    /\ pc[p] # "idle"
    /\ pc' = [pc EXCEPT ![p] = "idle"]
    /\ view' = [view EXCEPT ![p] = NoView]
    /\ current' = IF p = "automation" THEN NoIntent ELSE current
    /\ UNCHANGED <<broker, database>>

Reconcile(p) == FetchPositions(p) \/ FetchOrders(p) \/ RecordOrderReconciliation(p)

Trade ==
    \/ \E i \in Intents : RecordSignal(i)
    \/ Block
    \/ Reserve
    \/ DryRun
    \/ Submit
    \/ MarkSubmitted
    \/ ReleaseAfterFailure
    \/ RecordTradeResult
    \/ EndCycle

Next ==
    \/ \E i \in Intents : PartialFill(i)
    \/ \E i \in Intents : Fill(i)
    \/ \E i \in Intents : Cancel(i)
    \/ \E i \in Intents : ClosePosition(i)
    \/ \E p \in Processes : Reconcile(p)
    \/ Trade
    \/ \E p \in Processes : Crash(p)

Spec == Init /\ [][Next]_vars

-----------------------------------------------------------------------------
\* "Reservations remain active while an order or position is open"
\* (src/docs/ARCHITECTURE.md): a live order or position always has an active
\* reservation, so that its risk is counted and its symbol is not traded again.
LiveOrdersReserved ==
    \A i \in Intents : Live(i) => reservation[i] \in ActiveStates

\* An order only ever reaches the broker under a reservation nobody has released
\* or moved since evaluate_and_reserve inserted it, whatever the heartbeat does
\* between the two steps and however often the processes restart.
OrdersArriveReserved ==
    [][ \A i \in Intents :
          order[i].status = "absent" /\ order'[i].status # "absent"
            => reservation[i] = "reserved" ]_vars

\* The account never has two live orders or positions in one symbol.
OneLiveOrderPerSymbol ==
    \A i, j \in Intents :
        i # j /\ SymbolOf[i] = SymbolOf[j] => ~ (Live(i) /\ Live(j))

\* The trade row never says an entry is over while its reservation still holds
\* risk: the two are closed in one transaction.
ClosedTradesReleased ==
    \A i \in Intents :
        trade[i] \in {"dry_run", "canceled", "position_closed"}
            => reservation[i] = "released"

\* The reservation's row only moves along the lifecycle of ReservationLedger.
ImplementsLedger == Ledger!Spec

-----------------------------------------------------------------------------
\* The heartbeat loop runs forever, and so does the automation's; each step is a
\* bounded piece of work.  Nothing is assumed of the broker.
Fairness == \A p \in Processes : WF_vars(Reconcile(p)) /\ WF_vars(Trade)
FairSpec == Spec /\ Fairness

\* A reservation that was seen open does not hold capacity forever once its
\* order and its position are gone, unless another position hides it.
OverReservationsReleased ==
    \A i \in Intents :
        ( /\ reservation[i] \in {"open", "closing_pending"}
          /\ ~ Live(i) )
        ~> \/ reservation[i] = "released"
           \/ \E j \in Intents \ {i} : SymbolOf[j] = SymbolOf[i] /\ Live(j)
=============================================================================
