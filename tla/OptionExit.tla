----------------------------- MODULE OptionExit -----------------------------
(***************************************************************************)
(* The exit of one open option package, which the application manages      *)
(* itself: the automation worker evaluates the package every cycle and     *)
(* submits a reduce-only closing order for its whole quantity; both        *)
(* processes reconcile what became of it.  The package's entry order is    *)
(* filled, recorded and seen open when the module starts.                  *)
(***************************************************************************)
EXTENDS Integers, FiniteSets

CONSTANTS
    Exits,          \* exit intent ids; each evaluation derives a new one
    Quantity,       \* packages bought, trade_records.approved_quantity
    Processes,      \* {"automation"} or {"automation", "heartbeat"}
    MaxCrashes,     \* bound on how often a process dies between two steps
    ResponsesLost,  \* may the broker accept an order and the answer be lost?
    LiveStatuses    \* statuses the broker gives an order that is not filled at all

ASSUME QuantityAssumption == Quantity \in Nat \ {0}
ASSUME ProcessAssumption ==
    {"automation"} \subseteq Processes /\ Processes \subseteq {"automation", "heartbeat"}
ASSUME EnvironmentAssumption ==
    /\ MaxCrashes \in Nat /\ ResponsesLost \in BOOLEAN
    /\ "accepted" \in LiveStatuses
    /\ LiveStatuses \subseteq {"accepted", "pending_cancel", "suspended"}

VARIABLES
    position,     \* at the broker: packages still held
    exits,        \* at the broker: status of each exit order
    filled,       \* at the broker: packages each exit order has closed
    reservation,  \* risk_reservations.state of the opening intent
    trade,        \* trade_records.state of the opening intent
    link,         \* trade_exit_orders.state of each exit, "none" if no row
    pc,           \* where each process is in its cycle
    view,         \* what each process fetched from the broker in this cycle
    current,      \* the exit the automation is submitting, or NoExit
    crashes       \* how often a process has died (for the bound)

broker == <<position, exits, filled>>
database == <<reservation, trade, link>>
vars == <<position, exits, filled, reservation, trade, link, pc, view, current, crashes>>

NoExit == "no exit"

\* Order statuses; "accepted" stands for new, accepted, pending_new and held too,
\* "pending_cancel" for pending_replace, "suspended" for accepted_for_bidding,
\* stopped and calculated, "over" for canceled, expired, rejected, replaced and
\* done_for_day.
Statuses == {"absent", "partially_filled", "filled", "over"} \cup LiveStatuses
LinkStates == {"none", "submitted"} \cup Statuses
ActiveStates == {"reserved", "submitted", "open", "closing_pending"}

Views == [position : 0..Quantity, exits : [Exits -> Statuses]]
NoView == [position |-> 0, exits |-> [x \in Exits |-> "absent"]]

TypeOK ==
    /\ position \in 0..Quantity
    /\ exits \in [Exits -> Statuses]
    /\ filled \in [Exits -> 0..Quantity]
    /\ reservation \in {"open", "closing_pending", "released"}
    /\ trade \in {"position_open", "exit_submitted", "position_close_pending",
                  "position_closed"}
    /\ link \in [Exits -> LinkStates]
    /\ pc \in [Processes -> {"idle", "positions", "orders", "manage", "submit", "accepted"}]
    /\ view \in [Processes -> Views]
    /\ current \in Exits \cup {NoExit}
    /\ crashes \in 0..MaxCrashes

Init ==
    /\ position = Quantity
    /\ exits = [x \in Exits |-> "absent"]
    /\ filled = [x \in Exits |-> 0]
    /\ reservation = "open"
    /\ trade = "position_open"
    /\ link = [x \in Exits |-> "none"]
    /\ pc = [p \in Processes |-> "idle"]
    /\ view = [p \in Processes |-> NoView]
    /\ current = NoExit
    /\ crashes = 0

-----------------------------------------------------------------------------
(* The broker.  Every leg of an exit is *_to_close, so that a fill never    *)
(* takes more than is held.                                                 *)
LiveExit(x) == exits[x] \in LiveStatuses \cup {"partially_filled"}

FillOne(x) ==
    /\ LiveExit(x)
    /\ position > 0
    /\ position' = position - 1
    /\ filled' = [filled EXCEPT ![x] = @ + 1]
    /\ exits' = [exits EXCEPT ![x] = IF filled[x] + 1 = Quantity THEN "filled"
                                                               ELSE "partially_filled"]
    /\ UNCHANGED <<database, pc, view, current, crashes>>

\* The order is canceled, rejected, or expires at the end of its day.
EndExit(x) ==
    /\ LiveExit(x)
    /\ exits' = [exits EXCEPT ![x] = "over"]
    /\ UNCHANGED <<position, filled, database, pc, view, current, crashes>>

\* A cancel is requested and refused, a security is halted and resumed.
Restate(x, status) ==
    /\ exits[x] \in LiveStatuses
    /\ exits' = [exits EXCEPT ![x] = status]
    /\ UNCHANGED <<position, filled, database, pc, view, current, crashes>>

\* Exercised, assigned, liquidated by the broker, or closed by hand.
CloseElsewhere ==
    /\ position > 0
    /\ \A x \in Exits : ~ LiveExit(x)
    /\ position' = 0
    /\ UNCHANGED <<exits, filled, database, pc, view, current, crashes>>

-----------------------------------------------------------------------------
FetchPositions(p) ==
    /\ pc[p] = "idle"
    /\ view' = [view EXCEPT ![p].position = position]
    /\ pc' = [pc EXCEPT ![p] = "positions"]
    /\ UNCHANGED <<broker, database, current, crashes>>

FetchOrders(p) ==
    /\ pc[p] = "positions"
    /\ view' = [view EXCEPT ![p].exits = exits]
    /\ pc' = [pc EXCEPT ![p] = "orders"]
    /\ UNCHANGED <<broker, database, current, crashes>>

(***************************************************************************)
(* record_order_reconciliation.  The broker lists the newest orders first, *)
(* so the linked exits are handled before the entry order, which is filled *)
(* and has no legs.                                                        *)
(***************************************************************************)
Linked(v) == { x \in Exits : link[x] # "none" /\ v.exits[x] # "absent" }

ExitFilled(v) == \E x \in Linked(v) : v.exits[x] = "filled"

\* Trade state after the exit rows, before the entry row.
TradeAfterExits(v) ==
    IF ExitFilled(v) THEN "position_closed"
    ELSE IF trade = "exit_submitted" /\ \E x \in Linked(v) : v.exits[x] = "over"
    THEN "position_open"
    ELSE trade

EntryReleased(v) == reservation = "released" \/ ExitFilled(v)

\* Mutant of ReconciledReservation: a filled exit leaves the reservation to the
\* entry order's row.
ReservationWithoutExit(v) ==
    IF reservation = "released" THEN "released"
    ELSE IF v.position > 0 THEN "open"
    ELSE reservation

\* Mutant of ReconciledReservation: the first absence releases.
ReservationAtFirstAbsence(v) ==
    IF EntryReleased(v) THEN "released"
    ELSE IF v.position = Quantity THEN "open"
    ELSE "released"

ReconciledReservation(v) ==
    IF EntryReleased(v) THEN "released"
    ELSE IF v.position > 0 THEN "open"
    ELSE IF reservation = "closing_pending" THEN "released"
    ELSE "closing_pending"

ReconciledTrade(v) ==
    IF EntryReleased(v) THEN TradeAfterExits(v)
    ELSE IF v.position > 0 THEN "position_open"
    ELSE IF reservation = "closing_pending" THEN "position_closed"
    ELSE "position_close_pending"

RecordOrderReconciliation(p) ==
    LET v == view[p]
    IN  /\ pc[p] = "orders"
        /\ link' = [x \in Exits |-> IF x \in Linked(v) THEN v.exits[x] ELSE link[x]]
        /\ trade' = ReconciledTrade(v)
        /\ reservation' = ReconciledReservation(v)
        /\ pc' = [pc EXCEPT ![p] = IF p = "automation" THEN "manage" ELSE "idle"]
        /\ view' = [view EXCEPT ![p] =   \* the rest of the cycle reads positions only
                      IF p = "automation" THEN [NoView EXCEPT !.position = v.position]
                                          ELSE NoView]
        /\ UNCHANGED <<broker, current, crashes>>

-----------------------------------------------------------------------------
(***************************************************************************)
(* _manage_option_positions.                                               *)
(***************************************************************************)
Automation == pc["automation"]
Goto(step) == pc' = [pc EXCEPT !["automation"] = step]

\* Mutant of PendingExitStates: an exit that filled in part is not pending.
PendingWithoutPartial == {"submitted", "accepted", "pending_cancel"}

\* The exit states open_option_trades treats as a pending exit.
PendingExitStates == {"submitted", "accepted", "pending_cancel", "partially_filled"}

\* open_option_trades returns the package and the loop does not skip it.
Manageable ==
    /\ trade \in {"position_open", "position_close_pending"}
    /\ \A x \in Exits : link[x] \notin PendingExitStates

\* _evaluate_reduce_only of a close of the whole quantity.
ReduceOnlyApproved(v) == v.position >= Quantity

\* A limit or target is hit, the quotes pass, and process approves the close.
EvaluateExit(x) ==
    /\ Automation = "manage"
    /\ Manageable
    /\ ReduceOnlyApproved(view["automation"])
    /\ exits[x] = "absent"
    /\ current' = x
    /\ Goto("submit")
    /\ UNCHANGED <<broker, database, view, crashes>>

SubmitExit ==
    /\ Automation = "submit"
    /\ \/ /\ exits' = [exits EXCEPT ![current] = "accepted"]
          /\ \/ Goto("accepted") /\ UNCHANGED <<view, current>>
             \/ /\ ResponsesLost
                /\ Goto("idle")
                /\ current' = NoExit
                /\ view' = [view EXCEPT !["automation"] = NoView]
       \/ /\ UNCHANGED exits
          /\ Goto("idle")
          /\ current' = NoExit
          /\ view' = [view EXCEPT !["automation"] = NoView]
    /\ UNCHANGED <<position, filled, database, crashes>>

RecordExitSubmitted ==
    /\ Automation = "accepted"
    /\ link' = [link EXCEPT ![current] = "submitted"]
    /\ trade' = "exit_submitted"
    /\ Goto("manage")
    /\ current' = NoExit
    /\ UNCHANGED <<broker, reservation, view, crashes>>

\* Nothing triggers, or the rest of the cycle is done.
EndCycle ==
    /\ Automation = "manage"
    /\ Goto("idle")
    /\ view' = [view EXCEPT !["automation"] = NoView]
    /\ UNCHANGED <<broker, database, current, crashes>>

Crash(p) ==
    /\ crashes < MaxCrashes
    /\ crashes' = crashes + 1
    /\ pc[p] # "idle"
    /\ pc' = [pc EXCEPT ![p] = "idle"]
    /\ view' = [view EXCEPT ![p] = NoView]
    /\ current' = IF p = "automation" THEN NoExit ELSE current
    /\ UNCHANGED <<broker, database>>

Reconcile(p) == FetchPositions(p) \/ FetchOrders(p) \/ RecordOrderReconciliation(p)

Manage ==
    \/ \E x \in Exits : EvaluateExit(x)
    \/ SubmitExit
    \/ RecordExitSubmitted
    \/ EndCycle

Next ==
    \/ \E x \in Exits : FillOne(x)
    \/ \E x \in Exits : EndExit(x)
    \/ \E x \in Exits, status \in LiveStatuses : Restate(x, status)
    \/ CloseElsewhere
    \/ \E p \in Processes : Reconcile(p)
    \/ Manage
    \/ \E p \in Processes : Crash(p)

Spec == Init /\ [][Next]_vars

-----------------------------------------------------------------------------
\* While any package is held its reservation is active, whatever exits were sent,
\* lost or filled in part, and whichever process reconciles.
PositionReserved == position > 0 => reservation \in ActiveStates

\* "It submits one reduce-only closing MLeg" (src/docs/OPTIONS_PAPER_OPERATIONS.md):
\* there is never a second closing order at the broker for the same packages.
OneExitAtATime == \A x, y \in Exits : LiveExit(x) /\ LiveExit(y) => x = y

\* Exits may be lost or orphaned by a crash, but of those the database knows no two
\* are ever live at the broker at once.
OneLinkedExit ==
    \A x, y \in Exits :
        LiveExit(x) /\ LiveExit(y) /\ link[x] # "none" /\ link[y] # "none" => x = y

\* An open package whose exit triggers can be closed: the reduce-only check does
\* not turn down what is left of it.
RemainderCanBeClosed ==
    LET v == view["automation"]
    IN  Automation = "manage" /\ Manageable /\ v.position > 0 => ReduceOnlyApproved(v)

\* Each loop runs forever and each of its steps is bounded work.
Fairness == \A p \in Processes : WF_vars(Reconcile(p)) /\ WF_vars(Manage)
FairSpec == Spec /\ Fairness

\* "... realizes package P/L, and releases the opening risk": a linked exit that
\* filled eventually closes the trade and frees its risk.
FilledExitReleases ==
    (\E x \in Exits : exits[x] = "filled" /\ link[x] # "none")
        ~> (reservation = "released" /\ trade = "position_closed")
=============================================================================
