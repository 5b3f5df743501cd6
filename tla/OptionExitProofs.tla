-------------------------- MODULE OptionExitProofs --------------------------
(***************************************************************************)
(* How an open option package is closed, for any number of exits,          *)
(* packages, processes and crashes, and whether or not answers get lost.   *)
(***************************************************************************)
EXTENDS OptionExit, NumberLemmas

(***************************************************************************)
(* OptionExit.  An open option package keeps its reservation, for any      *)
(* number of exits, packages, processes and crashes, and whether or not    *)
(* answers get lost.  Two facts carry the proof.  A process that           *)
(* reconciles may be late, but what it saw held was at least what is held  *)
(* now; and an order is only filled once it has closed the whole package.  *)
(***************************************************************************)
\* What an exit closed is no longer held, and a filled exit closed everything.
FillsAccounted ==
    \A x \in Exits :
        /\ filled[x] + position <= Quantity
        /\ exits[x] = "filled" => filled[x] = Quantity

\* A view may be old, but positions only shrink and a filled order stays filled.
ViewsBehind ==
    \A p \in Processes :
        /\ pc[p] \in {"positions", "orders"} => view[p].position >= position
        /\ \A x \in Exits : view[p].exits[x] = "filled" => exits[x] = "filled"

\* The exit about to be sent has a new id.
CurrentIsNew == Automation = "submit" => current \in Exits /\ exits[current] = "absent"

\* The inductive invariant of the reservation.
Inv == TypeOK /\ FillsAccounted /\ ViewsBehind /\ CurrentIsNew /\ PositionReserved

\* Once an exit has filled nothing is held.
LEMMA FilledIsFlat ==
    ASSUME TypeOK, FillsAccounted, NEW x \in Exits, exits[x] = "filled"
    PROVE  position = 0
BY QuantityAssumption DEF TypeOK, FillsAccounted

\* The package is bought, reserved, and no exit exists.
LEMMA InitInv == Init => Inv
BY QuantityAssumption, EnvironmentAssumption, ProcessAssumption
   DEF Init, Inv, TypeOK, FillsAccounted, ViewsBehind, PositionReserved, Statuses, LinkStates,
       Views, NoView, ActiveStates, CurrentIsNew, Automation

\* The broker only ever takes from the position.
LEMMA BrokerStep ==
    ASSUME Inv,
           \/ \E x \in Exits : FillOne(x) \/ EndExit(x)
           \/ \E x \in Exits, status \in LiveStatuses : Restate(x, status)
           \/ CloseElsewhere
    PROVE  Inv'
<1> USE QuantityAssumption, EnvironmentAssumption DEF Inv
<1>1. ASSUME NEW x \in Exits, FillOne(x) PROVE Inv'
  <2>1. /\ position' = position - 1 /\ position' \in 0..Quantity
        /\ filled[x] + 1 \in 0..Quantity
        /\ filled' = [filled EXCEPT ![x] = filled[x] + 1]
        /\ exits' = [exits EXCEPT ![x] = IF filled[x] + 1 = Quantity THEN "filled"
                                                                   ELSE "partially_filled"]
        /\ exits[x] \notin {"filled", "absent"}
    BY <1>1 DEF FillOne, LiveExit, TypeOK, FillsAccounted
  <2>2. TypeOK'
    BY <1>1, <2>1 DEF FillOne, TypeOK, Statuses, database
  <2>3. FillsAccounted'
    BY <2>1 DEF FillsAccounted, TypeOK
  <2>4. ViewsBehind'
    BY <1>1, <2>1 DEF FillOne, ViewsBehind, TypeOK, Views
  <2>5. PositionReserved'
    BY <1>1, <2>1 DEF FillOne, PositionReserved, TypeOK, database
  <2>6. CurrentIsNew'
    BY <1>1, <2>1 DEF FillOne, CurrentIsNew, Automation, TypeOK
  <2>7. QED
    BY <2>2, <2>3, <2>4, <2>5, <2>6
<1>2. ASSUME NEW x \in Exits, NEW status \in Statuses,
             exits[x] \notin {"filled", "absent"}, status # "filled",
             exits' = [exits EXCEPT ![x] = status],
             UNCHANGED <<position, filled, database, pc, view, current, crashes>>
      PROVE  Inv'
  BY <1>2 DEF TypeOK, FillsAccounted, ViewsBehind, PositionReserved, CurrentIsNew, Automation,
              database
<1>3. CASE \E x \in Exits : EndExit(x)
  BY <1>2, <1>3 DEF EndExit, LiveExit, Statuses
<1>4. CASE \E x \in Exits, status \in LiveStatuses : Restate(x, status)
  BY <1>2, <1>4 DEF Restate, Statuses
<1>5. CASE CloseElsewhere
  BY <1>5 DEF CloseElsewhere, TypeOK, FillsAccounted, ViewsBehind, PositionReserved,
              CurrentIsNew, Automation, Views, database
<1>6. QED
  BY <1>1, <1>3, <1>4, <1>5

\* The two fetches take a view that is as good as the broker at that moment.
LEMMA FetchStep ==
    ASSUME Inv, NEW p \in Processes, FetchPositions(p) \/ FetchOrders(p)
    PROVE  Inv'
<1> USE DEF Inv
<1>1. CASE FetchPositions(p)
  <2>1. /\ view' = [view EXCEPT ![p] = [view[p] EXCEPT !.position = position]]
        /\ view'[p] \in Views /\ view'[p].position = position
        /\ view'[p].exits = view[p].exits
    BY <1>1 DEF FetchPositions, TypeOK, Views
  <2>2. TypeOK'
    BY <1>1, <2>1 DEF FetchPositions, TypeOK, broker, database
  <2>3. ViewsBehind'
    BY <1>1, <2>1 DEF FetchPositions, ViewsBehind, TypeOK, broker
  <2>4. QED
    BY <1>1, <2>2, <2>3 DEF FetchPositions, FillsAccounted, PositionReserved, CurrentIsNew, Automation,
                            TypeOK, broker, database
<1>2. CASE FetchOrders(p)
  <2>1. /\ view' = [view EXCEPT ![p] = [view[p] EXCEPT !.exits = exits]]
        /\ view'[p] \in Views /\ view'[p].exits = exits
        /\ view'[p].position = view[p].position
    BY <1>2 DEF FetchOrders, TypeOK, Views
  <2>2. TypeOK'
    BY <1>2, <2>1 DEF FetchOrders, TypeOK, broker, database
  <2>3. ViewsBehind'
    BY <1>2, <2>1 DEF FetchOrders, ViewsBehind, TypeOK, broker
  <2>4. QED
    BY <1>2, <2>2, <2>3 DEF FetchOrders, FillsAccounted, PositionReserved, CurrentIsNew, Automation,
                            TypeOK, broker, database
<1>3. QED
  BY <1>1, <1>2

\* A reconciliation releases only on a filled exit or an absent position, and
\* either means that nothing is held.
LEMMA ReconcileStep ==
    ASSUME Inv, NEW p \in Processes, RecordOrderReconciliation(p)
    PROVE  Inv'
<1> DEFINE v == view[p]
<1> USE DEF Inv
<1>1. v \in Views /\ v.position \in 0..Quantity /\ position \in 0..Quantity
  BY DEF TypeOK, Views
<1>2. ReconciledReservation(v) = "released" /\ reservation # "released" => position = 0
  <2>1. ASSUME NEW x \in Linked(v), v.exits[x] = "filled" PROVE position = 0
    <3>1. x \in Exits /\ exits[x] = "filled"
      BY <2>1 DEF Linked, ViewsBehind
    <3>2. QED
      BY <3>1, FilledIsFlat
  <2>2. v.position >= position
    BY DEF RecordOrderReconciliation, ViewsBehind
  <2>3. QED
    BY <2>1, <2>2, <1>1, QuantityAssumption DEF ReconciledReservation, EntryReleased, ExitFilled
<1>3. /\ ReconciledReservation(v) \in {"open", "closing_pending", "released"}
      /\ reservation = "released" => ReconciledReservation(v) = "released"
  BY DEF ReconciledReservation, EntryReleased
<1>4. ReconciledTrade(v) \in {"position_open", "exit_submitted", "position_close_pending",
                              "position_closed"}
  BY DEF ReconciledTrade, TradeAfterExits, TypeOK
<1>5. link' \in [Exits -> LinkStates]
  BY <1>1 DEF RecordOrderReconciliation, TypeOK, Views, LinkStates
<1>6. /\ view' \in [Processes -> Views]
      /\ pc' \in [Processes -> {"idle", "positions", "orders", "manage", "submit", "accepted"}]
      /\ pc'[p] \in {"idle", "manage"}
      /\ \A q \in Processes \ {p} : pc'[q] = pc[q] /\ view'[q] = view[q]
      /\ \A x \in Exits : view'[p].exits[x] = "absent"
  <2>1. view[p] \in Views /\ NoView \in Views /\ NoView.exits = [x \in Exits |-> "absent"]
    BY <1>1, QuantityAssumption DEF TypeOK, NoView, Views, Statuses
  <2>2. /\ [NoView EXCEPT !.position = view[p].position] \in Views
        /\ [NoView EXCEPT !.position = view[p].position].exits = NoView.exits
    BY <2>1 DEF Views
  <2>3. PICK new \in Views :
           /\ view' = [view EXCEPT ![p] = new]
           /\ new.exits = [x \in Exits |-> "absent"]
    BY <2>1, <2>2 DEF RecordOrderReconciliation
  <2>4. PICK step \in {"idle", "manage"} : pc' = [pc EXCEPT ![p] = step]
    BY DEF RecordOrderReconciliation
  <2>5. QED
    BY <2>3, <2>4 DEF TypeOK
<1>7. TypeOK'
  BY <1>3, <1>4, <1>5, <1>6 DEF RecordOrderReconciliation, TypeOK, broker
<1>8. ViewsBehind'
  BY <1>6 DEF RecordOrderReconciliation, ViewsBehind, broker
<1>9. PositionReserved'
  BY <1>2, <1>3 DEF RecordOrderReconciliation, PositionReserved, ActiveStates, broker, TypeOK
<1>10. CurrentIsNew'
  BY <1>6, ProcessAssumption
     DEF RecordOrderReconciliation, CurrentIsNew, Automation, broker
<1>11. QED
  BY <1>7, <1>8, <1>9, <1>10 DEF RecordOrderReconciliation, FillsAccounted, broker

\* The automation's other steps send and link exits, and release nothing.
LEMMA ManageStep ==
    ASSUME Inv, Manage \/ \E p \in Processes : Crash(p)
    PROVE  Inv'
<1> USE QuantityAssumption, ProcessAssumption, EnvironmentAssumption DEF Inv
<1>1. NoView \in Views /\ \A x \in Exits : NoView.exits[x] = "absent"
  BY DEF NoView, Views, Statuses
<1>2. CASE \E x \in Exits : EvaluateExit(x)
  BY <1>2 DEF EvaluateExit, Goto, Automation, TypeOK, FillsAccounted, ViewsBehind,
              PositionReserved, CurrentIsNew, broker, database
<1>3. CASE SubmitExit
  <2>1. TypeOK'
    BY <1>1, <1>3 DEF SubmitExit, Goto, Automation, TypeOK, Statuses, database
  <2>2. FillsAccounted'
    BY <1>3 DEF SubmitExit, TypeOK, FillsAccounted, CurrentIsNew
  <2>3. ViewsBehind'
    BY <1>1, <1>3 DEF SubmitExit, Goto, Automation, TypeOK, ViewsBehind, CurrentIsNew
  <2>4. QED
    BY <1>3, <2>1, <2>2, <2>3
       DEF SubmitExit, Goto, Automation, CurrentIsNew, TypeOK, PositionReserved, database
<1>4. CASE RecordExitSubmitted
  BY <1>4 DEF RecordExitSubmitted, Goto, Automation, TypeOK, FillsAccounted, ViewsBehind,
              PositionReserved, CurrentIsNew, LinkStates, broker
<1>5. CASE EndCycle
  BY <1>1, <1>5 DEF EndCycle, Goto, Automation, TypeOK, FillsAccounted, ViewsBehind,
              PositionReserved, CurrentIsNew, broker, database
<1>6. CASE \E p \in Processes : Crash(p)
  BY <1>1, <1>6 DEF Crash, TypeOK, FillsAccounted, ViewsBehind, PositionReserved,
              CurrentIsNew, Automation, broker, database
<1>7. QED
  BY <1>2, <1>3, <1>4, <1>5, <1>6 DEF Manage

\* The inductive step: every step of the broker and of the processes.
LEMMA NextInv == Inv /\ [Next]_vars => Inv'
<1>1. CASE UNCHANGED vars
  BY <1>1 DEF vars, Inv, TypeOK, FillsAccounted, ViewsBehind, PositionReserved,
              CurrentIsNew, Automation
<1>2. QED
  BY <1>1, BrokerStep, FetchStep, ReconcileStep, ManageStep DEF Next, Reconcile

\* It holds of every behaviour.
LEMMA InvHolds == Spec => []Inv
BY InitInv, NextInv, PTL DEF Spec

\* The exits of a package are type correct, for any number of exits, processes and
\* crashes (option_exits.py, audit.py).
THEOREM ExitTypeCorrect == Spec => []TypeOK
<1>1. Inv => TypeOK
  BY DEF Inv
<1>2. QED
  BY InvHolds, <1>1, PTL

\* While any package of the position is held, its opening reservation counts
\* against the risk limits, whatever exits were sent, lost, or filled in part,
\* and whichever process reconciles (audit.py record_order_reconciliation).
THEOREM PositionStaysReserved == Spec => []PositionReserved
<1>1. Inv => PositionReserved
  BY DEF Inv
<1>2. QED
  BY <1>1, InitInv, NextInv, PTL DEF Spec

-----------------------------------------------------------------------------
(***************************************************************************)
(* Of the exits the database knows, at most one is live.  The automation   *)
(* sends one only when no linked exit is pending, which tells all live     *)
(* exits if every status a live order can have is a pending one.  The      *)
(* links may be late, but never show a live order as ended.                *)
(***************************************************************************)
Ended == {"over", "filled"}

\* A linked exit reached the broker, and its link says it ended only if it did.
LinksBehind ==
    \A x \in Exits :
        /\ link[x] # "absent"
        /\ link[x] # "none" => exits[x] # "absent"
        /\ link[x] \in Ended => exits[x] = link[x]

\* So do the orders a process fetched.
OrdersBehind ==
    \A p \in Processes, x \in Exits :
        view[p].exits[x] \in Ended => exits[x] = view[p].exits[x]

\* While an exit is being sent none of the linked ones is live.
SubmitsAlone ==
    /\ Automation \in {"submit", "accepted"} =>
         \A x \in Exits : link[x] # "none" => ~ LiveExit(x)
    /\ Automation = "accepted" => current \in Exits /\ exits[current] # "absent"

\* What is added to it for the exits that are linked.
LinkInv == LinksBehind /\ OrdersBehind /\ SubmitsAlone /\ OneLinkedExit

\* No exit exists.
LEMMA InitLink == Init => LinkInv
BY ProcessAssumption, EnvironmentAssumption
   DEF Init, LinkInv, LinksBehind, OrdersBehind, SubmitsAlone, OneLinkedExit, NoView,
       Automation, LiveExit, Ended

\* A step of the broker moves exits that are live, and never makes one absent.
LEMMA BrokerLink ==
    ASSUME Inv, LinkInv,
           \/ \E x \in Exits : FillOne(x) \/ EndExit(x)
           \/ \E x \in Exits, status \in LiveStatuses : Restate(x, status)
           \/ CloseElsewhere
    PROVE  LinkInv'
<1> USE DEF LinkInv, Inv, Ended
<1>1. /\ UNCHANGED <<database, pc, view, current>>
      /\ \/ exits' = exits
         \/ \E x \in Exits, status \in Statuses \ {"absent"} :
               LiveExit(x) /\ exits' = [exits EXCEPT ![x] = status]
  BY EnvironmentAssumption
     DEF FillOne, EndExit, Restate, CloseElsewhere, LiveExit, Statuses
<1>2. \A y \in Exits : \/ exits'[y] = exits[y]
                       \/ LiveExit(y) /\ exits'[y] # "absent"
  BY <1>1 DEF TypeOK
<1>3. \A y \in Exits : LiveExit(y) => exits[y] \notin {"absent", "over", "filled"}
  BY EnvironmentAssumption DEF LiveExit
<1>4. \A y \in Exits : LiveExit(y)' => LiveExit(y)
  BY <1>2 DEF LiveExit
<1>5. LinksBehind' /\ OrdersBehind'
  BY <1>1, <1>2, <1>3 DEF LinksBehind, OrdersBehind, database
<1>6. SubmitsAlone'
  BY <1>1, <1>2, <1>4 DEF SubmitsAlone, Automation, database
<1>7. OneLinkedExit'
  BY <1>1, <1>4 DEF OneLinkedExit, database
<1>8. QED
  BY <1>5, <1>6, <1>7

\* A process that fetches and reconciles brings the links closer to the orders.
LEMMA ReconcileLink ==
    ASSUME Inv, LinkInv, NEW p \in Processes, Reconcile(p)
    PROVE  LinkInv'
<1> USE DEF LinkInv, Inv, Ended
<1>1. exits' = exits /\ current' = current /\ \A x \in Exits : LiveExit(x)' <=> LiveExit(x)
  BY DEF Reconcile, FetchPositions, FetchOrders, RecordOrderReconciliation, broker, LiveExit
<1>2. pc'["automation"] \in {"submit", "accepted"} =>
        pc'["automation"] = pc["automation"]
  BY ProcessAssumption
     DEF Reconcile, FetchPositions, FetchOrders, RecordOrderReconciliation, TypeOK
<1>3. OrdersBehind'
  <2>1. \A q \in Processes, x \in Exits :
           view'[q].exits[x] \in {view[q].exits[x], exits[x], "absent"}
    <3>1. view \in [Processes -> Views]
      BY DEF TypeOK
    <3>2. CASE FetchPositions(p)
      BY <3>1, <3>2 DEF FetchPositions, Views
    <3>3. CASE FetchOrders(p)
      BY <3>1, <3>3 DEF FetchOrders, Views
    <3>4. CASE RecordOrderReconciliation(p)
      BY <3>1, <3>4 DEF RecordOrderReconciliation, Views, NoView
    <3>5. QED
      BY <3>2, <3>3, <3>4 DEF Reconcile
  <2>2. QED
    BY <1>1, <2>1 DEF OrdersBehind
<1>4. \A x \in Exits : \/ link'[x] = link[x]
                       \/ /\ link[x] # "none"
                          /\ link'[x] \notin {"none", "absent"}
                          /\ link'[x] \in Ended => exits[x] = link'[x]
  <2>1. CASE RecordOrderReconciliation(p)
    <3>1. \A x \in Exits : view[p].exits[x] # "none"
      BY EnvironmentAssumption DEF TypeOK, Views, Statuses
    <3>2. QED
      BY <2>1, <3>1 DEF RecordOrderReconciliation, Linked, OrdersBehind
  <2>2. QED
    BY <2>1 DEF Reconcile, FetchPositions, FetchOrders, database
<1>5. LinksBehind'
  BY <1>1, <1>4 DEF LinksBehind
<1>6. SubmitsAlone'
  BY <1>1, <1>2, <1>4 DEF SubmitsAlone, Automation
<1>7. OneLinkedExit'
  BY <1>1, <1>4 DEF OneLinkedExit
<1>8. QED
  BY <1>3, <1>5, <1>6, <1>7

\* An exit is sent only when every linked one has ended, and then linked.
LEMMA ManageLink ==
    ASSUME LiveStatuses \subseteq PendingExitStates,
           Inv, LinkInv, Manage \/ \E p \in Processes : Crash(p)
    PROVE  LinkInv'
<1> USE ProcessAssumption, EnvironmentAssumption DEF LinkInv, Inv, Ended
<1>1. ASSUME NEW x \in Exits, EvaluateExit(x) PROVE LinkInv'
  <2>1. \A y \in Exits : link[y] \in {"none", "over", "filled"}
    BY <1>1 DEF EvaluateExit, Manageable, PendingExitStates, TypeOK, LinkStates,
                Statuses, LinksBehind
  <2>2. \A y \in Exits : link[y] # "none" => ~ LiveExit(y)
    BY <2>1 DEF LinksBehind, LiveExit
  <2>3. SubmitsAlone'
    BY <1>1, <2>2 DEF EvaluateExit, SubmitsAlone, Goto, Automation, LiveExit, TypeOK,
                      broker, database
  <2>4. QED
    BY <1>1, <2>3 DEF EvaluateExit, LinksBehind, OrdersBehind, OneLinkedExit, LiveExit,
                      broker, database
<1>2. CASE SubmitExit
  <2>1. /\ current \in Exits /\ exits[current] = "absent" /\ link[current] = "none"
        /\ link' = link
    BY <1>2 DEF SubmitExit, CurrentIsNew, LinksBehind, database
  <2>2. \A y \in Exits : y # current => exits'[y] = exits[y]
    BY <1>2, <2>1 DEF SubmitExit, TypeOK
  <2>3. LinksBehind'
    BY <2>1, <2>2 DEF LinksBehind
  <2>4. \A p \in Processes, x \in Exits :
           view'[p].exits[x] \in {view[p].exits[x], "absent"}
    BY <1>2 DEF SubmitExit, TypeOK, NoView
  <2>5. OrdersBehind'
    <3>1. SUFFICES ASSUME NEW p \in Processes, NEW x \in Exits, view'[p].exits[x] \in Ended
                   PROVE  exits'[x] = view'[p].exits[x]
      BY DEF OrdersBehind
    <3>2. view'[p].exits[x] = view[p].exits[x]
      BY <2>4, <3>1
    <3>3. exits[x] = view[p].exits[x] /\ x # current
      BY <2>1, <3>1, <3>2 DEF OrdersBehind
    <3>4. QED
      BY <2>2, <3>2, <3>3
  <2>6. pc'["automation"] = "accepted" =>
           current' = current /\ exits'[current] = "accepted"
    BY <1>2, <2>1 DEF SubmitExit, Goto, TypeOK, Automation
  <2>7. pc'["automation"] \in {"idle", "accepted"}
    BY <1>2 DEF SubmitExit, Goto, TypeOK
  <2>8. SubmitsAlone' /\ OneLinkedExit'
    BY <1>2, <2>1, <2>2, <2>6, <2>7
       DEF SubmitExit, SubmitsAlone, OneLinkedExit, Automation, LiveExit
  <2>9. QED
    BY <2>3, <2>5, <2>8
<1>3. CASE RecordExitSubmitted
  <2>1. /\ current \in Exits /\ exits[current] # "absent"
        /\ exits' = exits /\ view' = view
        /\ link' = [link EXCEPT ![current] = "submitted"]
        /\ pc'["automation"] = "manage"
        /\ \A y \in Exits : link[y] # "none" => ~ LiveExit(y)
    BY <1>3 DEF RecordExitSubmitted, SubmitsAlone, Goto, Automation, TypeOK, broker
  <2>2. QED
    BY <2>1 DEF LinksBehind, OrdersBehind, SubmitsAlone, OneLinkedExit, Automation,
                LiveExit, TypeOK
<1>4. CASE EndCycle \/ \E p \in Processes : Crash(p)
  <2>1. /\ exits' = exits /\ link' = link
        /\ \/ pc'["automation"] = pc["automation"] /\ current' = current
           \/ pc'["automation"] = "idle"
        /\ \A p \in Processes, x \in Exits :
              view'[p].exits[x] \in {view[p].exits[x], "absent"}
    BY <1>4 DEF EndCycle, Crash, Goto, TypeOK, NoView, broker, database
  <2>2. LinksBehind' /\ OneLinkedExit'
    BY <2>1 DEF LinksBehind, OneLinkedExit, LiveExit
  <2>3. OrdersBehind'
    <3>1. SUFFICES ASSUME NEW p \in Processes, NEW x \in Exits, view'[p].exits[x] \in Ended
                   PROVE  exits'[x] = view'[p].exits[x]
      BY DEF OrdersBehind
    <3>2. view'[p].exits[x] = view[p].exits[x]
      BY <2>1, <3>1
    <3>3. QED
      BY <2>1, <3>1, <3>2 DEF OrdersBehind
  <2>4. SubmitsAlone'
    BY <2>1 DEF SubmitsAlone, Automation, LiveExit
  <2>5. QED
    BY <2>2, <2>3, <2>4
<1>5. QED
  BY <1>1, <1>2, <1>3, <1>4 DEF Manage

\* If the broker leaves an unfilled order only in statuses the code takes for a
\* pending exit, no two exits that open_option_trades knows of are live at once,
\* whatever is lost or crashes and however late the reconciliations are
\* (_manage_option_positions; in accepted_for_bidding, stopped and calculated, which
\* the code does not list, it may send a second one).
THEOREM LinkedExitsOneAtATime ==
    ASSUME LiveStatuses \subseteq PendingExitStates
    PROVE  Spec => []OneLinkedExit
<1>1. Inv /\ LinkInv /\ [Next]_vars => LinkInv'
  <2>1. CASE UNCHANGED vars
    BY <2>1 DEF vars, LinkInv, LinksBehind, OrdersBehind, SubmitsAlone, OneLinkedExit,
                Automation, LiveExit
  <2>2. QED
    BY <2>1, BrokerLink, ReconcileLink, ManageLink DEF Next
<1>2. LinkInv => OneLinkedExit
  BY DEF LinkInv
<1>3. QED
  BY <1>1, <1>2, InitInv, NextInv, InitLink, PTL DEF Spec
=============================================================================
