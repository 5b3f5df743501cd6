------------------------- MODULE ReservationLedger -------------------------
(***************************************************************************)
(* What the risk_reservations table promises, whoever writes to it: a row  *)
(* is created once per intent, moves forward through its lifecycle, and    *)
(* once released is never active again.  SqliteAuditStore is the only      *)
(* writer (src/src/multitrade/audit.py); RiskAuthority and OrderLifecycle  *)
(* are shown to implement this specification.                              *)
(***************************************************************************)

CONSTANT Intents      \* intent ids, the primary key of risk_reservations

VARIABLE reservation  \* the "state" column of each intent's row, "none" if no row

\* ACTIVE_RESERVATION_STATES: the rows that count as active risk.
ActiveStates == {"reserved", "submitted", "open", "closing_pending"}

ReservationStates == ActiveStates \cup {"none", "released"}

Active(i) == reservation[i] \in ActiveStates

(***************************************************************************)
(* The moves one row may make in one transaction.                          *)
(***************************************************************************)
Moves ==
    { <<"none", "reserved">>,            \* evaluate_and_reserve
      <<"reserved", "submitted">>,       \* mark_submitted
      <<"open", "closing_pending">> }    \* first observed absence
    \cup { <<s, "open">> : s \in {"reserved", "submitted", "closing_pending"} }
    \cup { <<s, "released">> : s \in ActiveStates }

Init == reservation = [i \in Intents |-> "none"]

\* One transaction moves any set of rows, each along one of the moves.
Next ==
    /\ reservation' \in [Intents -> ReservationStates]
    /\ \A i \in Intents :
          \/ reservation'[i] = reservation[i]
          \/ <<reservation[i], reservation'[i]>> \in Moves

Spec == Init /\ [][Next]_reservation

TypeOK == reservation \in [Intents -> ReservationStates]
=============================================================================
