---------------------------- MODULE EquityState ----------------------------
(***************************************************************************)
(* The account_equity_state row of one account: the start-of-day equity    *)
(* and the observed peak that the daily-loss and drawdown guards compare   *)
(* with.  Both loops (cli._run, PaperAutomationService.run_cycle) fetch    *)
(* the account from the broker, stamp the observation when the last of the *)
(* REST calls has answered, and apply it in one transaction.               *)
(***************************************************************************)
EXTENDS Integers, FiniteSets

CONSTANTS
    Processes,      \* {"automation"} or {"automation", "heartbeat"}
    Equities,       \* equities the broker may report
    TicksPerDay,    \* length of a UTC day
    MaxTime         \* bound on the clock

ASSUME EquityAssumption == Equities \subseteq Nat \ {0} /\ Equities # {}
ASSUME ClockAssumption == TicksPerDay \in Nat \ {0} /\ MaxTime \in Nat

VARIABLES
    equity,       \* at the broker: account.equity
    lastEquity,   \* at the broker: account.last_equity, of the previous close
    now,          \* wall clock
    pc,           \* where each process is in its reconciliation
    view,         \* the account each process fetched, and when it was stamped
    row,          \* the account_equity_state row, or NoRow
    history       \* what has ever been recorded for each day (for the properties)

broker == <<equity, lastEquity>>
vars == <<equity, lastEquity, now, pc, view, row, history>>

Times == 0..MaxTime

DayOf(t) == t \div TicksPerDay
Days == 0..(MaxTime \div TicksPerDay)

Accounts == [equity : Equities, last : Equities, at : Times]
NoAccount == [equity |-> 0, last |-> 0, at |-> 0]
Rows == [day : Days, start : Equities, peak : Equities, latest : Equities, at : Times]
NoRow == [day |-> -1, start |-> 0, peak |-> 0, latest |-> 0, at |-> 0]
NotRecorded == [starts |-> {}, equities |-> {}]

TypeOK ==
    /\ equity \in Equities /\ lastEquity \in Equities
    /\ now \in Times
    /\ pc \in [Processes -> {"idle", "fetched", "stamped"}]
    /\ view \in [Processes -> Accounts \cup {NoAccount}]
    /\ row \in Rows \cup {NoRow}
    /\ history \in [Days -> [starts : SUBSET Equities, equities : SUBSET Equities]]

Init ==
    /\ equity \in Equities
    /\ lastEquity = equity
    /\ now = 0
    /\ pc = [p \in Processes |-> "idle"]
    /\ view = [p \in Processes |-> NoAccount]
    /\ row = NoRow
    /\ history = [d \in Days |-> NotRecorded]

-----------------------------------------------------------------------------
Tick ==
    /\ now < MaxTime
    /\ now' = now + 1
    /\ UNCHANGED <<broker, pc, view, row, history>>

\* Prices move.
Revalue(e) ==
    /\ equity' = e
    /\ UNCHANGED <<lastEquity, now, pc, view, row, history>>

\* The broker closes its trading day, which is not the UTC day.
CloseSession ==
    /\ lastEquity' = equity
    /\ UNCHANGED <<equity, now, pc, view, row, history>>

\* The account is the first of the REST calls of AlpacaPaperBroker.reconcile.
FetchAccount(p) ==
    /\ pc[p] = "idle"
    /\ pc' = [pc EXCEPT ![p] = "fetched"]
    /\ view' = [view EXCEPT ![p] = [equity |-> equity, last |-> lastEquity, at |-> 0]]
    /\ UNCHANGED <<broker, now, row, history>>

\* The last call has answered: observed_at is read from the clock.
Stamp(p) ==
    /\ pc[p] = "fetched"
    /\ pc' = [pc EXCEPT ![p] = "stamped"]
    /\ view' = [view EXCEPT ![p].at = now]
    /\ UNCHANGED <<broker, now, row, history>>

Larger(x, y) == IF x < y THEN y ELSE x

\* Mutant of Observed: the peak is recomputed from the observation alone.
ObservedWithoutPeak(v) ==
    LET day == DayOf(v.at)
        start == IF row.day # day THEN v.last ELSE row.start
    IN  [day |-> day, start |-> start, peak |-> Larger(start, v.equity),
         latest |-> v.equity, at |-> v.at]

\* The row apply_account_equity_state writes; the snapshot it returns is this
\* row's start and peak with the equity observed.
Observed(v) ==
    LET day == DayOf(v.at)
        sameDay == row.day = day
        start == IF sameDay THEN row.start ELSE v.last
    IN  [day |-> day, start |-> start,
         peak |-> Larger(IF sameDay THEN row.peak ELSE start, v.equity),
         latest |-> v.equity, at |-> v.at]

ApplyAccountEquityState(p) ==
    LET new == Observed(view[p])
    IN  /\ pc[p] = "stamped"
        /\ row' = new
        /\ history' = [history EXCEPT ![new.day] =
                         [starts |-> @.starts \cup {new.start},
                          equities |-> @.equities \cup {new.latest}]]
        /\ pc' = [pc EXCEPT ![p] = "idle"]
        /\ view' = [view EXCEPT ![p] = NoAccount]
        /\ UNCHANGED <<broker, now>>

\* A call fails or the process dies; the next cycle starts over.
Abandon(p) ==
    /\ pc[p] # "idle"
    /\ pc' = [pc EXCEPT ![p] = "idle"]
    /\ view' = [view EXCEPT ![p] = NoAccount]
    /\ UNCHANGED <<broker, now, row, history>>

Next ==
    \/ Tick
    \/ \E e \in Equities : Revalue(e)
    \/ CloseSession
    \/ \E p \in Processes : FetchAccount(p)
    \/ \E p \in Processes : Stamp(p)
    \/ \E p \in Processes : ApplyAccountEquityState(p)
    \/ \E p \in Processes : Abandon(p)

Spec == Init /\ [][Next]_vars

-----------------------------------------------------------------------------
\* "persists each account's start-of-day and observed peak equity, so an intra-day
\* recovery does not erase the drawdown reference" (src/docs/ARCHITECTURE.md): the
\* peak covers every equity recorded for the day of the row, and its start, so that no
\* loss is counted as negative.
PeakCoversDay ==
    row # NoRow =>
        \A e \in history[row.day].equities \cup history[row.day].starts : row.peak >= e

\* The reference of the daily-loss guard is fixed by the first observation of a
\* day, even when the broker's own session closes within the UTC day.
StartOfDayFixed == \A d \in Days : Cardinality(history[d].starts) <= 1

\* Both references of the loss guards: a day has one start, and its peak is never
\* below what was observed, through price moves, session closes and lost calls.
ReferencesKept == PeakCoversDay /\ StartOfDayFixed
=============================================================================
