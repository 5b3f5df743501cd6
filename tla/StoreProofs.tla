---------------------------- MODULE StoreProofs -----------------------------
(***************************************************************************)
(* What is kept outside the trading cycles: the loss guards' reference of  *)
(* an account (EquityState), the overrides of strategies                   *)
(* (StrategyControls), the registry of trials (StrategyLab), the           *)
(* environment file (ControlPlane), and what a worker's health file says   *)
(* of its accounts (ServiceLoop).                                          *)
(***************************************************************************)
EXTENDS EquityState, StrategyControls, StrategyLab, ServiceLoop, ControlPlane,
        NumberLemmas, SequenceTheorems

(***************************************************************************)
(* EquityState.  However many processes reconcile an account, a snapshot's *)
(* peak covers its start and its equity.  The references of a day are kept *)
(* as long as no observation of an earlier day is applied after one of a   *)
(* later day: always with one process, and with any number of them within  *)
(* one UTC day.  The runs show that two processes can break this around    *)
(* midnight.                                                               *)
(***************************************************************************)
\* A later time is not on an earlier day.
LEMMA DayMonotone ==
    ASSUME NEW t \in Nat, NEW u \in Nat, t <= u
    PROVE  DayOf(t) \in Nat /\ DayOf(t) <= DayOf(u)
BY ClockAssumption, QuotientMonotone DEF DayOf

\* Every time on the clock falls on a day of the table.
LEMMA DaysCoverTimes ==
    /\ Days \subseteq Nat
    /\ \A t \in Times : t \in Nat /\ DayOf(t) \in Days
<1>1. MaxTime \in Nat /\ MaxTime \div TicksPerDay = DayOf(MaxTime)
  BY ClockAssumption DEF DayOf
<1>2. DayOf(MaxTime) \in Nat
  BY <1>1, DayMonotone
<1>3. ASSUME NEW t \in Times PROVE t \in Nat /\ DayOf(t) \in Days
  <2>1. t \in Nat /\ t <= MaxTime
    BY <1>1 DEF Times
  <2>2. DayOf(t) \in Nat /\ DayOf(t) <= DayOf(MaxTime)
    BY <2>1, <1>1, DayMonotone
  <2>3. QED
    BY <2>1, <2>2, <1>1, <1>2 DEF Days
<1>4. QED
  BY <1>1, <1>2, <1>3 DEF Days

\* A process past its first call holds an account, stamped in the past.
ViewsStamped ==
    \A p \in Processes :
        /\ pc[p] # "idle" => view[p] \in Accounts
        /\ pc[p] = "stamped" => view[p].at <= now

\* The row is of the day it was observed at.
RowDated == row # NoRow => row \in Rows /\ row.day = DayOf(row.at)

\* The peak of the row is below neither its start nor its equity.
SnapshotOrdered == row.peak >= row.start /\ row.peak >= row.latest

\* The inductive invariant of any number of processes.
EquityInv ==
    /\ TypeOK
    /\ ViewsStamped
    /\ RowDated
    /\ SnapshotOrdered

\* The row is of the newest day recorded, and carries that day's reference.
RowCarriesDay ==
    /\ \A d \in Days : d > row.day => history[d] = NotRecorded
    /\ row # NoRow => history[row.day].starts = {row.start}

\* A day has one start.
OneStart == \A d \in Days : \E x \in Equities : history[d].starts \subseteq {x}

\* What is added to EquityInv when the days are applied in order.
ReferencesInv ==
    /\ RowCarriesDay
    /\ OneStart
    /\ PeakCoversDay

\* An observation that is applied is not of an earlier day than the row.
DayInOrder ==
    \A p \in Processes : ApplyAccountEquityState(p) => row.day <= DayOf(view[p].at)

\* An empty table has nothing to keep.
LEMMA EquityInitInv == Init => EquityInv /\ ReferencesInv
<1> SUFFICES ASSUME Init PROVE EquityInv /\ ReferencesInv
  OBVIOUS
<1>1. now \in Times /\ 0 \in Times
  BY ClockAssumption DEF Init, Times
<1>2. TypeOK
  BY <1>1 DEF Init, TypeOK, NotRecorded
<1>3. OneStart
  BY EquityAssumption DEF Init, OneStart, NotRecorded
<1>4. QED
  BY <1>2, <1>3
     DEF Init, EquityInv, ViewsStamped, RowDated, SnapshotOrdered, ReferencesInv, RowCarriesDay,
         PeakCoversDay, NoRow

\* Steps that leave the row alone.
LEMMA QuietSteps ==
    ASSUME EquityInv,
           \/ Tick \/ \E e \in Equities : Revalue(e)
           \/ CloseSession
           \/ \E p \in Processes : FetchAccount(p) \/ Stamp(p) \/ Abandon(p)
    PROVE  EquityInv' /\ row' = row /\ history' = history
<1> USE DEF EquityInv
<1>1. row' = row /\ history' = history /\ now' >= now /\ now' \in Times /\ now \in Nat
  BY DaysCoverTimes, ClockAssumption
     DEF Tick, Revalue, CloseSession, FetchAccount, Stamp, Abandon, TypeOK, Times
<1>2. RowDated' /\ SnapshotOrdered'
  BY <1>1 DEF RowDated, SnapshotOrdered
<1>3. TypeOK' /\ ViewsStamped'
  <2>1. CASE Tick
    <3>1. \A p \in Processes : view[p] \in Accounts => view[p].at \in Nat
      BY DaysCoverTimes DEF Accounts
    <3>2. ViewsStamped'
      BY <2>1, <3>1, <1>1 DEF Tick, ViewsStamped
    <3>3. QED
      BY <2>1, <3>2, <1>1 DEF Tick, TypeOK, broker
  <2>2. CASE \E e \in Equities : Revalue(e)
    BY <2>2 DEF Revalue, TypeOK, ViewsStamped
  <2>3. CASE CloseSession
    BY <2>3 DEF CloseSession, TypeOK, ViewsStamped
  <2>4. ASSUME NEW p \in Processes, FetchAccount(p) PROVE TypeOK' /\ ViewsStamped'
    <3>1. [equity |-> equity, last |-> lastEquity, at |-> 0] \in Accounts
      BY ClockAssumption DEF TypeOK, Accounts, Times
    <3>2. QED
      BY <2>4, <3>1 DEF FetchAccount, TypeOK, ViewsStamped, broker
  <2>5. ASSUME NEW p \in Processes, Stamp(p) PROVE TypeOK' /\ ViewsStamped'
    <3>1. view[p] \in Accounts
      BY <2>5 DEF Stamp, ViewsStamped
    <3>2. /\ view'[p] \in Accounts /\ view'[p].at = now
          /\ \A q \in Processes \ {p} : view'[q] = view[q] /\ pc'[q] = pc[q]
          /\ view' \in [Processes -> Accounts \cup {NoAccount}]
      BY <2>5, <3>1 DEF Stamp, TypeOK, Accounts
    <3>3. pc' \in [Processes -> {"idle", "fetched", "stamped"}]
      BY <2>5 DEF Stamp, TypeOK
    <3>4. QED
      BY <2>5, <3>2, <3>3, <1>1 DEF Stamp, TypeOK, ViewsStamped, broker
  <2>6. ASSUME NEW p \in Processes, Abandon(p) PROVE TypeOK' /\ ViewsStamped'
    BY <2>6 DEF Abandon, TypeOK, ViewsStamped, broker
  <2>7. QED
    BY <2>1, <2>2, <2>3, <2>4, <2>5, <2>6
<1>4. QED
  BY <1>1, <1>2, <1>3

\* The row that is written is dated by the observation, and its peak covers it; of the
\* day of the row it extends the peak, of another day it starts a new reference.
LEMMA ObservedRow ==
    ASSUME EquityInv, NEW v \in Accounts
    PROVE  /\ Observed(v) \in Rows /\ Observed(v).day = DayOf(v.at)
           /\ Observed(v).at = v.at /\ Observed(v).latest = v.equity
           /\ Observed(v).peak >= Observed(v).start /\ Observed(v).peak >= v.equity
           /\ row.day = DayOf(v.at) =>
                Observed(v).start = row.start /\ Observed(v).peak >= row.peak
<1> USE DEF EquityInv
<1>1. /\ v.equity \in Equities /\ v.last \in Equities /\ v.at \in Times
      /\ v.at \in Nat /\ DayOf(v.at) \in Days /\ Equities \subseteq Nat /\ Days \subseteq Nat
      /\ v.equity \in Nat /\ v.last \in Nat /\ DayOf(v.at) \in Nat
  BY DaysCoverTimes, EquityAssumption DEF Accounts
<1> DEFINE new == Observed(v)
<1>2. CASE row.day = DayOf(v.at)
  <2>0. row # NoRow
    BY <1>2, <1>1 DEF NoRow
  <2>1. row \in Rows /\ row.start \in Equities /\ row.peak \in Equities /\ row.peak >= row.start
    BY <2>0 DEF RowDated, Rows, SnapshotOrdered
  <2>2. new = [day |-> DayOf(v.at), start |-> row.start,
               peak |-> Larger(row.peak, v.equity), latest |-> v.equity, at |-> v.at]
    BY <1>2 DEF Observed
  <2>3. row.start \in Nat /\ row.peak \in Nat
    BY <2>1, <1>1
  <2>4. /\ Larger(row.peak, v.equity) \in Equities
        /\ Larger(row.peak, v.equity) >= row.start
        /\ Larger(row.peak, v.equity) >= row.peak
        /\ Larger(row.peak, v.equity) >= v.equity
    BY <2>1, <2>3, <1>1 DEF Larger
  <2> HIDE DEF new
  <2>5. new \in Rows /\ new.peak >= new.start /\ new.peak >= v.equity /\ new.peak >= row.peak
    BY <2>1, <2>2, <2>4, <1>1 DEF Rows
  <2>6. QED
    BY <2>2, <2>5 DEF new
<1>3. CASE row.day # DayOf(v.at)
  <2>1. new = [day |-> DayOf(v.at), start |-> v.last,
               peak |-> Larger(v.last, v.equity), latest |-> v.equity, at |-> v.at]
    BY <1>3 DEF Observed
  <2>2. /\ Larger(v.last, v.equity) \in Equities
        /\ Larger(v.last, v.equity) >= v.last /\ Larger(v.last, v.equity) >= v.equity
    BY <1>1 DEF Larger
  <2> HIDE DEF new
  <2>3. new \in Rows /\ new.peak >= new.start /\ new.peak >= v.equity
    BY <2>1, <2>2, <1>1 DEF Rows
  <2>4. QED
    BY <1>3, <2>1, <2>3 DEF new
<1>4. QED
  BY <1>2, <1>3

\* What applying an observation writes, in whatever order observations come.
LEMMA ApplyStep ==
    ASSUME EquityInv, NEW p \in Processes, ApplyAccountEquityState(p)
    PROVE  LET v   == view[p]
               new == Observed(v)
           IN  /\ EquityInv'
               /\ v \in Accounts /\ new \in Rows /\ new.day \in Days
               /\ row' = new
               /\ history'[new.day] = [starts |-> history[new.day].starts \cup {new.start},
                                       equities |-> history[new.day].equities \cup {v.equity}]
               /\ \A d \in Days \ {new.day} : history'[d] = history[d]
<1> DEFINE v == view[p]
           new == Observed(v)
<1> USE DEF EquityInv
<1>1. v \in Accounts /\ v.at <= now /\ DayOf(v.at) \in Days
  BY DaysCoverTimes DEF ApplyAccountEquityState, ViewsStamped, Accounts
<1>2. /\ new \in Rows /\ new.day = DayOf(v.at) /\ new.at = v.at /\ new.latest = v.equity
      /\ new.peak >= new.start /\ new.peak >= v.equity
  BY <1>1, ObservedRow
<1>3. row' = new /\ now' = now
  BY DEF ApplyAccountEquityState
<1>4. /\ history'[new.day] = [starts |-> history[new.day].starts \cup {new.start},
                              equities |-> history[new.day].equities \cup {v.equity}]
      /\ \A d \in Days \ {new.day} : history'[d] = history[d]
      /\ history' \in [Days -> [starts : SUBSET Equities, equities : SUBSET Equities]]
  <2>1. new.day \in Days /\ new.start \in Equities /\ new.latest \in Equities
    BY <1>2 DEF Rows
  <2>2. history[new.day] \in [starts : SUBSET Equities, equities : SUBSET Equities]
    BY <2>1 DEF TypeOK
  <2> HIDE DEF new
  <2>3. history' = [history EXCEPT ![new.day] =
                      [starts |-> history[new.day].starts \cup {new.start},
                       equities |-> history[new.day].equities \cup {new.latest}]]
    BY <2>1, <2>2 DEF ApplyAccountEquityState, TypeOK, new
  <2>4. QED
    BY <2>1, <2>2, <2>3, <1>2 DEF TypeOK
<1> HIDE DEF new
<1>5. TypeOK'
  BY <1>2, <1>3, <1>4 DEF ApplyAccountEquityState, TypeOK, broker
<1>6. ViewsStamped'
  BY <1>3 DEF ApplyAccountEquityState, TypeOK, ViewsStamped
<1>7. RowDated' /\ SnapshotOrdered'
  BY <1>2, <1>3 DEF RowDated, SnapshotOrdered
<1>8. QED
  BY <1>1, <1>2, <1>3, <1>4, <1>5, <1>6, <1>7 DEF new

\* The inductive step, for any number of processes.
LEMMA EquityNextInv == EquityInv /\ [Next]_vars => EquityInv'
<1>1. CASE UNCHANGED vars
  BY <1>1 DEF vars, EquityInv, TypeOK, ViewsStamped, RowDated, SnapshotOrdered
<1>2. QED
  BY <1>1, QuietSteps, ApplyStep DEF Next

\* The invariant holds of every behaviour.
LEMMA EquityInvHolds == Spec => []EquityInv
BY EquityInitInv, EquityNextInv, PTL DEF Spec

\* Whatever the heartbeat and the automation apply, and in whatever order: the row
\* holds equities of the account, dated by the UTC day of their stamp (audit.py
\* apply_account_equity_state).
THEOREM EquityTypeCorrect == Spec => []TypeOK
<1>1. EquityInv => TypeOK
  BY DEF EquityInv
<1>2. QED
  BY <1>1, EquityInvHolds, PTL

\* A snapshot handed to the guards never has a peak below its start of day or its
\* equity, however many processes write the row and in whatever order, midnight
\* included: no loss or drawdown is negative.  RiskAuthority relies on it.
THEOREM SnapshotsOrdered == Spec => []SnapshotOrdered
<1>1. EquityInv => SnapshotOrdered
  BY DEF EquityInv
<1>2. QED
  BY <1>1, EquityInvHolds, PTL

\* Applied in order of their days, observations extend the reference of the row's day
\* or start the one of a day nothing was recorded for.
LEMMA ReferencesStep ==
    ASSUME EquityInv, ReferencesInv, [Next /\ DayInOrder]_vars
    PROVE  ReferencesInv'
<1> USE DEF EquityInv, ReferencesInv
<1>1. CASE row' = row /\ history' = history
  BY <1>1 DEF RowCarriesDay, OneStart, PeakCoversDay
<1>2. ASSUME NEW p \in Processes, ApplyAccountEquityState(p), DayInOrder
      PROVE  ReferencesInv'
  <2> DEFINE v == view[p]
             new == Observed(v)
  <2>1. /\ v \in Accounts /\ new \in Rows /\ new.day \in Days
        /\ row' = new
        /\ history'[new.day] = [starts |-> history[new.day].starts \cup {new.start},
                                equities |-> history[new.day].equities \cup {v.equity}]
        /\ \A d \in Days \ {new.day} : history'[d] = history[d]
    BY <1>2, ApplyStep
  <2>2. /\ new.day = DayOf(v.at) /\ new.peak >= new.start /\ new.peak >= v.equity
        /\ row.day = new.day => new.start = row.start /\ new.peak >= row.peak
    BY <2>1, ObservedRow
  <2>3. /\ Days \subseteq Nat /\ Equities \subseteq Nat
        /\ new.day \in Nat /\ new.start \in Equities /\ new.peak \in Nat
    BY <2>1, DaysCoverTimes, EquityAssumption DEF Rows
  <2>4. /\ row.day \in Int /\ row.day <= new.day
        /\ row = NoRow \/ (row \in Rows /\ row.day \in Days /\ row.peak \in Nat)
        /\ row.day \in Days => row # NoRow
    <3>1. row.day <= new.day
      BY <1>2, <2>2 DEF DayInOrder
    <3> HIDE DEF new
    <3>2. CASE row = NoRow
      <4>1. row.day = -1
        BY <3>2 DEF NoRow
      <4>2. row.day \in Int /\ row.day \notin Nat
        BY <4>1
      <4>3. row.day \notin Days
        BY <4>2, <2>3
      <4>4. QED
        BY <3>1, <3>2, <4>2, <4>3
    <3>3. CASE row # NoRow
      <4>1. row \in Rows /\ row.day \in Days /\ row.peak \in Equities
        BY <3>3 DEF RowDated, Rows
      <4>2. row.day \in Nat /\ row.peak \in Nat
        BY <4>1, <2>3
      <4>3. QED
        BY <3>1, <3>3, <4>1, <4>2
    <3>4. QED
      BY <3>2, <3>3
  <2> HIDE DEF new, v
  <2>5. /\ history'[new.day].starts = {new.start}
        /\ \A e \in history'[new.day].equities : new.peak >= e
        /\ \A d \in Days : d > new.day => history'[d] = NotRecorded
    <3>1. CASE row.day = new.day
      <4>1. row # NoRow /\ new.start = row.start /\ new.peak >= row.peak /\ row.peak \in Nat
            /\ history[new.day].starts = {row.start}
        BY <3>1, <2>1, <2>2, <2>4 DEF RowCarriesDay
      <4>2. \A e \in history[new.day].equities : e \in Nat /\ row.peak >= e
        BY <3>1, <4>1, <2>1, <2>3 DEF PeakCoversDay, TypeOK
      <4>3. ASSUME NEW d \in Days, d > new.day PROVE history'[d] = NotRecorded
        <5>1. d # new.day /\ d > row.day
          BY <3>1, <4>3, <2>3
        <5>2. QED
          BY <5>1, <2>1 DEF RowCarriesDay
      <4>4. QED
        BY <4>1, <4>2, <4>3, <2>1, <2>2, <2>3
    <3>2. CASE row.day # new.day
      <4>1. row.day < new.day
        BY <3>2, <2>3, <2>4
      <4>2. history[new.day] = NotRecorded
        BY <4>1, <2>1 DEF RowCarriesDay
      <4>3. history'[new.day].starts = {new.start} /\ history'[new.day].equities = {v.equity}
        BY <4>2, <2>1 DEF NotRecorded
      <4>4. ASSUME NEW d \in Days, d > new.day PROVE history'[d] = NotRecorded
        <5>1. d > row.day /\ d # new.day
          BY <4>1, <4>4, <2>3, <2>4
        <5>2. QED
          BY <5>1, <2>1 DEF RowCarriesDay
      <4>5. QED
        BY <4>3, <4>4, <2>2
    <3>3. QED
      BY <3>1, <3>2
  <2>6. RowCarriesDay'
    BY <2>1, <2>5 DEF RowCarriesDay
  <2>7. OneStart'
    BY <2>1, <2>3, <2>5 DEF OneStart
  <2>8. PeakCoversDay'
    BY <2>1, <2>2, <2>5 DEF PeakCoversDay
  <2>9. QED
    BY <2>6, <2>7, <2>8
<1>3. QED
  BY <1>1, <1>2, QuietSteps DEF Next, vars

\* A set of starts within a singleton has at most one element.
LEMMA ReferencesFollow == ReferencesInv => ReferencesKept
<1>1. SUFFICES ASSUME ReferencesInv, NEW d \in Days PROVE Cardinality(history[d].starts) <= 1
  BY DEF ReferencesInv, ReferencesKept, StartOfDayFixed
<1>2. PICK x \in Equities : history[d].starts \subseteq {x}
  BY <1>1 DEF ReferencesInv, OneStart
<1>3. history[d].starts = {} \/ history[d].starts = {x}
  BY <1>2
<1>4. Cardinality({}) = 0 /\ Cardinality({x}) = 1
  BY FS_EmptySet, FS_Singleton
<1>5. QED
  BY <1>3, <1>4

\* With any number of processes, the references of the loss guards are kept by every
\* behaviour in which no observation of an earlier day is applied after one of a later
\* day: that race is the only one apply_account_equity_state leaves open (audit.py).
THEOREM OrderedDaysSuffice == Spec /\ [][DayInOrder]_vars => []ReferencesKept
<1>1. EquityInv /\ ReferencesInv /\ [Next]_vars /\ [DayInOrder]_vars => ReferencesInv'
  BY ReferencesStep
<1>2. QED
  BY <1>1, EquityInitInv, EquityInvHolds, ReferencesFollow, PTL DEF Spec

\* So it is with any number of processes within one UTC day, in whatever order their
\* observations are applied.
THEOREM ReferencesHoldWithinDay ==
    ASSUME MaxTime < TicksPerDay
    PROVE  Spec => []ReferencesKept
<1>1. EquityInv => DayInOrder
  <2>1. SUFFICES ASSUME EquityInv, NEW p \in Processes, ApplyAccountEquityState(p)
                 PROVE  row.day <= DayOf(view[p].at)
    BY DEF DayInOrder
  <2>2. \A t \in Times : DayOf(t) = 0
    BY ClockAssumption, QuotientBelow DEF Times, DayOf
  <2>3. view[p] \in Accounts /\ view[p].at \in Times
    BY <2>1 DEF EquityInv, ViewsStamped, ApplyAccountEquityState, Accounts
  <2>4. row.day \in {-1, 0}
    BY <2>1, <2>2 DEF EquityInv, RowDated, Rows, NoRow
  <2>5. QED
    BY <2>2, <2>3, <2>4
<1>2. QED
  BY <1>1, EquityInvHolds, OrderedDaysSuffice, PTL

\* One process applies what it stamped before it stamps again.
LoneViewNewer == \A p \in Processes : pc[p] = "stamped" => row.at <= view[p].at

\* With one process, a day has one start, and the persisted peak covers every equity
\* recorded for the day, so that the drawdown guard never forgets a high (audit.py
\* apply_account_equity_state).
THEOREM ReferencesHold == ASSUME NEW p, Processes = {p} PROVE Spec => []ReferencesKept
<1> DEFINE Newer == row.at <= now /\ LoneViewNewer
<1>1. Init => Newer
  BY DEF Init, LoneViewNewer, NoRow
<1>2. ASSUME EquityInv, Newer, [Next]_vars PROVE Newer'
  <2> USE <1>2
  <2>1. row.at \in Nat /\ now \in Nat
    BY DaysCoverTimes, ClockAssumption DEF EquityInv, TypeOK, Rows, NoRow, Times
  <2>2. CASE ApplyAccountEquityState(p)
    <3>1. view[p].at <= now /\ row'.at = view[p].at /\ now' = now /\ pc'[p] = "idle"
      BY <2>2, ApplyStep, ObservedRow
         DEF ApplyAccountEquityState, EquityInv, TypeOK, ViewsStamped
    <3>2. QED
      BY <3>1 DEF LoneViewNewer
  <2>3. CASE Stamp(p)
    BY <2>3 DEF Stamp, LoneViewNewer, EquityInv, TypeOK, ViewsStamped, Accounts
  <2>4. CASE Tick
    BY <2>1, <2>4 DEF Tick, LoneViewNewer
  <2>5. CASE FetchAccount(p) \/ Abandon(p)
    BY <2>5 DEF FetchAccount, Abandon, LoneViewNewer, EquityInv, TypeOK
  <2>6. CASE CloseSession \/ \E e \in Equities : Revalue(e)
    BY <2>6 DEF CloseSession, Revalue, LoneViewNewer
  <2>7. CASE UNCHANGED vars
    BY <2>7 DEF vars, LoneViewNewer
  <2>8. QED
    BY <2>2, <2>3, <2>4, <2>5, <2>6, <2>7 DEF Next
<1>3. EquityInv /\ Newer => DayInOrder
  <2>1. SUFFICES ASSUME EquityInv, Newer, ApplyAccountEquityState(p)
                 PROVE  row.day <= DayOf(view[p].at)
    BY DEF DayInOrder
  <2>2. view[p] \in Accounts /\ view[p].at \in Nat /\ row.at <= view[p].at
        /\ DayOf(view[p].at) \in Nat
    BY <2>1, DaysCoverTimes
       DEF EquityInv, ViewsStamped, LoneViewNewer, ApplyAccountEquityState, Accounts, Days
  <2>3. CASE row = NoRow
    BY <2>2, <2>3 DEF NoRow
  <2>4. CASE row # NoRow
    <3>1. row.day = DayOf(row.at) /\ row.at \in Nat
      BY <2>1, <2>4, DaysCoverTimes DEF EquityInv, RowDated, Rows
    <3>2. QED
      BY <3>1, <2>2, DayMonotone
  <2>5. QED
    BY <2>3, <2>4
<1> HIDE DEF Newer
<1>4. Spec => [][DayInOrder]_vars
  BY <1>1, <1>2, <1>3, EquityInvHolds, PTL DEF Spec
<1>5. QED
  BY <1>4, OrderedDaysSuffice, PTL

-----------------------------------------------------------------------------
(***************************************************************************)
(* StrategyControls.  What the optimistic revisions, the lock and the      *)
(* reload guarantee for any strategies, browsers and releases.             *)
(* WithinCapital stays folded: it is the check itself that counts, not the *)
(* sum it computes.                                                        *)
(***************************************************************************)
\* The plans the two containers run with.
DashboardPlan == basePlan["dashboard"]
AutomationPlan == basePlan["automation"]

\* Rows under a plan have settings for exactly the strategies of the plan.
LEMMA EffectiveType ==
    ASSUME NEW p \in Plans,
           NEW rows \in [Strategies -> [settings : Settings, revision : Nat]]
    PROVE  /\ Effective(p, rows) \in [DOMAIN p -> Settings]
           /\ BaseSettings(p) \in [DOMAIN p -> Settings]
<1>1. DOMAIN p \subseteq Strategies /\ p \in [DOMAIN p -> Allocations]
  BY PlanAssumption
<1>2. \A s \in DOMAIN p : p[s].settings \in Settings /\ rows[s].settings \in Settings
  BY <1>1 DEF Allocations
<1>3. QED
  BY <1>2 DEF Effective, BaseSettings

\* The constants the state begins with are well typed.
LEMMA BlankTypes ==
    /\ Off \in Settings
    /\ NoOverride \in [settings : Settings, revision : Nat]
    /\ NoPage \in [strategy : Strategies, shown : Settings, revision : Nat, draft : Settings]
<1>1. (CHOOSE s \in Strategies : TRUE) \in Strategies
  BY StrategyAssumption
<1>2. QED
  BY <1>1 DEF Off, NoOverride, NoPage, Settings

\* Only one request is past its check.
OneSaving ==
    \A b, c \in Browsers : stage[b] = "saving" /\ stage[c] = "saving" => b = c

\* What was accepted is still acceptable when it is stored.
SavesAccepted ==
    \A b \in Browsers : stage[b] = "saving" =>
        Accepts(DashboardPlan, override, Shown(b), page[b].draft)

\* A page shows a strategy of the plan.
PagesOfPlan == \A b \in Browsers : stage[b] # "away" => Shown(b) \in DOMAIN DashboardPlan

\* The inductive invariant of StrategyControls.
ControlsInv ==
    /\ ControlsTypeOK
    /\ OneSaving
    /\ SavesAccepted
    /\ PagesOfPlan
    /\ AppliedWithinCapital

\* Containers start from a plan that fits.
LEMMA ControlsInitInv == ControlsInit => ControlsInv
<1> SUFFICES ASSUME ControlsInit PROVE ControlsInv
  OBVIOUS
<1>1. PICK p \in Plans : basePlan = [c \in {"dashboard", "automation"} |-> p]
  BY DEF ControlsInit
<1>2. BaseSettings(p) \in [DOMAIN p -> Settings] /\ WithinCapital(p, BaseSettings(p))
  <2>1. [s \in Strategies |-> NoOverride] \in [Strategies -> [settings : Settings, revision : Nat]]
    BY BlankTypes
  <2>2. QED
    BY <2>1, EffectiveType, PlanAssumption
<1>3. ControlsTypeOK
  BY <1>1, <1>2, BlankTypes DEF ControlsInit, ControlsTypeOK
<1>4. AppliedWithinCapital
  BY <1>1, <1>2 DEF ControlsInit, AppliedWithinCapital
<1>5. QED
  BY <1>3, <1>4 DEF ControlsInit, ControlsInv, OneSaving, SavesAccepted, PagesOfPlan

\* Every action keeps the state well typed.
LEMMA TypeStep == ControlsTypeOK /\ [ControlsNext]_controlsVars => ControlsTypeOK'
<1> SUFFICES ASSUME ControlsTypeOK, [ControlsNext]_controlsVars PROVE ControlsTypeOK'
  OBVIOUS
<1>0. DashboardPlan \in Plans /\ AutomationPlan \in Plans
  BY DEF ControlsTypeOK, DashboardPlan, AutomationPlan
<1>1. ASSUME NEW b \in Browsers, NEW s \in Strategies, ReadPlans(b, s) PROVE ControlsTypeOK'
  <2>1. Effective(DashboardPlan, override)[s] \in Settings
    BY <1>0, <1>1, EffectiveType DEF ReadPlans, ControlsTypeOK, DashboardPlan
  <2>2. [NoPage EXCEPT !.strategy = s, !.shown = Effective(DashboardPlan, override)[s]] \in
          [strategy : Strategies, shown : Settings, revision : Nat, draft : Settings]
    BY <2>1, BlankTypes DEF NoPage
  <2>3. QED
    BY <1>1, <2>2 DEF ReadPlans, ControlsTypeOK, DashboardPlan
<1>2. ASSUME NEW b \in Browsers, ReadOverrides(b) PROVE ControlsTypeOK'
  BY <1>2 DEF ReadOverrides, ControlsTypeOK, Shown
<1>3. ASSUME NEW b \in Browsers, NEW new \in Settings, CheckUpdate(b, new) PROVE ControlsTypeOK'
  BY <1>3 DEF CheckUpdate, ControlsTypeOK
<1>4. ASSUME NEW b \in Browsers, SetOverride(b) PROVE ControlsTypeOK'
  BY <1>4, BlankTypes DEF SetOverride, ControlsTypeOK, Shown
<1>5. ASSUME NEW b \in Browsers, RevisionConflict(b) PROVE ControlsTypeOK'
  BY <1>5 DEF RevisionConflict, ControlsTypeOK
<1>6. ASSUME RefreshAccountPlan PROVE ControlsTypeOK'
  BY <1>0, <1>6, EffectiveType DEF RefreshAccountPlan, ControlsTypeOK, AutomationPlan
<1>7. ASSUME NEW p \in Plans, RestartDashboard(p) PROVE ControlsTypeOK'
  BY <1>7, BlankTypes DEF RestartDashboard, ControlsTypeOK
<1>8. ASSUME NEW p \in Plans, RestartAutomation(p) PROVE ControlsTypeOK'
  BY <1>8, EffectiveType, BlankTypes DEF RestartAutomation, ControlsTypeOK
<1>9. CASE UNCHANGED controlsVars
  BY <1>9 DEF controlsVars, ControlsTypeOK
<1>10. QED
  BY <1>1, <1>2, <1>3, <1>4, <1>5, <1>6, <1>7, <1>8, <1>9 DEF ControlsNext

\* Only the automation's own reload and restart touch what it applies.
LEMMA AppliedStep ==
    ControlsInv /\ [ControlsNext]_controlsVars => AppliedWithinCapital'
<1> SUFFICES ASSUME ControlsInv, [ControlsNext]_controlsVars PROVE AppliedWithinCapital'
  OBVIOUS
<1>1. CASE RefreshAccountPlan
  BY <1>1 DEF RefreshAccountPlan, Reloadable, ControlsInv, AppliedWithinCapital
<1>2. ASSUME NEW p \in Plans, RestartAutomation(p) PROVE AppliedWithinCapital'
  BY <1>2, PlanAssumption
     DEF RestartAutomation, AppliedWithinCapital, ControlsInv, ControlsTypeOK
<1>3. ASSUME applied' = applied, basePlan'["automation"] = basePlan["automation"]
      PROVE  AppliedWithinCapital'
  BY <1>3 DEF ControlsInv, AppliedWithinCapital
<1>4. QED
  BY <1>1, <1>2, <1>3
     DEF ControlsNext, controlsVars, ControlsInv, ControlsTypeOK, ReadPlans, ReadOverrides,
         CheckUpdate, SetOverride, RevisionConflict, RestartDashboard

\* The lock: while a request is past its check, no other is, and neither the
\* rows nor the dashboard's plan change under it.
LEMMA LockStep ==
    ControlsInv /\ [ControlsNext]_controlsVars => (OneSaving /\ SavesAccepted /\ PagesOfPlan)'
<1> SUFFICES ASSUME ControlsInv, [ControlsNext]_controlsVars
             PROVE  (OneSaving /\ SavesAccepted /\ PagesOfPlan)'
  OBVIOUS
<1> USE DEF ControlsInv, OneSaving, SavesAccepted, PagesOfPlan, Shown, DashboardPlan
<1>1. ASSUME NEW b \in Browsers, NEW s \in Strategies, ReadPlans(b, s)
      PROVE  (OneSaving /\ SavesAccepted /\ PagesOfPlan)'
  BY <1>1 DEF ReadPlans, ControlsTypeOK, NoPage
<1>2. ASSUME NEW b \in Browsers, ReadOverrides(b)
      PROVE  (OneSaving /\ SavesAccepted /\ PagesOfPlan)'
  BY <1>2 DEF ReadOverrides, ControlsTypeOK
<1>3. ASSUME NEW b \in Browsers, NEW new \in Settings, CheckUpdate(b, new)
      PROVE  (OneSaving /\ SavesAccepted /\ PagesOfPlan)'
  BY <1>3 DEF CheckUpdate, LockFree, ControlsTypeOK
<1>4. ASSUME NEW b \in Browsers, SetOverride(b)
      PROVE  (OneSaving /\ SavesAccepted /\ PagesOfPlan)'
  BY <1>4 DEF SetOverride, ControlsTypeOK
<1>5. ASSUME NEW b \in Browsers, RevisionConflict(b)
      PROVE  (OneSaving /\ SavesAccepted /\ PagesOfPlan)'
  BY <1>5 DEF RevisionConflict, ControlsTypeOK
<1>6. CASE RefreshAccountPlan
  BY <1>6 DEF RefreshAccountPlan
<1>7. ASSUME NEW p \in Plans, RestartDashboard(p)
      PROVE  (OneSaving /\ SavesAccepted /\ PagesOfPlan)'
  BY <1>7 DEF RestartDashboard
<1>8. ASSUME NEW p \in Plans, RestartAutomation(p)
      PROVE  (OneSaving /\ SavesAccepted /\ PagesOfPlan)'
  BY <1>8 DEF RestartAutomation, ControlsTypeOK
<1>9. CASE UNCHANGED controlsVars
  BY <1>9 DEF controlsVars
<1>10. QED
  BY <1>1, <1>2, <1>3, <1>4, <1>5, <1>6, <1>7, <1>8, <1>9 DEF ControlsNext

\* It holds of every behaviour.
LEMMA ControlsInvHolds == ControlsSpec => []ControlsInv
<1>1. ControlsInv /\ [ControlsNext]_controlsVars => ControlsInv'
  BY TypeStep, AppliedStep, LockStep DEF ControlsInv
<1>2. QED
  BY ControlsInitInv, <1>1, PTL DEF ControlsSpec

\* The overrides are type correct, for any browsers, plans and releases: what a page
\* shows, drafts and stores is settings of a strategy (strategy_controls.py).
THEOREM ControlsTypeCorrect == ControlsSpec => []ControlsTypeOK
<1>1. ControlsInv => ControlsTypeOK
  BY DEF ControlsInv
<1>2. QED
  BY ControlsInvHolds, <1>1, PTL

\* The automation never trades with more than the whole capital enabled, for any
\* releases and any stored rows.
THEOREM CapitalNeverExceeded == ControlsSpec => []AppliedWithinCapital
<1>1. ControlsInv => AppliedWithinCapital
  BY DEF ControlsInv
<1>2. QED
  BY ControlsInvHolds, <1>1, PTL

\* Whatever is stored fits the plan of the dashboard that stored it, for any
\* number of browsers saving at once.
THEOREM SavedPlansFit == ControlsSpec => SavedPlanFits
<1>1. ASSUME ControlsInv, [ControlsNext]_controlsVars, override' # override
      PROVE  WithinCapital(DashboardPlan, Effective(DashboardPlan, override'))
  <2>1. PICK b \in Browsers : SetOverride(b)
    BY <1>1 DEF ControlsNext, controlsVars, ReadPlans, ReadOverrides, CheckUpdate,
                RevisionConflict, RefreshAccountPlan, RestartDashboard, RestartAutomation
  <2> DEFINE proposed == [override EXCEPT ![Shown(b)] =
                            [settings |-> page[b].draft, revision |-> 1]]
  <2>2. WithinCapital(DashboardPlan, Effective(DashboardPlan, proposed))
    BY <1>1, <2>1 DEF SetOverride, ControlsInv, SavesAccepted, Accepts
  <2>3. Effective(DashboardPlan, proposed) = Effective(DashboardPlan, override')
    <3>1. /\ Shown(b) \in Strategies
          /\ override \in [Strategies -> [settings : Settings, revision : Nat]]
          /\ DOMAIN DashboardPlan \subseteq Strategies
      BY <1>1, PlanAssumption DEF ControlsInv, ControlsTypeOK, Shown, DashboardPlan
    <3>2. \A s \in DOMAIN DashboardPlan :
            /\ (proposed[s] = NoOverride) = (override'[s] = NoOverride)
            /\ proposed[s].settings = override'[s].settings
      BY <2>1, <3>1 DEF SetOverride, NoOverride
    <3>3. QED
      BY <3>2, Zenon DEF Effective
  <2>4. QED
    BY <2>2, <2>3
<1>2. ControlsInv /\ [ControlsNext]_controlsVars =>
        [override' # override =>
           WithinCapital(basePlan["dashboard"],
                         Effective(basePlan["dashboard"], override'))]_controlsVars
  BY <1>1 DEF DashboardPlan
<1>3. QED
  BY ControlsInvHolds, <1>2, PTL DEF ControlsSpec, SavedPlanFits

\* A page read in one piece shows the row of its revision; a page whose row was
\* replaced has an older revision.
PagesTrue ==
    \A b \in Browsers :
        LET settings == Effective(DashboardPlan, override)[Shown(b)]
            revision == override[Shown(b)].revision
        IN  /\ stage[b] = "loading" => page[b].shown = settings
            /\ stage[b] \in {"editing", "saving"} => page[b].revision <= revision
            /\ stage[b] \in {"editing", "saving"} /\ page[b].revision = revision =>
                  page[b].shown = settings

\* When no save falls into an overview, the pages stay true: a save raises the
\* revision of the one row it replaces.
LEMMA PagesStep ==
    ASSUME SavesDuringOverview = FALSE, ControlsInv, PagesTrue, [ControlsNext]_controlsVars
    PROVE  PagesTrue'
<1> USE DEF ControlsInv, PagesTrue, Shown, DashboardPlan
<1>0. /\ ControlsTypeOK
      /\ \A b \in Browsers : page[b].revision \in Nat /\ override[Shown(b)].revision \in Nat
  BY DEF ControlsTypeOK
<1>1. ASSUME NEW b \in Browsers, NEW s \in Strategies, ReadPlans(b, s) PROVE PagesTrue'
  BY <1>1 DEF ReadPlans, ControlsTypeOK, NoPage
<1>2. ASSUME NEW b \in Browsers, ReadOverrides(b) PROVE PagesTrue'
  BY <1>0, <1>2 DEF ReadOverrides, ControlsTypeOK
<1>3. ASSUME NEW b \in Browsers, NEW new \in Settings, CheckUpdate(b, new) PROVE PagesTrue'
  BY <1>3 DEF CheckUpdate, ControlsTypeOK
<1>4. ASSUME NEW b \in Browsers, SetOverride(b) PROVE PagesTrue'
  <2>1. \A c \in Browsers : stage[c] # "loading"
    BY <1>4 DEF SetOverride, OverviewsDone
  <2>2. ASSUME NEW c \in Browsers, stage'[c] # "away"
        PROVE  /\ stage'[c] \in {"editing", "saving"} /\ stage'[c] = stage[c] /\ page'[c] = page[c]
               /\ page[c].revision <= override[Shown(c)].revision
               /\ Shown(c) \in Strategies /\ Shown(b) \in Strategies
    BY <1>4, <2>1, <2>2 DEF SetOverride, ControlsTypeOK
  <2>3. ASSUME NEW c \in Browsers, stage'[c] # "away", Shown(c) = Shown(b)
        PROVE  page[c].revision < override'[Shown(c)].revision
    BY <1>0, <1>4, <2>2, <2>3 DEF SetOverride, ControlsTypeOK
  <2>4. ASSUME NEW c \in Browsers, stage'[c] # "away", Shown(c) # Shown(b)
        PROVE  /\ override'[Shown(c)] = override[Shown(c)]
               /\ Effective(DashboardPlan, override')[Shown(c)] = Effective(DashboardPlan, override)[Shown(c)]
    <3>1. override'[Shown(c)] = override[Shown(c)]
      BY <1>4, <2>2, <2>4 DEF SetOverride, ControlsTypeOK
    <3>2. Shown(c) \in DOMAIN DashboardPlan
      BY <2>2, <2>4 DEF PagesOfPlan
    <3>3. QED
      BY <3>1, <3>2 DEF Effective
  <2>5. basePlan' = basePlan
    BY <1>4 DEF SetOverride
  <2>6. ASSUME NEW c \in Browsers, stage'[c] # "away"
        PROVE  LET settings == Effective(DashboardPlan, override')[Shown(c)]
                   revision == override'[Shown(c)].revision
               IN  /\ stage'[c] # "loading"
                   /\ page[c].revision <= revision
                   /\ page[c].revision = revision => page[c].shown = settings
    <3>1. CASE Shown(c) = Shown(b)
      <4>1. override'[Shown(c)].revision \in Nat
        BY <1>4, <2>2, <2>6, TypeStep DEF ControlsTypeOK
      <4>2. QED
        BY <1>0, <2>2, <2>3, <2>6, <3>1, <4>1
    <3>2. CASE Shown(c) # Shown(b)
      BY <2>2, <2>4, <2>6, <3>2
    <3>3. QED
      BY <3>1, <3>2
  <2>7. QED
    BY <2>2, <2>5, <2>6
<1>5. ASSUME NEW b \in Browsers, RevisionConflict(b) PROVE PagesTrue'
  BY <1>5 DEF RevisionConflict, ControlsTypeOK
<1>6. CASE RefreshAccountPlan
  BY <1>6 DEF RefreshAccountPlan
<1>7. ASSUME NEW p \in Plans, RestartDashboard(p) PROVE PagesTrue'
  BY <1>7 DEF RestartDashboard
<1>8. ASSUME NEW p \in Plans, RestartAutomation(p) PROVE PagesTrue'
  BY <1>8 DEF RestartAutomation, ControlsTypeOK
<1>9. CASE UNCHANGED controlsVars
  BY <1>9 DEF controlsVars
<1>10. QED
  BY <1>1, <1>2, <1>3, <1>4, <1>5, <1>6, <1>7, <1>8, <1>9 DEF ControlsNext

\* No save overwrites settings its author has not seen, for any number of
\* browsers, when an overview is read in one piece.
THEOREM StaleBrowsersConflict ==
    ASSUME SavesDuringOverview = FALSE
    PROVE  ControlsSpec => NewerChangeKept
<1>1. ControlsInit => PagesTrue
  BY DEF ControlsInit, PagesTrue
<1>2. ASSUME ControlsInv, PagesTrue, [ControlsNext]_controlsVars PROVE [SawWhatItReplaces]_controlsVars
  <2>1. ASSUME NEW s \in Strategies, override'[s] # override[s]
        PROVE  \E b \in Browsers :
                 /\ stage[b] = "saving" /\ Shown(b) = s
                 /\ page[b].shown = Effective(basePlan["dashboard"], override)[s]
    <3>1. PICK b \in Browsers : SetOverride(b)
      BY <1>2, <2>1 DEF ControlsNext, controlsVars, ReadPlans, ReadOverrides, CheckUpdate,
                        RevisionConflict, RefreshAccountPlan, RestartDashboard, RestartAutomation
    <3>2. Shown(b) = s
      BY <1>2, <2>1, <3>1 DEF SetOverride, ControlsInv, ControlsTypeOK
    <3>3. QED
      BY <1>2, <3>1, <3>2 DEF SetOverride, Current, PagesTrue, DashboardPlan
  <2>2. QED
    BY <2>1 DEF SawWhatItReplaces
<1>3. ControlsInv /\ PagesTrue /\ [ControlsNext]_controlsVars => PagesTrue'
  BY PagesStep
<1>4. ControlsInv /\ PagesTrue /\ [ControlsNext]_controlsVars => [SawWhatItReplaces]_controlsVars
  BY <1>2
<1>5. QED
  BY <1>1, <1>3, <1>4, ControlsInvHolds, PTL DEF ControlsSpec, NewerChangeKept

-----------------------------------------------------------------------------
(***************************************************************************)
(* StrategyLab.  For any strategies, experiments and releases: one         *)
(* manifest behind the evidence of an experiment, no counted trial before  *)
(* its boundary, and a chain the dashboard can follow.                     *)
(***************************************************************************)
\* The elements of a finite set can be listed.
LEMMA SetToSeqType ==
    ASSUME NEW S, IsFiniteSet(S)
    PROVE  SetToSeq(S) \in Seq(S)
<1>1. Cardinality(S) \in Nat /\ ExistsBijection(1..Cardinality(S), S)
  BY FS_CardinalityType
<1>2. \E f \in [1..Cardinality(S) -> S] : IsInjective(f)
  BY <1>1 DEF ExistsBijection, Bijection, Injection
<1>3. SetToSeq(S) \in [1..Cardinality(S) -> S]
  BY <1>2 DEF SetToSeq
<1>4. QED
  BY <1>1, <1>3

\* A set of positions in the registry has a last one.
LEMMA LastTrial ==
    ASSUME NEW n \in Nat, NEW own \in SUBSET (1..n), own # {}
    PROVE  \E i \in own : \A j \in own : j <= i
<1>1. own \in SUBSET (0..n)
  OBVIOUS
<1>2. QED
  BY <1>1, GreatestNatural

\* The jobs of a cycle are experiments of the release.
LEMMA JobsType ==
    ASSUME NEW r \in LabReleases, NEW t
    PROVE  Jobs(r, t) \in Seq(DOMAIN r.program)
<1> DEFINE baselines == {r.baseline[s] : s \in LabStrategies}
           compared == {c \in LabStrategies : Comparisons(r, c) # {}}
           comparisons == UNION {Selected(r, s, t) : s \in compared}
<1>1. baselines \subseteq DOMAIN r.program /\ DOMAIN r.program \subseteq Experiments
  BY ReleaseAssumption
<1>2. comparisons \subseteq DOMAIN r.program
  <2>1. \A s \in LabStrategies : Selected(r, s, t) \subseteq DOMAIN r.program
    BY DEF Selected, Comparisons
  <2>2. QED
    BY <2>1
<1>3. IsFiniteSet(baselines) /\ IsFiniteSet(comparisons)
  <2>1. baselines \subseteq Experiments /\ comparisons \subseteq Experiments
    BY <1>1, <1>2
  <2> HIDE DEF baselines, comparisons
  <2>2. QED
    BY <2>1, ExperimentAssumption, FS_Subset
<1> HIDE DEF baselines, comparisons
<1>4. SetToSeq(baselines) \in Seq(baselines) /\ SetToSeq(comparisons) \in Seq(comparisons)
  BY <1>3, SetToSeqType
<1>5. SetToSeq(baselines) \in Seq(DOMAIN r.program) /\ SetToSeq(comparisons) \in Seq(DOMAIN r.program)
  BY <1>1, <1>2, <1>4
<1>6. Jobs(r, t) = SetToSeq(baselines) \o SetToSeq(comparisons)
  BY DEF Jobs, baselines, comparisons
<1>7. QED
  BY <1>5, <1>6, ConcatProperties

\* Reports yet to be recorded are of experiments of the release.
PendingOfRelease == pending \in Seq(DOMAIN release.program)

\* A trial is counted by the manifest it carries.
FlaggedByBoundary ==
    \A i \in DOMAIN trials : trials[i].prospective => trials[i].at >= trials[i].manifest.start

\* Each trial carries the hash of the one before it.
ChainIntact == \A i \in DOMAIN trials : trials[i].previous = ExpectedPrevious(i)

\* The inductive invariant of StrategyLab.
LabInv ==
    /\ LabTypeOK
    /\ PendingOfRelease
    /\ EvidenceOfOneManifest
    /\ FlaggedByBoundary
    /\ ChainIntact
    /\ NoFalseAlarm

\* An empty registry.
LEMMA LabInitInv == LabInit => LabInv
  BY LabBoundsAssumption
     DEF LabInit, LabInv, LabTypeOK, PendingOfRelease, EvidenceOfOneManifest,
         FlaggedByBoundary, ChainIntact, NoFalseAlarm

\* The previous hash of a trial is a position.
LEMMA PreviousType ==
    ASSUME LabTypeOK, NEW s
    PROVE  Previous(s) \in Nat
<1> DEFINE own == {i \in DOMAIN trials : trials[i].strategy = s}
<1>1. Len(trials) \in Nat /\ own \in SUBSET (1..Len(trials))
  BY DEF LabTypeOK
<1>2. CASE own = {}
  BY <1>2 DEF Previous, Latest
<1>3. CASE own # {}
  <2>1. \E i \in own : \A j \in own : j <= i
    BY <1>1, <1>3, LastTrial
  <2>2. (CHOOSE i \in own : \A j \in own : j <= i) \in own
    BY <2>1
  <2>3. QED
    BY <1>1, <1>3, <2>2 DEF Previous, Latest
<1>4. QED
  BY <1>2, <1>3

\* Recording a report keeps the registry sound: the manifest is the registered
\* one, the flag is taken from it, and the link is to the last trial.
LEMMA RecordStep == LabInv /\ RecordReport => LabInv'
<1> SUFFICES ASSUME LabInv, RecordReport PROVE LabInv'
  OBVIOUS
<1> USE DEF LabInv
<1> DEFINE e == Head(pending)
           m == release.program[e]
           t == [strategy |-> m.strategy, experiment |-> e, manifest |-> m,
                 prospective |-> Prospective(m, evaluatedAt),
                 at |-> evaluatedAt, previous |-> Previous(m.strategy)]
           n == Len(trials)
<1>1. /\ e \in Experiments /\ m \in Manifests /\ e \in DOMAIN release.program
      /\ Tail(pending) \in Seq(DOMAIN release.program)
      /\ Tail(pending) \in Seq(Experiments)
  <2>1. e \in DOMAIN release.program /\ Tail(pending) \in Seq(DOMAIN release.program)
    BY HeadTailProperties DEF RecordReport, PendingOfRelease
  <2>2. Tail(pending) \in Seq(Experiments)
    BY HeadTailProperties DEF RecordReport, LabTypeOK
  <2>3. QED
    BY <2>1, <2>2, ReleaseAssumption DEF LabTypeOK
<1>2. t \in Trials
  <2>1. m.strategy \in LabStrategies /\ m.start \in Nat
    BY <1>1, ManifestAssumption
  <2>2. Prospective(m, evaluatedAt) \in BOOLEAN
    BY DEF Prospective
  <2>3. QED
    BY <1>1, <2>1, <2>2, PreviousType DEF Trials, LabTypeOK
<1>3. /\ trials' = Append(trials, t) /\ trials \in Seq(Trials)
      /\ pending' = Tail(pending) /\ release' = release
      /\ registered' = [registered EXCEPT ![e] = IF @ = NoManifest THEN m ELSE @]
  BY DEF RecordReport, LabTypeOK
<1> HIDE DEF t
<1>4. /\ trials' \in Seq(Trials) /\ DOMAIN trials' = 1..(n + 1) /\ DOMAIN trials = 1..n
      /\ n \in Nat /\ trials'[n + 1] = t
      /\ \A i \in 1..n : trials'[i] = trials[i]
  BY <1>2, <1>3, AppendProperties
<1>5. registered'[e] = m
  BY <1>1, <1>3 DEF RecordReport, Registrable, LabTypeOK
<1>6. \A i \in 1..n : registered'[trials[i].experiment] = registered[trials[i].experiment]
  <2>1. ASSUME NEW i \in 1..n
        PROVE  registered'[trials[i].experiment] = registered[trials[i].experiment]
    <3>0. trials[i] \in Trials
      BY <1>3, <1>4, <2>1
    <3>1. trials[i].experiment \in Experiments
          /\ trials[i].manifest = registered[trials[i].experiment]
      BY <1>4, <2>1, <3>0 DEF EvidenceOfOneManifest, Trials
    <3>2. registered[trials[i].experiment] # NoManifest
      BY <3>0, <3>1, ManifestAssumption DEF Trials
    <3>3. QED
      BY <1>1, <1>3, <3>1, <3>2 DEF LabTypeOK
  <2>2. QED
    BY <2>1
<1>7. LabTypeOK'
  <2>1. registered' \in [Experiments -> Manifests \cup {NoManifest}]
    BY <1>1, <1>3 DEF LabTypeOK
  <2>2. QED
    BY <1>1, <1>3, <1>4, <2>1 DEF RecordReport, LabTypeOK, dashboard
<1>8. PendingOfRelease'
  BY <1>1, <1>3 DEF PendingOfRelease
<1>9. EvidenceOfOneManifest'
  <2>1. \A i \in 1..n : trials'[i].manifest = registered'[trials'[i].experiment]
    BY <1>4, <1>6 DEF EvidenceOfOneManifest
  <2>2. trials'[n + 1].manifest = registered'[trials'[n + 1].experiment]
    BY <1>4, <1>5 DEF t
  <2>3. QED
    BY <1>4, <2>1, <2>2 DEF EvidenceOfOneManifest
<1>10. FlaggedByBoundary'
  <2>1. \A i \in 1..n : trials'[i].prospective => trials'[i].at >= trials'[i].manifest.start
    BY <1>4 DEF FlaggedByBoundary
  <2>2. trials'[n + 1].prospective => trials'[n + 1].at >= trials'[n + 1].manifest.start
    <3>1. t.prospective = (evaluatedAt >= m.start) /\ t.at = evaluatedAt /\ t.manifest = m
      BY DEF Prospective, t
    <3>2. QED
      BY <1>4, <3>1
  <2>3. QED
    BY <1>4, <2>1, <2>2 DEF FlaggedByBoundary
<1>11. ChainIntact'
  <2> DEFINE Before(f, i) == {j \in 1..(i - 1) : f[j].strategy = f[i].strategy}
  <2>1. ASSUME NEW i \in 1..n PROVE trials'[i].previous = Latest(Before(trials', i))
    <3>1. \A j \in 1..(i - 1) : j \in 1..n /\ trials'[j] = trials[j]
      BY <1>4, <2>1
    <3>2. Before(trials', i) = Before(trials, i)
      BY <1>4, <2>1, <3>1
    <3>3. trials[i].previous = Latest(Before(trials, i))
      BY <1>4, <2>1 DEF ChainIntact, ExpectedPrevious
    <3>4. QED
      BY <1>4, <2>1, <3>2, <3>3
  <2>2. trials'[n + 1].previous = Latest(Before(trials', n + 1))
    <3>1. Before(trials', n + 1) = {j \in DOMAIN trials : trials[j].strategy = m.strategy}
      BY <1>4 DEF t
    <3>2. t.previous = Latest({j \in DOMAIN trials : trials[j].strategy = m.strategy})
      BY DEF t, Previous
    <3>3. QED
      BY <1>4, <3>1, <3>2
  <2>3. \A i \in 1..(n + 1) : trials'[i].previous = Latest(Before(trials', i))
    <3> SUFFICES ASSUME NEW i \in 1..(n + 1)
                 PROVE  trials'[i].previous = Latest(Before(trials', i))
      OBVIOUS
    <3> HIDE DEF Before
    <3>1. i \in 1..n \/ i = n + 1
      BY <1>4
    <3>2. QED
      BY <3>1, <2>1, <2>2
  <2>4. QED
    BY <1>4, <2>3 DEF ChainIntact, ExpectedPrevious, Latest
<1>12. NoFalseAlarm'
  BY DEF RecordReport, NoFalseAlarm, dashboard
<1>13. QED
  BY <1>7, <1>8, <1>9, <1>10, <1>11, <1>12

\* Every step of the lab, of a release and of the dashboard keeps the invariant.
LEMMA LabNextInv == LabInv /\ [LabNext]_labVars => LabInv'
<1> SUFFICES ASSUME LabInv, [LabNext]_labVars PROVE LabInv'
  OBVIOUS
<1> USE DEF LabInv, registry, dashboard
<1>0. ASSUME registered' = registered, trials' = trials
      PROVE  EvidenceOfOneManifest' /\ FlaggedByBoundary' /\ ChainIntact'
  <2>1. EvidenceOfOneManifest' /\ FlaggedByBoundary'
    BY <1>0 DEF EvidenceOfOneManifest, FlaggedByBoundary
  <2>2. ChainIntact'
    BY <1>0 DEF ChainIntact, ExpectedPrevious, Latest
  <2>3. QED
    BY <2>1, <2>2
<1>1. CASE LabTick
  BY <1>0, <1>1, LabBoundsAssumption DEF LabTick, LabTypeOK, PendingOfRelease, NoFalseAlarm
<1>2. CASE StartCycle
  <2>1. pending' \in Seq(DOMAIN release.program)
    BY <1>2, JobsType DEF StartCycle, LabTypeOK
  <2>2. pending' \in Seq(Experiments)
    BY <2>1, ReleaseAssumption DEF LabTypeOK
  <2>3. QED
    BY <1>0, <1>2, <2>1, <2>2 DEF StartCycle, LabTypeOK, PendingOfRelease, NoFalseAlarm
<1>3. CASE RecordReport
  BY <1>3, RecordStep
<1>4. CASE RegistrationConflict
  <2>1. Tail(pending) \in Seq(DOMAIN release.program) /\ Tail(pending) \in Seq(Experiments)
    BY <1>4, HeadTailProperties DEF RegistrationConflict, PendingOfRelease, LabTypeOK
  <2>2. QED
    BY <1>0, <1>4, <2>1 DEF RegistrationConflict, LabTypeOK, PendingOfRelease, NoFalseAlarm
<1>5. CASE AbandonCycle
  BY <1>0, <1>5 DEF AbandonCycle, LabTypeOK, PendingOfRelease, NoFalseAlarm
<1>6. ASSUME NEW r \in LabReleases, RestartLab(r) PROVE LabInv'
  BY <1>0, <1>6 DEF RestartLab, LabTypeOK, PendingOfRelease, NoFalseAlarm
<1>7. CASE ReadChain
  BY <1>0, <1>7 DEF ReadChain, LabTypeOK, PendingOfRelease, NoFalseAlarm
<1>8. CASE VerifyPage
  <2>1. verdict' \in {"intact", "raised"}
    BY <1>8 DEF VerifyPage, Page, ChainIntact
  <2>2. QED
    BY <1>0, <1>8, <2>1 DEF VerifyPage, LabTypeOK, PendingOfRelease, NoFalseAlarm
<1>9. CASE UNCHANGED labVars
  BY <1>0, <1>9 DEF labVars, LabTypeOK, PendingOfRelease, NoFalseAlarm
<1>10. QED
  BY <1>1, <1>2, <1>3, <1>4, <1>5, <1>6, <1>7, <1>8, <1>9 DEF LabNext

\* It holds of every behaviour.
LEMMA LabInvHolds == LabSpec => []LabInv
  BY LabInitInv, LabNextInv, PTL DEF LabSpec

\* The lab is type correct, for any releases, pages and trials (strategy_lab.py,
\* model_registry.py).
THEOREM LabTypeCorrect == LabSpec => []LabTypeOK
<1>1. LabInv => LabTypeOK
  BY DEF LabInv
<1>2. QED
  BY LabInvHolds, <1>1, PTL

\* The evidence of an experiment is evidence for one manifest, for any releases.
THEOREM OneManifest == LabSpec => []EvidenceOfOneManifest
<1>1. LabInv => EvidenceOfOneManifest
  BY DEF LabInv
<1>2. QED
  BY LabInvHolds, <1>1, PTL

\* No trial before the registered boundary of its experiment counts as prospective.
THEOREM BoundaryKept == LabSpec => []CountedAfterBoundary
<1>1. LabInv => CountedAfterBoundary
  BY DEF LabInv, CountedAfterBoundary, Counted, EvidenceOfOneManifest, FlaggedByBoundary
<1>2. QED
  BY LabInvHolds, <1>1, PTL

\* However its two reads fall between the lab's transactions, the dashboard never
\* shows a link the lab recorded as broken.
THEOREM IntactLinksShownIntact == LabSpec => []NoFalseAlarm
<1>1. LabInv => NoFalseAlarm
  BY DEF LabInv
<1>2. QED
  BY LabInvHolds, <1>1, PTL

-----------------------------------------------------------------------------
(***************************************************************************)
(* ControlPlane.  For any administrators, keys and restarts, in layers:    *)
(* the types and the dashboard's validations hold whatever overlaps; no    *)
(* acknowledged setting is lost as long as no two edits overlap; updates   *)
(* exclude one another as long as no edit is completed beside one.         *)
(* ControlPlaneOverlap.cfg shows what happens otherwise.                   *)
(***************************************************************************)
\* An edit is on its way; what every key was promised is in a backup.
EditingNow(a) == edit[a].pc # "none"
SettingsSaved == \A k \in EnvKeys : \E file \in backups : file[k] = promised[k]

\* The types, and that an edit on its way has a key and a value.
PlaneTypes ==
    /\ PlaneTypeOK
    /\ \A a \in Admins : EditingNow(a) => edit[a].key \in EnvKeys /\ edit[a].value \in EnvValues

\* A validation that was requested is announced, and alone.
ValidationAlone ==
    /\ \A a, b \in Admins : validators[a] # "none" /\ validators[b] # "none" => a = b
    /\ \A a \in Admins : validators[a] # "none" => validation = "running"

\* While .env may be empty the backups hold every setting, and an edit alone knows the file.
SettingsKept ==
    /\ \A a, b \in Admins : EditingNow(a) /\ EditingNow(b) => a = b
    /\ NoSettingLost
    /\ \A a \in Admins :
          /\ edit[a].pc = "read" => edit[a].original = envFile
          /\ edit[a].pc \in {"backed", "emptied", "written"} => SettingsSaved
          /\ edit[a].pc = "written" => envFile[edit[a].key] = edit[a].value

\* An update that runs is alone, and announced.
UpdateAnnounced ==
    /\ \A a, b \in updates : a = b
    /\ updates # {} => lastAction = "running"

\* No edit is on its way while an update runs.
EditsApartFromUpdates == \A a \in Admins : EditingNow(a) => updates = {}

\* Steps that begin no edit beside another edit, and that complete none beside an update:
\* what the code leaves to the administrators, because update_setting takes no lock
\* before its last lines (admin_agent.py).
EditsApart == \A a \in Admins, k \in EnvKeys, v \in EnvValues :
                 BeginEdit(a, k, v) => \A b \in Admins : edit[b].pc = "none"
CompletedApart == \A a \in Admins : CompleteEdit(a) => updates = {}

\* Of the dashboard's validations one runs at a time.
OneValidationAtATime == Cardinality({a \in Admins : validators[a] = "running"}) <= 1

\* Nothing runs at the start, and the file has the first values.
LEMMA PlaneInitInv ==
    ASSUME PlaneInit
    PROVE  PlaneTypes /\ ValidationAlone /\ SettingsKept /\ UpdateAnnounced
           /\ EditsApartFromUpdates
<1>1. FirstValue \in EnvValues
  BY ControlPlaneAssumption DEF FirstValue
<1>2. NoEdit \in Edits /\ NoEdit.pc = "none"
  BY DEF NoEdit, Edits, File, Emptied
<1>3. \A a \in Admins : edit[a] = NoEdit
  BY DEF PlaneInit
<1>4. restarts \in 0..MaxRestarts
  BY ControlPlaneAssumption DEF PlaneInit
<1>5. PlaneTypes
  BY <1>1, <1>2, <1>3, <1>4 DEF PlaneInit, PlaneTypes, PlaneTypeOK, EditingNow, File
<1>6. ValidationAlone /\ UpdateAnnounced /\ EditsApartFromUpdates
  BY DEF PlaneInit, ValidationAlone, UpdateAnnounced, EditsApartFromUpdates
<1>7. SettingsKept
  BY <1>2, <1>3 DEF PlaneInit, SettingsKept, NoSettingLost, EditingNow
<1>8. QED
  BY <1>5, <1>6, <1>7

-----------------------------------------------------------------------------
(* The types.                                                              *)
LEMMA EditTyped ==
    ASSUME PlaneTypes, NEW a \in Admins, EditingNow(a),
           NEW step \in {"backed", "emptied", "written"},
           edit' = [edit EXCEPT ![a].pc = step]
    PROVE  /\ edit' \in [Admins -> Edits]
           /\ edit'[a].pc = step /\ edit'[a].key = edit[a].key
           /\ edit'[a].value = edit[a].value /\ edit'[a].original = edit[a].original
           /\ \A b \in Admins : b # a => edit'[b] = edit[b]
<1>1. edit \in [Admins -> Edits] /\ edit[a] \in Edits
  BY DEF PlaneTypes, PlaneTypeOK
<1>2. edit'[a] = [edit[a] EXCEPT !.pc = step] /\ \A b \in Admins : b # a => edit'[b] = edit[b]
  BY <1>1
<1>3. /\ edit'[a] \in Edits
      /\ edit'[a].pc = step /\ edit'[a].key = edit[a].key
      /\ edit'[a].value = edit[a].value /\ edit'[a].original = edit[a].original
  BY <1>1, <1>2 DEF Edits
<1>4. QED
  BY <1>1, <1>2, <1>3

\* Every step of the agent keeps the types of its memory and files.
LEMMA AgentTypes ==
    ASSUME PlaneTypes, NEW a \in Admins,
           (\E k \in EnvKeys, v \in EnvValues : BeginEdit(a, k, v))
              \/ EditStep(a) \/ StartUpdate(a) \/ FinishUpdate(a)
    PROVE  PlaneTypes'
<1> USE DEF PlaneTypes, PlaneTypeOK, EditingNow
<1>1. NoEdit \in Edits /\ NoEdit.pc = "none" /\ Emptied \in File
  BY DEF NoEdit, Edits, File, Emptied
<1>2. ASSUME NEW k \in EnvKeys, NEW v \in EnvValues, BeginEdit(a, k, v) PROVE PlaneTypes'
  <2> DEFINE e == [pc |-> "read", key |-> k, value |-> v, original |-> envFile]
  <2>1. e \in Edits /\ e.key = k /\ e.value = v
    BY DEF Edits
  <2>2. edit' = [edit EXCEPT ![a] = e]
        /\ UNCHANGED <<files, lastAction, updates, dashboardMemory, restarts>>
    BY <1>2 DEF BeginEdit
  <2> HIDE DEF e
  <2>3. edit' \in [Admins -> Edits] /\ edit'[a] = e /\ \A b \in Admins : b # a => edit'[b] = edit[b]
    BY <2>1, <2>2
  <2>4. QED
    BY <2>1, <2>2, <2>3 DEF files, dashboardMemory
<1>3. CASE BackUp(a)
  <2>1. edit[a].original \in File
    BY DEF Edits
  <2>2. EditingNow(a) /\ edit' = [edit EXCEPT ![a].pc = "backed"]
        /\ backups' = backups \cup {edit[a].original}
        /\ UNCHANGED <<envFile, promised, lastAction, updates, dashboardMemory, restarts>>
    BY <1>3 DEF BackUp
  <2>3. edit' \in [Admins -> Edits] /\ \A b \in Admins : b # a => edit'[b] = edit[b]
    BY <2>2, EditTyped
  <2>4. backups' \subseteq File
    BY <2>1, <2>2
  <2>5. QED
    BY <2>2, <2>3, <2>4 DEF dashboardMemory
<1>4. CASE EmptyEnvFile(a)
  <2>1. EditingNow(a) /\ edit' = [edit EXCEPT ![a].pc = "emptied"] /\ envFile' = Emptied
        /\ UNCHANGED <<backups, promised, lastAction, updates, dashboardMemory, restarts>>
    BY <1>4 DEF EmptyEnvFile
  <2>2. edit' \in [Admins -> Edits] /\ \A b \in Admins : b # a => edit'[b] = edit[b]
    BY <2>1, EditTyped
  <2>3. QED
    BY <1>1, <2>1, <2>2 DEF dashboardMemory
<1>5. CASE WriteEnvFile(a)
  <2>1. EditingNow(a) /\ edit' = [edit EXCEPT ![a].pc = "written"]
        /\ envFile' = [edit[a].original EXCEPT ![edit[a].key] = edit[a].value]
        /\ UNCHANGED <<backups, promised, lastAction, updates, dashboardMemory, restarts>>
    BY <1>5 DEF WriteEnvFile
  <2>2. edit[a].original \in File /\ edit[a].value \in EnvValues
    BY <2>1 DEF Edits
  <2>3. envFile' \in File
    BY <2>1, <2>2 DEF File
  <2>4. edit' \in [Admins -> Edits] /\ \A b \in Admins : b # a => edit'[b] = edit[b]
    BY <2>1, EditTyped
  <2>5. QED
    BY <2>1, <2>3, <2>4 DEF dashboardMemory
<1>6. CASE CompleteEdit(a)
  <2>1. EditingNow(a) /\ edit' = [edit EXCEPT ![a] = NoEdit] /\ lastAction' = "completed"
        /\ promised' = [promised EXCEPT ![edit[a].key] = edit[a].value]
        /\ UNCHANGED <<envFile, backups, updates, dashboardMemory, restarts>>
    BY <1>6 DEF CompleteEdit
  <2>2. promised' \in [EnvKeys -> EnvValues]
    BY <2>1
  <2>3. edit' \in [Admins -> Edits] /\ edit'[a] = NoEdit
        /\ \A b \in Admins : b # a => edit'[b] = edit[b]
    BY <1>1, <2>1
  <2>4. QED
    BY <1>1, <2>1, <2>2, <2>3 DEF dashboardMemory
<1>7. CASE StartUpdate(a)
  BY <1>7 DEF StartUpdate, files, dashboardMemory
<1>8. CASE FinishUpdate(a)
  BY <1>8 DEF FinishUpdate, files, dashboardMemory
<1>9. QED
  BY <1>2, <1>3, <1>4, <1>5, <1>6, <1>7, <1>8 DEF EditStep

\* Whatever overlaps, every step keeps the types and the dashboard's validations.
LEMMA PlaneTypesNext ==
    ASSUME PlaneTypes, ValidationAlone, [PlaneNext]_planeVars
    PROVE  PlaneTypes' /\ ValidationAlone'
<1>1. NoEdit \in Edits /\ NoEdit.pc = "none"
  BY DEF NoEdit, Edits, File, Emptied
<1>2. MaxRestarts \in Nat
  BY ControlPlaneAssumption
<1>3. ASSUME UNCHANGED <<files, agentMemory>>,
             PlaneTypeOK' PROVE PlaneTypes'
  BY <1>3 DEF PlaneTypes, EditingNow, files, agentMemory
<1>4. ASSUME UNCHANGED dashboardMemory PROVE ValidationAlone'
  BY <1>4 DEF ValidationAlone, dashboardMemory
<1>5. CASE UNCHANGED planeVars
  <2>1. UNCHANGED <<files, agentMemory, restarts>> /\ UNCHANGED dashboardMemory
    BY <1>5 DEF planeVars
  <2>2. PlaneTypeOK'
    BY <2>1 DEF PlaneTypes, PlaneTypeOK, files, agentMemory, dashboardMemory
  <2>3. QED
    BY <1>3, <1>4, <2>1, <2>2
<1>6. ASSUME NEW a \in Admins,
             (\E k \in EnvKeys, v \in EnvValues : BeginEdit(a, k, v))
                \/ EditStep(a) \/ StartUpdate(a) \/ FinishUpdate(a)
      PROVE  PlaneTypes' /\ ValidationAlone'
  <2>1. UNCHANGED dashboardMemory
    BY <1>6 DEF BeginEdit, EditStep, BackUp, EmptyEnvFile, WriteEnvFile, CompleteEdit,
                StartUpdate, FinishUpdate
  <2>2. QED
    BY <1>4, <1>6, <2>1, AgentTypes
<1>7. ASSUME NEW a \in Admins,
             RequestValidation(a) \/ StartValidation(a) \/ EventRaises(a) \/ FinishValidation(a)
      PROVE  PlaneTypes' /\ ValidationAlone'
  <2>1. UNCHANGED <<files, agentMemory, restarts>>
    BY <1>7 DEF RequestValidation, StartValidation, EventRaises, FinishValidation
  <2>2. validators \in [Admins -> {"none", "starting", "running"}]
        /\ validation \in {"idle", "running", "completed", "failed"}
    BY DEF PlaneTypes, PlaneTypeOK
  <2>3. /\ validators' \in [Admins -> {"none", "starting", "running"}]
        /\ validation' \in {"idle", "running", "completed", "failed"} /\ ValidationAlone'
    <3>1. CASE RequestValidation(a)
      BY <2>2, <3>1 DEF RequestValidation, ValidationAlone
    <3>2. CASE StartValidation(a)
      BY <2>2, <3>2 DEF StartValidation, ValidationAlone
    <3>3. CASE EventRaises(a)
      BY <2>2, <3>3 DEF EventRaises, ValidationAlone
    <3>4. CASE FinishValidation(a)
      BY <2>2, <3>4 DEF FinishValidation, ValidationAlone
    <3>5. QED
      BY <1>7, <3>1, <3>2, <3>3, <3>4
  <2>4. PlaneTypeOK'
    BY <2>1, <2>3 DEF PlaneTypes, PlaneTypeOK, files, agentMemory
  <2>5. QED
    BY <1>3, <2>1, <2>3, <2>4
<1>8. CASE RestartAgent
  <2>1. /\ lastAction' = "idle" /\ updates' = {} /\ edit' = [b \in Admins |-> NoEdit]
        /\ UNCHANGED files /\ UNCHANGED dashboardMemory
        /\ restarts < MaxRestarts /\ restarts' = restarts + 1
    BY <1>8 DEF RestartAgent
  <2>2. restarts' \in 0..MaxRestarts
    BY <1>2, <2>1 DEF PlaneTypes, PlaneTypeOK
  <2>3. PlaneTypes'
    BY <1>1, <2>1, <2>2 DEF PlaneTypes, PlaneTypeOK, EditingNow, files, dashboardMemory
  <2>4. QED
    BY <1>4, <2>1, <2>3
<1>9. CASE RecreateDashboard
  <2>1. /\ validation' = "idle" /\ validators' = [b \in Admins |-> "none"]
        /\ UNCHANGED <<files, agentMemory>>
        /\ restarts < MaxRestarts /\ restarts' = restarts + 1
    BY <1>9 DEF RecreateDashboard
  <2>2. restarts' \in 0..MaxRestarts
    BY <1>2, <2>1 DEF PlaneTypes, PlaneTypeOK
  <2>3. PlaneTypeOK' /\ ValidationAlone'
    BY <2>1, <2>2 DEF PlaneTypes, PlaneTypeOK, ValidationAlone, files, agentMemory
  <2>4. QED
    BY <1>3, <2>1, <2>3
<1>10. QED
  BY <1>5, <1>6, <1>7, <1>8, <1>9 DEF PlaneNext, ActionStep

\* They hold of every behaviour.
LEMMA PlaneTypesHold == PlaneSpec => [](PlaneTypes /\ ValidationAlone)
BY PlaneInitInv, PlaneTypesNext, PTL DEF PlaneSpec

\* ControlPlane is type correct, for any administrators, keys and restarts and however
\* their actions overlap (admin_agent.py, the dashboard's action_status).
THEOREM PlaneTypeCorrect == PlaneSpec => []PlaneTypeOK
<1>1. PlaneTypes => PlaneTypeOK
  BY DEF PlaneTypes
<1>2. QED
  BY <1>1, PlaneTypesHold, PTL

\* Two validations never run at once, whatever administrators ask for, whichever event
\* cannot be recorded and whenever the dashboard is recreated
\* (dashboard.py request_accelerated_validation).
THEOREM ValidationsExclusive == PlaneSpec => []OneValidationAtATime
<1>1. ValidationAlone => OneValidationAtATime
  <2>1. SUFFICES ASSUME ValidationAlone PROVE OneValidationAtATime
    OBVIOUS
  <2> DEFINE R == {a \in Admins : validators[a] = "running"}
  <2>2. \A x, y \in R : x = y
    BY <2>1 DEF ValidationAlone
  <2> HIDE DEF R
  <2>3. Cardinality(R) <= 1
    BY <2>2, AtMostOne
  <2>4. QED
    BY <2>3 DEF R, OneValidationAtATime
<1>2. QED
  BY <1>1, PlaneTypesHold, PTL

-----------------------------------------------------------------------------
(* What is shown as running: an update always has its thread, and a        *)
(* validation loses its own only where its start cannot be recorded.       *)
UpdateAtWork == lastAction = "running" => updates # {}

\* An update that ends says so itself, and a new one is shown and at work at once.
LEMMA UpdateAtWorkNext ==
    ASSUME UpdateAtWork, [PlaneNext]_planeVars
    PROVE  UpdateAtWork'
<1>1. ASSUME UNCHANGED <<lastAction, updates>> PROVE UpdateAtWork'
  BY <1>1 DEF UpdateAtWork
<1>2. CASE UNCHANGED planeVars
  BY <1>1, <1>2 DEF planeVars, agentMemory
<1>3. ASSUME NEW a \in Admins,
             (\E k \in EnvKeys, v \in EnvValues : BeginEdit(a, k, v))
                \/ EditStep(a) \/ StartUpdate(a) \/ FinishUpdate(a)
      PROVE  UpdateAtWork'
  BY <1>1, <1>3 DEF BeginEdit, EditStep, BackUp, EmptyEnvFile, WriteEnvFile, CompleteEdit,
                    StartUpdate, FinishUpdate, UpdateAtWork
<1>4. ASSUME NEW a \in Admins,
             RequestValidation(a) \/ StartValidation(a) \/ EventRaises(a) \/ FinishValidation(a)
      PROVE  UpdateAtWork'
  BY <1>1, <1>4 DEF RequestValidation, StartValidation, EventRaises, FinishValidation, agentMemory
<1>5. CASE RestartAgent \/ RecreateDashboard
  BY <1>1, <1>5 DEF RestartAgent, RecreateDashboard, agentMemory, UpdateAtWork
<1>6. QED
  BY <1>2, <1>3, <1>4, <1>5 DEF PlaneNext, ActionStep

\* A status is left at "running" without work in one way only, and stays so until the
\* dashboard is recreated, for any administrators and restarts and however edits,
\* updates and validations overlap (dashboard.py request_accelerated_validation,
\* _run_accelerated_validation_action; admin_agent.py start_update, _run_update).
THEOREM StuckOnlyByFailedEvent == PlaneSpec => StuckByFailedEvent
<1> DEFINE Unattended == validation = "running" /\ \A a \in Admins : validators[a] = "none"
           Step == /\ ~ RunningInVain /\ RunningInVain' => \E a \in Admins : EventRaises(a)
                   /\ RunningInVain /\ ~ RunningInVain' => RecreateDashboard
<1>1. ASSUME UpdateAtWork, UpdateAtWork'
      PROVE  (RunningInVain <=> Unattended) /\ (RunningInVain' <=> Unattended')
  BY <1>1 DEF UpdateAtWork, RunningInVain
<1>2. ASSUME PlaneTypes, PlaneNext
      PROVE  \/ Unattended' <=> Unattended
             \/ \E a \in Admins : EventRaises(a)
             \/ RecreateDashboard /\ ~ Unattended'
  <2>1. validators \in [Admins -> {"none", "starting", "running"}]
    BY <1>2 DEF PlaneTypes, PlaneTypeOK
  <2>2. ASSUME UNCHANGED dashboardMemory PROVE Unattended' <=> Unattended
    BY <2>2 DEF dashboardMemory
  <2>3. ASSUME NEW a \in Admins,
               (\E k \in EnvKeys, v \in EnvValues : BeginEdit(a, k, v))
                  \/ EditStep(a) \/ StartUpdate(a) \/ FinishUpdate(a)
        PROVE  Unattended' <=> Unattended
    BY <2>2, <2>3 DEF BeginEdit, EditStep, BackUp, EmptyEnvFile, WriteEnvFile, CompleteEdit,
                      StartUpdate, FinishUpdate
  <2>4. ASSUME NEW a \in Admins,
               RequestValidation(a) \/ StartValidation(a) \/ FinishValidation(a)
        PROVE  ~ Unattended /\ ~ Unattended'
    BY <2>1, <2>4 DEF RequestValidation, StartValidation, FinishValidation
  <2>5. CASE RestartAgent
    BY <2>2, <2>5 DEF RestartAgent
  <2>6. CASE RecreateDashboard
    BY <2>6 DEF RecreateDashboard
  <2>7. QED
    BY <1>2, <2>3, <2>4, <2>5, <2>6 DEF PlaneNext, ActionStep
<1>3. ASSUME PlaneTypes, NEW a \in Admins, EventRaises(a) PROVE ~ Unattended
  BY <1>3 DEF EventRaises
<1> HIDE DEF Unattended
<1>4. PlaneTypes /\ UpdateAtWork /\ UpdateAtWork' /\ [PlaneNext]_planeVars => [Step]_planeVars
  <2> SUFFICES ASSUME PlaneTypes, UpdateAtWork, UpdateAtWork', PlaneNext PROVE Step
    OBVIOUS
  <2>1. (RunningInVain <=> Unattended) /\ (RunningInVain' <=> Unattended')
    BY <1>1
  <2>2. QED
    BY <1>2, <1>3, <2>1
<1>5. PlaneInit => UpdateAtWork
  BY DEF PlaneInit, UpdateAtWork
<1>6. UpdateAtWork /\ [PlaneNext]_planeVars => UpdateAtWork'
  BY UpdateAtWorkNext
<1>7. QED
  BY <1>4, <1>5, <1>6, PlaneTypesHold, PTL DEF PlaneSpec, StuckByFailedEvent

-----------------------------------------------------------------------------
(* The settings: an edit moves alone.                                      *)
\* What every step of an edit but its first and last keeps.
LEMMA EditStays ==
    ASSUME PlaneTypes, SettingsKept, NEW a \in Admins, EditingNow(a),
           NEW step \in {"backed", "emptied", "written"},
           edit' = [edit EXCEPT ![a].pc = step]
    PROVE  /\ edit'[a].pc = step /\ edit'[a].key = edit[a].key
           /\ edit'[a].value = edit[a].value /\ edit'[a].original = edit[a].original
           /\ \A b \in Admins : b # a => edit'[b].pc = "none"
<1>1. \A b \in Admins : b # a => edit[b].pc = "none"
  BY DEF SettingsKept, EditingNow
<1>2. QED
  BY <1>1, EditTyped

\* The files stay in order when the backups hold every setting.
LEMMA SavedKeeps ==
    ASSUME NEW a \in Admins, SettingsSaved, UNCHANGED <<backups, promised>>,
           edit'[a].pc \in {"emptied", "written"}, edit'[a].key = edit[a].key,
           edit'[a].value = edit[a].value,
           edit'[a].pc = "written" => envFile'[edit[a].key] = edit[a].value,
           \A b \in Admins : b # a => edit'[b].pc = "none"
    PROVE  SettingsKept'
<1>1. SettingsSaved' /\ NoSettingLost'
  BY DEF SettingsSaved, NoSettingLost
<1>2. QED
  BY <1>1 DEF SettingsKept, EditingNow

\* Each step of an edit keeps the settings: the backup is made before the file is emptied,
\* and the value is in the file before it is promised.
LEMMA EditKeeps ==
    ASSUME PlaneTypes, SettingsKept, NEW a \in Admins, EditStep(a)
    PROVE  SettingsKept'
<1>1. CASE BackUp(a)
  <2>1. /\ edit[a].pc = "read" /\ backups' = backups \cup {edit[a].original}
        /\ envFile' = envFile /\ promised' = promised
        /\ edit' = [edit EXCEPT ![a].pc = "backed"]
    BY <1>1 DEF BackUp
  <2>2. EditingNow(a) /\ edit[a].original = envFile
    BY <2>1 DEF SettingsKept, EditingNow
  <2>3. SettingsSaved' /\ NoSettingLost'
    BY <2>1, <2>2 DEF SettingsKept, NoSettingLost, SettingsSaved
  <2>4. edit'[a].pc = "backed" /\ \A b \in Admins : b # a => edit'[b].pc = "none"
    BY <2>1, <2>2, EditStays
  <2>5. QED
    BY <2>3, <2>4 DEF SettingsKept, EditingNow
<1>2. CASE EmptyEnvFile(a)
  <2>1. /\ edit[a].pc = "backed" /\ backups' = backups /\ promised' = promised
        /\ edit' = [edit EXCEPT ![a].pc = "emptied"]
    BY <1>2 DEF EmptyEnvFile
  <2>2. EditingNow(a) /\ SettingsSaved
    BY <2>1 DEF SettingsKept, EditingNow
  <2>3. QED
    BY <2>1, <2>2, EditStays, SavedKeeps
<1>3. CASE WriteEnvFile(a)
  <2>1. /\ edit[a].pc = "emptied" /\ backups' = backups /\ promised' = promised
        /\ envFile' = [edit[a].original EXCEPT ![edit[a].key] = edit[a].value]
        /\ edit' = [edit EXCEPT ![a].pc = "written"]
    BY <1>3 DEF WriteEnvFile
  <2>2. /\ EditingNow(a) /\ SettingsSaved /\ edit[a].original \in File
        /\ edit[a].key \in EnvKeys
    BY <2>1 DEF PlaneTypes, PlaneTypeOK, SettingsKept, EditingNow, Edits
  <2>3. envFile'[edit[a].key] = edit[a].value
    BY <2>1, <2>2 DEF File
  <2>4. QED
    BY <2>1, <2>2, <2>3, EditStays, SavedKeeps
<1>4. CASE CompleteEdit(a)
  <2>1. /\ edit[a].pc = "written" /\ envFile' = envFile /\ backups' = backups
        /\ promised' = [promised EXCEPT ![edit[a].key] = edit[a].value]
        /\ edit' = [edit EXCEPT ![a] = NoEdit]
    BY <1>4 DEF CompleteEdit
  <2>2. /\ SettingsSaved /\ envFile[edit[a].key] = edit[a].value
        /\ \A b \in Admins : b # a => edit[b].pc = "none"
    BY <2>1 DEF SettingsKept, EditingNow
  <2>3. NoSettingLost'
    BY <2>1, <2>2 DEF PlaneTypes, PlaneTypeOK, NoSettingLost, SettingsSaved
  <2>4. \A b \in Admins : edit'[b].pc = "none"
    BY <2>1, <2>2 DEF PlaneTypes, PlaneTypeOK, NoEdit
  <2>5. QED
    BY <2>3, <2>4 DEF SettingsKept, EditingNow
<1>5. QED
  BY <1>1, <1>2, <1>3, <1>4 DEF EditStep

\* Where edits begin apart, every step keeps the settings.
LEMMA SettingsNext ==
    ASSUME PlaneTypes, SettingsKept, [PlaneNext]_planeVars, [EditsApart]_planeVars
    PROVE  SettingsKept'
<1>1. ASSUME UNCHANGED <<files, edit>> PROVE SettingsKept'
  BY <1>1 DEF SettingsKept, EditingNow, NoSettingLost, SettingsSaved, files
<1>2. CASE UNCHANGED planeVars
  BY <1>1, <1>2 DEF planeVars, agentMemory
<1>3. ASSUME NEW a \in Admins, NEW k \in EnvKeys, NEW v \in EnvValues, BeginEdit(a, k, v)
      PROVE  SettingsKept'
  <2> DEFINE e == [pc |-> "read", key |-> k, value |-> v, original |-> envFile]
  <2>1. edit' = [edit EXCEPT ![a] = e] /\ UNCHANGED files /\ edit[a].pc = "none"
    BY <1>3 DEF BeginEdit
  <2>2. e.pc = "read" /\ e.original = envFile
    OBVIOUS
  <2> HIDE DEF e
  <2>3. edit'[a] = e /\ \A b \in Admins : b # a => edit'[b] = edit[b]
    BY <2>1 DEF PlaneTypes, PlaneTypeOK
  <2>4. edit' # edit
    BY <2>1, <2>2, <2>3
  <2>5. \A b \in Admins : edit[b].pc = "none"
    BY <1>3, <2>4 DEF EditsApart, planeVars, agentMemory
  <2>6. \A b \in Admins : b # a => edit'[b].pc = "none"
    BY <2>3, <2>5
  <2>7. NoSettingLost'
    BY <2>1 DEF SettingsKept, NoSettingLost, files
  <2>8. QED
    BY <2>1, <2>2, <2>3, <2>6, <2>7 DEF SettingsKept, EditingNow, files
<1>4. ASSUME NEW a \in Admins,
             StartUpdate(a) \/ FinishUpdate(a) \/ RequestValidation(a)
                \/ StartValidation(a) \/ EventRaises(a) \/ FinishValidation(a)
      PROVE  SettingsKept'
  BY <1>1, <1>4 DEF StartUpdate, FinishUpdate, RequestValidation, StartValidation,
                    EventRaises, FinishValidation, agentMemory
<1>5. CASE RestartAgent
  <2>1. UNCHANGED files /\ \A a \in Admins : edit'[a].pc = "none"
    BY <1>5 DEF RestartAgent, NoEdit
  <2>2. NoSettingLost'
    BY <2>1 DEF SettingsKept, NoSettingLost, files
  <2>3. QED
    BY <2>1, <2>2 DEF SettingsKept, EditingNow
<1>6. CASE RecreateDashboard
  BY <1>1, <1>6 DEF RecreateDashboard, agentMemory
<1>7. QED
  BY <1>2, <1>3, <1>4, <1>5, <1>6, EditKeeps DEF PlaneNext, ActionStep

\* Every acknowledged setting can be read in .env or in a backup, wherever the agent dies
\* while it rewrites .env, in every behaviour in which no edit begins while another is on
\* its way: server updates and validations may run beside it, and edits that overlap are
\* all that a setting can be lost to (AdminAgentState.update_setting).
THEOREM EditsApartSuffice == PlaneSpec /\ [][EditsApart]_planeVars => []NoSettingLost
<1>1. PlaneTypes /\ SettingsKept /\ [PlaneNext]_planeVars /\ [EditsApart]_planeVars
         => SettingsKept'
  BY SettingsNext
<1>2. SettingsKept => NoSettingLost
  BY DEF SettingsKept
<1>3. QED
  BY <1>1, <1>2, PlaneInitInv, PlaneTypesHold, PTL DEF PlaneSpec

-----------------------------------------------------------------------------
(* The updates.                                                            *)
\* Where no edit is completed beside one, an update is alone and announced.
LEMMA UpdatesNext ==
    ASSUME UpdateAnnounced, [PlaneNext]_planeVars, [CompletedApart]_planeVars
    PROVE  UpdateAnnounced'
<1>1. ASSUME UNCHANGED <<lastAction, updates>> PROVE UpdateAnnounced'
  BY <1>1 DEF UpdateAnnounced
<1>2. CASE UNCHANGED planeVars
  BY <1>1, <1>2 DEF planeVars, agentMemory
<1>3. ASSUME NEW a \in Admins,
             (\E k \in EnvKeys, v \in EnvValues : BeginEdit(a, k, v))
                \/ BackUp(a) \/ EmptyEnvFile(a) \/ WriteEnvFile(a) \/ RequestValidation(a)
                \/ StartValidation(a) \/ EventRaises(a) \/ FinishValidation(a)
      PROVE  UpdateAnnounced'
  BY <1>1, <1>3 DEF BeginEdit, BackUp, EmptyEnvFile, WriteEnvFile, RequestValidation,
                    StartValidation, EventRaises, FinishValidation, agentMemory
<1>4. ASSUME NEW a \in Admins, CompleteEdit(a) PROVE UpdateAnnounced'
  <2>1. updates' = updates
    BY <1>4 DEF CompleteEdit
  <2>2. CASE UNCHANGED planeVars
    BY <1>2, <2>2
  <2>3. CASE ~ UNCHANGED planeVars
    BY <1>4, <2>1, <2>3 DEF CompletedApart, UpdateAnnounced
  <2>4. QED
    BY <2>2, <2>3
<1>5. ASSUME NEW a \in Admins, StartUpdate(a) PROVE UpdateAnnounced'
  BY <1>5 DEF StartUpdate, Startable, UpdateAnnounced
<1>6. ASSUME NEW a \in Admins, FinishUpdate(a) PROVE UpdateAnnounced'
  BY <1>6 DEF FinishUpdate, UpdateAnnounced
<1>7. CASE RestartAgent
  BY <1>7 DEF RestartAgent, UpdateAnnounced
<1>8. CASE RecreateDashboard
  BY <1>1, <1>8 DEF RecreateDashboard, agentMemory
<1>9. QED
  BY <1>2, <1>3, <1>4, <1>5, <1>6, <1>7, <1>8 DEF PlaneNext, ActionStep, EditStep

\* Neither two updates nor two validations run at once in any behaviour in which no edit
\* is completed while an update runs: the "completed" of an edit is all that can hide a
\* running update from start_update (admin_agent.py).
THEOREM CompletedApartSuffices ==
    PlaneSpec /\ [][CompletedApart]_planeVars => []ActionsExclusive
<1>1. UpdateAnnounced /\ [PlaneNext]_planeVars /\ [CompletedApart]_planeVars
         => UpdateAnnounced'
  BY UpdatesNext
<1>2. UpdateAnnounced => OneUpdateAtATime
  BY AtMostOne DEF UpdateAnnounced, OneUpdateAtATime
<1>3. OneUpdateAtATime /\ OneValidationAtATime => ActionsExclusive
  BY DEF ActionsExclusive, OneValidationAtATime
<1>4. QED
  BY <1>1, <1>2, <1>3, PlaneInitInv, ValidationsExclusive, PTL DEF PlaneSpec

-----------------------------------------------------------------------------
\* While settings are edited only between other actions, no two updates and no two
\* validations run at once (AdminAgentState.start_update, the dashboard's
\* request_accelerated_validation), whatever restarts.
THEOREM ActionsStayExclusive == ASSUME ~ Overlap PROVE PlaneSpec => []ActionsExclusive
<1>1. ASSUME PlaneTypes, EditsApartFromUpdates, [PlaneNext]_planeVars
      PROVE  EditsApartFromUpdates'
  <2>1. ASSUME NEW a \in Admins, StartUpdate(a) PROVE EditsApartFromUpdates'
    BY <2>1 DEF StartUpdate, EditsApartFromUpdates, EditingNow
  <2>2. ASSUME NEW a \in Admins, FinishUpdate(a) PROVE EditsApartFromUpdates'
    BY <1>1, <2>2 DEF FinishUpdate, EditsApartFromUpdates, EditingNow
  <2>3. ASSUME NEW a \in Admins, NEW k \in EnvKeys, NEW v \in EnvValues, BeginEdit(a, k, v)
        PROVE  EditsApartFromUpdates'
    BY <2>3 DEF BeginEdit, NoActionInProgress, EditsApartFromUpdates
  <2>4. ASSUME NEW a \in Admins, EditStep(a) PROVE EditsApartFromUpdates'
    <3>1. EditingNow(a) /\ updates' = updates
      BY <2>4 DEF EditStep, BackUp, EmptyEnvFile, WriteEnvFile, CompleteEdit, EditingNow
    <3>2. QED
      BY <1>1, <3>1 DEF EditsApartFromUpdates
  <2>5. ASSUME NEW a \in Admins,
               RequestValidation(a) \/ StartValidation(a) \/ EventRaises(a) \/ FinishValidation(a)
        PROVE  EditsApartFromUpdates'
    BY <1>1, <2>5 DEF RequestValidation, StartValidation, EventRaises, FinishValidation, agentMemory,
                      EditsApartFromUpdates, EditingNow
  <2>6. CASE RestartAgent
    BY <2>6 DEF RestartAgent, EditsApartFromUpdates
  <2>7. CASE RecreateDashboard \/ UNCHANGED planeVars
    BY <1>1, <2>7 DEF RecreateDashboard, planeVars, agentMemory, EditsApartFromUpdates,
                      EditingNow
  <2>8. QED
    BY <1>1, <2>1, <2>2, <2>3, <2>4, <2>5, <2>6, <2>7 DEF PlaneNext, ActionStep
<1>2. EditsApartFromUpdates => CompletedApart
  BY DEF EditsApartFromUpdates, CompletedApart, CompleteEdit, EditingNow
<1>3. QED
  BY <1>1, <1>2, PlaneInitInv, PlaneTypesHold, CompletedApartSuffices, PTL DEF PlaneSpec

\* Under the same condition every acknowledged setting can be read in .env or in a
\* backup, wherever the agent dies while it rewrites .env
\* (AdminAgentState.update_setting).
THEOREM SettingsStay == ASSUME ~ Overlap PROVE PlaneSpec => []NoSettingLost
<1>1. EditsApart
  BY DEF EditsApart, BeginEdit, NoActionInProgress
<1>2. QED
  BY <1>1, EditsApartSuffice, PTL
-----------------------------------------------------------------------------
(***************************************************************************)
(* ServiceLoop.  The loop keeps its promise to the accounts step by step:  *)
(* whoever fails, and whatever happens to the database, a cycle that gets  *)
(* to its aggregate has run every account once.                            *)
(***************************************************************************)
\* The accounts of a cycle so far have each succeeded or failed, and none is skipped.
CycleKept ==
    /\ loopOk \cap loopFailed = {}
    /\ loopPc = "account" => loopOk \cup loopFailed = 1..(loopNext - 1)
    /\ loopPc = "failure" => loopNext \in AccountIndices /\ loopOk \cup loopFailed = 1..loopNext

\* The inductive invariant of ServiceLoop.
LoopInv == LoopTypeOK /\ CycleKept

\* Nothing has run, and nothing is written.
LEMMA LoopInitInv == LoopInit => LoopInv
BY LoopAssumption DEF LoopInit, LoopInv, LoopTypeOK, CycleKept, AccountIndices

\* An account that has run is the next one of its cycle, and was not counted before.
LEMMA AccountStep ==
    ASSUME LoopInv, AccountSucceeds \/ AccountRaises
    PROVE  LoopInv'
<1> USE DEF LoopInv
<1>1. /\ AccountIndices = 1..Len(LoopAccounts) /\ Len(LoopAccounts) \in Nat
      /\ loopNext \in AccountIndices /\ loopNext \in Nat
      /\ loopPc = "account" /\ loopOk \cup loopFailed = 1..(loopNext - 1)
  BY LoopAssumption DEF AccountSucceeds, AccountRaises, AccountIndices, LoopTypeOK, CycleKept
<1>2. loopNext \notin loopOk \cup loopFailed /\ 1..loopNext = 1..(loopNext - 1) \cup {loopNext}
  BY <1>1
<1>3. healthAge' \in 0..(MaxHealthAge + 1) /\ health' \in HealthStatuses \cup {"missing"}
  BY LoopAssumption
     DEF AccountSucceeds, AccountRaises, WriteHealth, healthFile, HealthStatuses, LoopTypeOK
<1>4. CASE AccountSucceeds
  <2>1. /\ loopOk' = loopOk \cup {loopNext} /\ loopFailed' = loopFailed
        /\ loopNext' = loopNext + 1 /\ loopPc' = "account"
        /\ UNCHANGED <<loopKind, broken, databaseUp>>
    BY <1>1, <1>4 DEF AccountSucceeds, environment
  <2>2. loopOk' \cup loopFailed' = 1..loopNext /\ loopNext' - 1 = loopNext
        /\ loopNext' \in 1..(Len(LoopAccounts) + 1)
    BY <1>1, <1>2, <2>1
  <2>3. CycleKept'
    BY <1>1, <1>2, <2>1, <2>2 DEF CycleKept
  <2>4. LoopTypeOK'
    BY <1>1, <1>3, <2>1, <2>2 DEF LoopTypeOK, AccountIndices
  <2>5. QED
    BY <2>3, <2>4
<1>5. CASE AccountRaises
  <2>1. /\ loopFailed' = loopFailed \cup {loopNext} /\ loopOk' = loopOk
        /\ loopNext' = loopNext /\ loopPc' = "failure"
        /\ UNCHANGED <<loopKind, broken, databaseUp>>
    BY <1>1, <1>5 DEF AccountRaises, LoopGoto, environment
  <2>2. loopOk' \cup loopFailed' = 1..loopNext
    BY <1>1, <1>2, <2>1
  <2>3. CycleKept'
    BY <1>1, <1>2, <2>1, <2>2 DEF CycleKept, AccountIndices
  <2>4. LoopTypeOK'
    BY <1>1, <1>3, <2>1 DEF LoopTypeOK, AccountIndices
  <2>5. QED
    BY <2>3, <2>4
<1>6. QED
  BY <1>4, <1>5

\* A failure that is recorded lets the next account run; one that is not ends the cycle.
LEMMA FailureStep == ASSUME LoopInv, RecordFailure PROVE LoopInv'
<1> USE DEF LoopInv
<1>1. /\ loopPc = "failure" /\ loopNext \in 1..Len(LoopAccounts) /\ Len(LoopAccounts) \in Nat
      /\ loopOk \cup loopFailed = 1..loopNext
      /\ UNCHANGED <<loopKind, loopOk, loopFailed, healthFile, broken, databaseUp>>
  BY LoopAssumption DEF RecordFailure, AccountIndices, CycleKept, environment
<1>2. \/ loopNext' = loopNext + 1 /\ loopPc' = "account"
      \/ loopNext' = loopNext /\ loopPc' \in {"raised", "dead"}
  BY DEF RecordFailure, LoopGoto
<1>3. loopNext' \in 1..(Len(LoopAccounts) + 1) /\ (loopPc' = "account" => loopNext' - 1 = loopNext)
  BY <1>1, <1>2
<1>4. CycleKept'
  BY <1>1, <1>2, <1>3 DEF CycleKept
<1>5. LoopTypeOK'
  BY <1>1, <1>2, <1>3 DEF LoopTypeOK, healthFile
<1>6. QED
  BY <1>4, <1>5

\* The inductive step.
LEMMA LoopNextInv == LoopInv /\ [LoopNext]_loopVars => LoopInv'
<1> SUFFICES ASSUME LoopInv, [LoopNext]_loopVars PROVE LoopInv'
  OBVIOUS
<1> USE DEF LoopInv
<1>1. CASE AccountSucceeds \/ AccountRaises
  BY <1>1, AccountStep
<1>2. CASE RecordFailure
  BY <1>2, FailureStep
<1>3. CASE BeginLoop \/ RestartWorker
  <2>1. /\ loopNext' = 1 /\ loopOk' = {} /\ loopFailed' = {}
        /\ loopPc' \in {"account", "sleep"}
        /\ UNCHANGED <<loopKind, healthFile, environment>>
    BY <1>3 DEF BeginLoop, RestartWorker, LoopGoto
  <2>2. QED
    BY <2>1, LoopAssumption
       DEF LoopTypeOK, CycleKept, AccountIndices, healthFile, environment
<1>4. CASE WriteAggregate \/ RecordComplete \/ HandleRaised
  <2>1. /\ UNCHANGED <<loopKind, loopNext, loopOk, loopFailed, environment>>
        /\ loopPc' \in {"complete", "sleep", "raised"}
        /\ health' \in HealthStatuses \cup {"missing"} /\ healthAge' \in 0..(MaxHealthAge + 1)
    BY <1>4, LoopAssumption
       DEF WriteAggregate, RecordComplete, HandleRaised, LoopGoto, WriteHealth, Aggregate,
           HealthStatuses, LoopTypeOK, healthFile
  <2>2. QED
    BY <2>1 DEF LoopTypeOK, CycleKept, environment
<1>5. CASE AgeHealth
  <2>1. healthAge' \in 0..(MaxHealthAge + 1) /\ UNCHANGED <<loopKind, loopControl, health, environment>>
    BY <1>5, LoopAssumption DEF AgeHealth, LoopTypeOK
  <2>2. QED
    BY <2>1 DEF LoopTypeOK, CycleKept, loopControl, environment
<1>6. CASE (\E a \in AccountIndices : ChangeAccount(a)) \/ ChangeDatabase
  <2>1. /\ broken' \subseteq AccountIndices /\ databaseUp' \in BOOLEAN
        /\ UNCHANGED <<loopKind, loopControl, healthFile>>
    BY <1>6 DEF ChangeAccount, ChangeDatabase, LoopTypeOK
  <2>2. QED
    BY <2>1 DEF LoopTypeOK, CycleKept, loopControl, healthFile
<1>7. CASE UNCHANGED loopVars
  BY <1>7 DEF loopVars, loopControl, healthFile, environment, LoopTypeOK, CycleKept
<1>8. QED
  BY <1>1, <1>2, <1>3, <1>4, <1>5, <1>6, <1>7 DEF LoopNext, LoopStep

\* The invariant holds of every behaviour.
LEMMA LoopInvHolds == LoopSpec => []LoopInv
BY LoopInitInv, LoopNextInv, PTL DEF LoopSpec

\* The loop never asks for an account it does not have, and the file never says anything
\* but its three statuses (cli.py _run; health.py write_health).
THEOREM LoopTypeCorrect == LoopSpec => []LoopTypeOK
<1>1. LoopInv => LoopTypeOK
  BY DEF LoopInv
<1>2. QED
  BY <1>1, LoopInvHolds, PTL

\* A cycle that gets to its aggregate has run every account, each once.
EveryAccountRuns ==
    [][ WriteAggregate =>
          loopOk \cup loopFailed = AccountIndices /\ loopOk \cap loopFailed = {} ]_loopVars

\* Where no account's own cycle writes the file, "ok" is written only after a cycle in
\* which every account succeeded.
OkAfterFullCycle ==
    [][ ~ AccountWritesHealth /\ health' = "ok" /\ healthAge' = 0 /\ healthFile' # healthFile
          => loopOk = AccountIndices /\ loopFailed = {} ]_loopVars

\* A cycle in which every account has had its turn covers them all.
LEMMA AllRan ==
    ASSUME LoopInv, WriteAggregate
    PROVE  loopOk \cup loopFailed = AccountIndices /\ loopOk \cap loopFailed = {}
<1>1. /\ Len(LoopAccounts) \in Nat /\ AccountIndices = 1..Len(LoopAccounts)
      /\ loopNext \in 1..(Len(LoopAccounts) + 1) /\ loopNext > Len(LoopAccounts)
      /\ loopOk \cup loopFailed = 1..(loopNext - 1)
  BY LoopAssumption
     DEF LoopInv, LoopTypeOK, CycleKept, WriteAggregate, AccountIndices
<1>2. loopNext - 1 = Len(LoopAccounts)
  BY <1>1
<1>3. QED
  BY <1>1, <1>2 DEF LoopInv, CycleKept

\* "Remaining accounts still run" (src/docs/MULTI_ACCOUNT_OPERATIONS.md): whichever
\* accounts fail and whenever the database does, no account is skipped or counted twice
\* in a cycle whose aggregate is written (cli.py _run, _run_account_services_cycle;
\* automation.py PaperAutomationSupervisor.run_cycle).
THEOREM NoAccountSkipped == LoopSpec => EveryAccountRuns
<1>1. LoopInv /\ [LoopNext]_loopVars =>
        [WriteAggregate =>
           loopOk \cup loopFailed = AccountIndices /\ loopOk \cap loopFailed = {}]_loopVars
  BY AllRan
<1>2. QED
  BY <1>1, LoopInvHolds, PTL DEF LoopSpec, EveryAccountRuns

\* The heartbeat and the evidence worker never turn healthy on the success of some of
\* their accounts (cli.py _run, _option_evidence).
THEOREM HealthyAfterFullCycle == LoopSpec => OkAfterFullCycle
<1>1. ASSUME LoopInv, LoopNext, ~ AccountWritesHealth, health' = "ok", healthAge' = 0,
             healthFile' # healthFile
      PROVE  loopOk = AccountIndices /\ loopFailed = {}
  <2>1. ~ AgeHealth
    BY <1>1 DEF AgeHealth, LoopInv, LoopTypeOK
  <2>2. WriteAggregate /\ loopFailed = {}
    BY <1>1, <2>1
       DEF LoopNext, LoopStep, BeginLoop, AccountSucceeds, AccountRaises, RecordFailure,
           WriteAggregate, RecordComplete, HandleRaised, RestartWorker, ChangeAccount,
           ChangeDatabase, WriteHealth, Aggregate, AccountWritesHealth, healthFile
  <2>3. QED
    BY <1>1, <2>2, AllRan
<1>2. LoopInv /\ [LoopNext]_loopVars =>
        [~ AccountWritesHealth /\ health' = "ok" /\ healthAge' = 0 /\ healthFile' # healthFile
           => loopOk = AccountIndices /\ loopFailed = {}]_loopVars
  BY <1>1
<1>3. QED
  BY <1>2, LoopInvHolds, PTL DEF LoopSpec, OkAfterFullCycle

=============================================================================
