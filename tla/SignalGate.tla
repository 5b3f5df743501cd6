----------------------------- MODULE SignalGate -----------------------------
(***************************************************************************)
(* The gate every entry signal of an account passes: one cycle of the      *)
(* automation walks over the allocations, and a new signal is sent to the  *)
(* broker unless its symbol is taken, the day's orders are used up, or its *)
(* symbol or strategy was entered too recently.  What the gate knows of    *)
(* earlier orders are the rows that were written after they were sent.     *)
(* Time is counted in bars; a signal is an allocation and a bar.           *)
(***************************************************************************)
EXTENDS Integers, Sequences, FiniteSets, FiniteSetsExt

CONSTANTS
    Allocations,     \* sequence of the account's enabled allocations, in loop order
    MaxDailyOrders,  \* AccountPlan.maximum_daily_orders
    MaxPositions,    \* AccountPlan.maximum_positions
    Cooldown,        \* AccountPlan.symbol_cooldown_minutes, in bars
    BarsPerDay,
    MaxBars,         \* bound on the clock
    MaxFailures      \* bound on crashes and lost answers

ASSUME GateAssumption ==
    /\ Allocations \in
          Seq([strategy : STRING, symbol : STRING, underlying : STRING, interval : Nat])
    /\ MaxDailyOrders \in Nat \ {0} /\ MaxPositions \in Nat \ {0}
    /\ Cooldown \in Nat /\ BarsPerDay \in Nat \ {0}
    /\ MaxBars \in Nat /\ MaxFailures \in Nat

VARIABLES
    gateNow,      \* the current bar
    gateOrder,    \* at the broker: what became of the order of each signal
    gateReserved, \* risk_reservations of each signal's intent
    gateTraded,   \* signals with a row in trade_records that has a broker order id
    gateSignals,  \* signals of the latest cycle's bar with a row in strategy_signals
    gatePc,       \* where the automation is in its cycle
    gateCycle,    \* checked_at, the broker view and the loop index of the cycle
    gateCurrent,  \* the signal in hand, or NoSignal
    gateFailures  \* crashes and lost answers so far

gateBroker == <<gateOrder>>
gateDatabase == <<gateReserved, gateTraded, gateSignals>>
gateVars == <<gateNow, gateBroker, gateDatabase, gatePc, gateCycle, gateCurrent, gateFailures>>

Bars == 0..MaxBars
Signals == [alloc : DOMAIN Allocations, bar : Bars]
NoSignal == [alloc |-> 0, bar |-> 0]

Strategy(s) == Allocations[s.alloc].strategy
Symbol(s) == Allocations[s.alloc].symbol
\* _allocate_intent: an index option is traded where the signal names its proxy.
Underlying(s) == Allocations[s.alloc].underlying
DayOfBar(b) == b \div BarsPerDay

NotReserved == [state |-> "none", marked |-> FALSE, at |-> 0]
ReservationRows ==
    [state : {"none", "active", "released"}, marked : BOOLEAN, at : Bars]
NoCycle == [at |-> 0, held |-> {}, open |-> {}, next |-> 1]

GateTypeOK ==
    /\ gateNow \in Bars
    /\ gateOrder \in [Signals -> {"absent", "open", "held", "over"}]
    /\ gateReserved \in [Signals -> ReservationRows]
    /\ gateTraded \subseteq Signals /\ gateSignals \subseteq Signals
    /\ gatePc \in {"idle", "loop", "allocate", "submit", "accepted", "marked"}
    /\ gateCycle.at \in 0..gateNow /\ gateCycle.next \in 1..(Len(Allocations) + 1)
    /\ gateCycle.held \subseteq Signals /\ gateCycle.open \subseteq Signals
    /\ gateCurrent \in gateSignals \cup {NoSignal}
    /\ gateFailures \in 0..MaxFailures

GateInit ==
    /\ gateNow = 0
    /\ gateOrder = [s \in Signals |-> "absent"]
    /\ gateReserved = [s \in Signals |-> NotReserved]
    /\ gateTraded = {} /\ gateSignals = {}
    /\ gatePc = "idle" /\ gateCycle = NoCycle /\ gateCurrent = NoSignal
    /\ gateFailures = 0

-----------------------------------------------------------------------------
(* The broker and the clock.                                               *)
NextBar ==
    /\ gateNow < MaxBars
    /\ gateNow' = gateNow + 1
    /\ UNCHANGED <<gateBroker, gateDatabase, gatePc, gateCycle, gateCurrent, gateFailures>>

FillEntry(s) ==
    /\ gateOrder[s] = "open"
    /\ gateOrder' = [gateOrder EXCEPT ![s] = "held"]
    /\ UNCHANGED <<gateNow, gateDatabase, gatePc, gateCycle, gateCurrent, gateFailures>>

\* The order ends unfilled, or its position is closed.
FinishEntry(s) ==
    /\ gateOrder[s] \in {"open", "held"}
    /\ gateOrder' = [gateOrder EXCEPT ![s] = "over"]
    /\ UNCHANGED <<gateNow, gateDatabase, gatePc, gateCycle, gateCurrent, gateFailures>>

\* Either process has seen the end of an entry (module OrderLifecycle shows how).
ReconcileOver(s) ==
    /\ gateOrder[s] = "over" /\ gateReserved[s].state = "active"
    /\ gateReserved' = [gateReserved EXCEPT ![s].state = "released"]
    /\ UNCHANGED <<gateNow, gateBroker, gateTraded, gateSignals,
                   gatePc, gateCycle, gateCurrent, gateFailures>>

-----------------------------------------------------------------------------
(* What the gate reads.                                                    *)
ActiveSignals == {s \in Signals : gateReserved[s].state = "active"}
ReservedSymbols == {Underlying(s) : s \in ActiveSignals}

\* active_reservation_identity against the view of the cycle's start.
Unmanaged ==
    \/ \E s \in gateCycle.held : Underlying(s) \notin ReservedSymbols
    \/ \E s \in gateCycle.open : s \notin ActiveSignals

SymbolTaken(symbol) ==
    symbol \in ReservedSymbols \cup {Underlying(s) : s \in gateCycle.held \cup gateCycle.open}

\* Mutant of SubmittedSince: only rows whose reservation is still active count.
SubmittedAndActive(day) ==
    Cardinality({s \in gateTraded \cap ActiveSignals : DayOfBar(s.bar) >= day})

\* submitted_orders_since: the row's created_at is the checked_at of its cycle.
SubmittedSince(day) == Cardinality({s \in gateTraded : DayOfBar(s.bar) >= day})

\* Mutant of SubmittedTimes: trade rows alone.
TradedTimes(symbol, strategies) ==
    {s.bar : s \in {t \in gateTraded : Underlying(t) = symbol /\ Strategy(t) \in strategies}}

\* last_submitted_at: trade rows carry checked_at, reservations the time of their insert.
SubmittedTimes(symbol, strategies) ==
    LET match(t) == Underlying(t) = symbol /\ Strategy(t) \in strategies
    IN  {t.bar : t \in {t \in gateTraded : match(t)}}
        \cup {gateReserved[t].at : t \in {t \in Signals : gateReserved[t].marked /\ match(t)}}

TooSoon(times, minimum) == times # {} /\ gateCycle.at - Max(times) < minimum

AllStrategies == {Allocations[i].strategy : i \in DOMAIN Allocations}

\* _signal_block_reason, without the reasons that depend on the market.
GateBlocks(s) ==
    \/ Unmanaged
    \/ SymbolTaken(Symbol(s))
    \/ Cardinality(gateCycle.held) >= MaxPositions
    \/ SubmittedSince(DayOfBar(gateCycle.at)) >= MaxDailyOrders
    \/ TooSoon(SubmittedTimes(Symbol(s), AllStrategies), Cooldown)
    \/ /\ Allocations[s.alloc].interval > 0
       /\ TooSoon(SubmittedTimes(Symbol(s), {Strategy(s)}), Allocations[s.alloc].interval)

-----------------------------------------------------------------------------
(* run_cycle.                                                              *)
InHand == [alloc |-> gateCycle.next, bar |-> gateCycle.at]
GateGoto(step) == gatePc' = step

NextAllocation ==
    /\ GateGoto("loop")
    /\ gateCycle' = [gateCycle EXCEPT !.next = @ + 1]
    /\ gateCurrent' = NoSignal

AbortCycle ==
    /\ GateGoto("idle")
    /\ gateCycle' = NoCycle
    /\ gateCurrent' = NoSignal

\* broker.reconcile and record_order_reconciliation.
StartCycle ==
    /\ gatePc = "idle"
    /\ gateCycle' = [at |-> gateNow, next |-> 1,
                     held |-> {s \in Signals : gateOrder[s] = "held"},
                     open |-> {s \in Signals : gateOrder[s] = "open"}]
    /\ GateGoto("loop")
    /\ UNCHANGED <<gateNow, gateBroker, gateDatabase, gateCurrent, gateFailures>>

\* No closed bar, no signal, or one recorded in an earlier cycle of this bar.
SkipAllocation ==
    /\ gatePc = "loop" /\ gateCycle.next <= Len(Allocations)
    /\ NextAllocation
    /\ UNCHANGED <<gateNow, gateBroker, gateDatabase, gateFailures>>

\* record_signal, whose ids of earlier bars never return, then the block reasons and
\* _allocate_intent.
NewSignal ==
    /\ gatePc = "loop" /\ gateCycle.next <= Len(Allocations)
    /\ InHand \notin gateSignals
    /\ gateSignals' = {s \in gateSignals : s.bar = gateCycle.at} \cup {InHand}
    /\ IF GateBlocks(InHand) THEN NextAllocation
       ELSE /\ GateGoto("allocate")
            /\ gateCurrent' = InHand
            /\ UNCHANGED gateCycle
    /\ UNCHANGED <<gateNow, gateBroker, gateReserved, gateTraded, gateFailures>>

\* Filtered, observed only, or rejected by the risk authority.
Decline ==
    /\ gatePc = "allocate"
    /\ NextAllocation
    /\ UNCHANGED <<gateNow, gateBroker, gateDatabase, gateFailures>>

Approve ==
    /\ gatePc = "allocate"
    /\ gateReserved' = [gateReserved EXCEPT
          ![gateCurrent] = [state |-> "active", marked |-> FALSE, at |-> gateNow]]
    /\ GateGoto("submit")
    /\ UNCHANGED <<gateNow, gateBroker, gateTraded, gateSignals,
                   gateCycle, gateCurrent, gateFailures>>

SubmitEntry ==
    /\ gatePc = "submit"
    /\ gateOrder' = [gateOrder EXCEPT ![gateCurrent] = "open"]
    /\ GateGoto("accepted")
    /\ UNCHANGED <<gateNow, gateDatabase, gateCycle, gateCurrent, gateFailures>>

\* submit_order raises, before or after the broker accepted: process releases the
\* reservation and the exception ends the cycle.
SubmitRaises ==
    /\ gatePc = "submit"
    /\ \/ UNCHANGED <<gateOrder, gateFailures>>
       \/ /\ gateFailures < MaxFailures
          /\ gateFailures' = gateFailures + 1
          /\ gateOrder' = [gateOrder EXCEPT ![gateCurrent] = "open"]
    /\ gateReserved' = [gateReserved EXCEPT ![gateCurrent].state = "released"]
    /\ AbortCycle
    /\ UNCHANGED <<gateNow, gateTraded, gateSignals>>

MarkEntry ==
    /\ gatePc = "accepted"
    /\ gateReserved' = [gateReserved EXCEPT ![gateCurrent].marked = TRUE]
    /\ GateGoto("marked")
    /\ UNCHANGED <<gateNow, gateBroker, gateTraded, gateSignals,
                   gateCycle, gateCurrent, gateFailures>>

RecordEntry ==
    /\ gatePc = "marked"
    /\ gateTraded' = gateTraded \cup {gateCurrent}
    /\ NextAllocation
    /\ UNCHANGED <<gateNow, gateBroker, gateReserved, gateSignals, gateFailures>>

CompleteCycle ==
    /\ gatePc = "loop" /\ gateCycle.next > Len(Allocations)
    /\ AbortCycle
    /\ UNCHANGED <<gateNow, gateBroker, gateDatabase, gateFailures>>

GateCrash ==
    /\ gatePc # "idle" /\ gateFailures < MaxFailures
    /\ gateFailures' = gateFailures + 1
    /\ AbortCycle
    /\ UNCHANGED <<gateNow, gateBroker, gateDatabase>>

GateCycleStep ==
    \/ StartCycle \/ SkipAllocation \/ NewSignal \/ Decline \/ Approve
    \/ SubmitEntry \/ SubmitRaises \/ MarkEntry \/ RecordEntry \/ CompleteCycle

GateNext ==
    \/ NextBar
    \/ \E s \in Signals : FillEntry(s) \/ FinishEntry(s) \/ ReconcileOver(s)
    \/ GateCycleStep
    \/ GateCrash

GateSpec == GateInit /\ [][GateNext]_gateVars

-----------------------------------------------------------------------------
Sent == {s \in Signals : gateOrder[s] # "absent"}

\* The orders sent by the cycles of one day never exceed maximum_daily_orders by more
\* than the crashes and lost answers of that time: each hides at most one order from
\* submitted_orders_since, as the row is written after the order is sent.
DailyLimitKept ==
    \A b \in Bars :
        Cardinality({s \in Sent : DayOfBar(s.bar) = DayOfBar(b)}) <= MaxDailyOrders + gateFailures

Apart(s, t, minimum) == gateReserved[s].at + minimum <= gateReserved[t].at

MarkedSignals == {s \in Signals : gateReserved[s].marked}

\* Two orders of a symbol that mark_submitted knows are a cooldown apart, although the
\* process may die before the trade row is written.
CooldownKept ==
    \A s, t \in MarkedSignals :
        s # t /\ Symbol(s) = Symbol(t) => Apart(s, t, Cooldown) \/ Apart(t, s, Cooldown)

\* "at most one entry per day per proxy symbol" (src/docs/OPTIONS_INCOME_RESEARCH.md):
\* the entries of one allocation are its minimum_entry_interval apart.
IntervalKept ==
    \A s, t \in MarkedSignals :
        s # t /\ s.alloc = t.alloc =>
            \/ Apart(s, t, Allocations[s.alloc].interval)
            \/ Apart(t, s, Allocations[s.alloc].interval)

\* Cooldowns of symbols and intervals of allocations together.
EntriesSpaced == CooldownKept /\ IntervalKept
=============================================================================
