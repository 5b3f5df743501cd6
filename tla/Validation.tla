----------------------------- MODULE Validation -----------------------------
(***************************************************************************)
(* How a series of bars is cut for the validation of a strategy: into an   *)
(* in-sample and an out-of-sample part, or into folds that are tested one  *)
(* after the other.  Each part is replayed with bars before it as warmup   *)
(* (module Backtest shows the replay itself).  Bars are counted from 0; a  *)
(* part is the bars from its first to before its last.                     *)
(***************************************************************************)
EXTENDS Integers

CONSTANTS
    Lengths,          \* numbers of bars a series may have
    FoldCounts,       \* folds, 2 to 6 in the code
    SplitPercents,    \* split_fraction, initial_fraction
    MinimumWarmup,    \* FeatureEngine().minimum_bars + 2
    MinimumFoldBars,  \* bars asked for per fold, 10 in the code
    MaxHistory        \* config.maximum_history_bars

ASSUME ValidationAssumption ==
    /\ Lengths \subseteq Nat /\ FoldCounts \subseteq Nat \ {0}
    /\ SplitPercents \subseteq 0..100
    /\ MinimumWarmup \in Nat /\ MinimumFoldBars \in Nat \ {0} /\ MaxHistory \in Nat

VARIABLES
    series,   \* the call: its method, number of bars, first tested bar, and folds
    walk,     \* the part replayed, the bar it has reached, and the open position
    trials    \* the trades of all parts: the bar of the signal, and of the exit

walkVars == <<series, walk, trials>>

NoSeries == [method |-> "none", bars |-> 0, first |-> 0, folds |-> 0]
NoWalk == [part |-> 0, next |-> 0, signal |-> -1]

WalkInit == series = NoSeries /\ walk = NoWalk /\ trials = {}

-----------------------------------------------------------------------------
FirstTested(bars, percent) == (bars * percent) \div 100

FoldBoundary(s, k) == s.first + ((s.bars - s.first) * k) \div s.folds

PartsOf(s) == IF s.method = "validate" THEN {0, 1} ELSE 1..s.folds

\* Part 0 is in sample, part 1 out of sample; otherwise part k is fold k.
From(s, k) ==
    IF s.method = "validate" THEN IF k = 0 THEN 0 ELSE s.first ELSE FoldBoundary(s, k - 1)

To(s, k) ==
    IF s.method = "validate" THEN IF k = 0 THEN s.first ELSE s.bars ELSE FoldBoundary(s, k)

WarmupStart(s, k) == IF From(s, k) >= MaxHistory THEN From(s, k) - MaxHistory ELSE 0

\* Mutant of SignalStart: the warmup gives signals too.
SignalInWarmup(s, k) == WarmupStart(s, k)

\* signal_start_at
SignalStart(s, k) == From(s, k)

BeginPart(s, k) == [part |-> k, next |-> WarmupStart(s, k), signal |-> -1]

-----------------------------------------------------------------------------
\* StrategyValidator.validate, which raises when either part is too short.
Validate ==
    /\ series = NoSeries
    /\ \E n \in Lengths, percent \in SplitPercents :
          /\ FirstTested(n, percent) >= MinimumWarmup
          /\ n - FirstTested(n, percent) >= MinimumWarmup
          /\ series' = [method |-> "validate", bars |-> n,
                        first |-> FirstTested(n, percent), folds |-> 1]
    /\ walk' = BeginPart(series', 0)
    /\ UNCHANGED trials

\* StrategyValidator.chronological_stability
ChronologicalStability ==
    /\ series = NoSeries
    /\ \E n \in Lengths, percent \in SplitPercents, folds \in FoldCounts :
          /\ FirstTested(n, percent) >= MinimumWarmup
          /\ n - FirstTested(n, percent) >= folds * MinimumFoldBars
          /\ series' = [method |-> "stability", bars |-> n,
                        first |-> FirstTested(n, percent), folds |-> folds]
    /\ walk' = BeginPart(series', 1)
    /\ UNCHANGED trials

Walking == series # NoSeries /\ walk.next < To(series, walk.part)

\* No position, and no signal that is acted on.
PassBar ==
    /\ Walking /\ walk.signal = -1
    /\ walk' = [walk EXCEPT !.next = @ + 1]
    /\ UNCHANGED <<series, trials>>

\* A signal is entered at the next bar of the part.
SignalAtBar ==
    /\ Walking /\ walk.signal = -1
    /\ walk.next >= SignalStart(series, walk.part) /\ walk.next + 1 < To(series, walk.part)
    /\ walk' = [walk EXCEPT !.signal = walk.next, !.next = @ + 1]
    /\ UNCHANGED <<series, trials>>

HoldBar ==
    /\ Walking /\ walk.signal # -1 /\ walk.next + 1 < To(series, walk.part)
    /\ walk' = [walk EXCEPT !.next = @ + 1]
    /\ UNCHANGED <<series, trials>>

\* At the latest, at the last bar of the part.
ExitAtBar ==
    /\ Walking /\ walk.signal # -1
    /\ trials' = trials \cup
         {[part |-> walk.part, signal |-> walk.signal, left |-> walk.next]}
    /\ walk' = [walk EXCEPT !.signal = -1, !.next = @ + 1]
    /\ UNCHANGED series

NextPart ==
    /\ series # NoSeries /\ walk.next >= To(series, walk.part) /\ walk.part + 1 \in PartsOf(series)
    /\ walk' = BeginPart(series, walk.part + 1)
    /\ UNCHANGED <<series, trials>>

WalkNext ==
    \/ Validate \/ ChronologicalStability
    \/ PassBar \/ SignalAtBar \/ HoldBar \/ ExitAtBar \/ NextPart

WalkSpec == WalkInit /\ [][WalkNext]_walkVars

-----------------------------------------------------------------------------
WalkTypeOK ==
    /\ series \in [method : {"none", "validate", "stability"}, bars : Nat, first : Nat, folds : Nat]
    /\ walk \in [part : Nat, next : Nat, signal : Nat \cup {-1}]
    /\ trials \subseteq [part : Nat, signal : Nat, left : Nat]

(* "non-overlapping later periods [...] signals and P/L begin at the fold  *)
(* boundary" (StrategyValidator.chronological_stability): no bar, from the *)
(* signal to the exit, counts for the trades of two parts, and none before *)
(* the first tested bar counts for a tested part, although the parts share *)
(* their warmup.                                                           *)
PartsIndependent ==
    /\ \A t \in trials, u \in trials : t.part < u.part => t.left < u.signal
    /\ \A t \in trials : t.part > 0 => t.signal >= series.first
=============================================================================
