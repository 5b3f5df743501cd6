----------------------------- MODULE MarketBars -----------------------------
(***************************************************************************)
(* The bars decisions are made on: a worker fetches those of its lookback  *)
(* page by page while trading goes on, stores them, and keeps those that   *)
(* had ended when its cycle began.  Time is counted in bars: bar t is      *)
(* forming while the clock shows t.                                        *)
(***************************************************************************)
EXTENDS Integers, FiniteSetsExt

CONSTANTS
    Workers,        \* processes that fetch bars of one symbol and timeframe
    KeepForming,    \* those that store every bar they fetched: the automation
    WindowLength,   \* bars in _STOCK_BAR_TIME_WINDOW_DAYS
    PageLimit,      \* bars on a page
    MaxPages,       \* max_total_pages
    MaxBar, MaxVersion  \* bounds on the clock, and on the trades within a bar

ASSUME MarketBarsAssumption ==
    /\ KeepForming \subseteq Workers
    /\ {WindowLength, PageLimit, MaxPages, MaxBar, MaxVersion} \subseteq Nat \ {0}

VARIABLES
    barClock,     \* the present
    tape,         \* what the broker says of each bar: the trades in it, 0 without a bar
    storedBars,   \* market_bars: the version stored of each bar, 0 without a row
    fetch,        \* each worker's fetch_stock_bars in progress
    usable        \* what closed_bars gave the worker last, and the time of that cycle

barVars == <<barClock, tape, storedBars, fetch, usable>>

BarTimes == 1..MaxBar
Versions == [BarTimes -> 0..MaxVersion]
NoBars == [t \in BarTimes |-> 0]
NoFetch == [at |-> 0, window |-> 0, next |-> 0, pages |-> 0, got |-> NoBars]
BeginAt(at) == [NoFetch EXCEPT !.at = at]

BarsInit ==
    /\ barClock = 1
    /\ tape = NoBars /\ storedBars = NoBars
    /\ fetch = [w \in Workers |-> NoFetch]
    /\ usable = [w \in Workers |-> [at |-> 0, bars |-> NoBars]]

-----------------------------------------------------------------------------
(* The market.                                                             *)
BarCloses ==
    /\ barClock < MaxBar
    /\ barClock' = barClock + 1
    /\ UNCHANGED <<tape, storedBars, fetch, usable>>

TradePrinted ==
    /\ tape[barClock] < MaxVersion
    /\ tape' = [tape EXCEPT ![barClock] = @ + 1]
    /\ UNCHANGED <<barClock, storedBars, fetch, usable>>

-----------------------------------------------------------------------------
(* fetch_stock_bars.                                                       *)
BeginFetch(w) ==
    /\ fetch[w] = NoFetch
    /\ fetch' = [fetch EXCEPT ![w] = BeginAt(barClock)]
    /\ UNCHANGED <<barClock, tape, storedBars, usable>>

\* The last bar of a window is the first of the next.
WindowEnd(w) == Min({fetch[w].window + WindowLength, fetch[w].at})

Fetching(w) == fetch[w] # NoFetch /\ fetch[w].window < fetch[w].at

\* The bars of the window from the token on, oldest first.
Due(w) == {t \in BarTimes : fetch[w].next <= t /\ t <= WindowEnd(w) /\ tape[t] > 0}

PageOf(w) == {t \in Due(w) : Cardinality({u \in Due(w) : u < t}) < PageLimit}

FetchPage(w) ==
    /\ Fetching(w) /\ fetch[w].pages < MaxPages
    /\ fetch' = [fetch EXCEPT
         ![w].got = [t \in BarTimes |-> IF t \in PageOf(w) THEN tape[t] ELSE fetch[w].got[t]],
         ![w].pages = @ + 1,
         ![w].next = IF PageOf(w) = Due(w) THEN WindowEnd(w) ELSE Max(PageOf(w)) + 1,
         ![w].window = IF PageOf(w) = Due(w) THEN WindowEnd(w) ELSE @]
    /\ UNCHANGED <<barClock, tape, storedBars, usable>>

\* The lab asks for a chunk once more after a rate limit, for the time of its cycle.
RetryFetch(w) ==
    /\ Fetching(w) /\ w \notin KeepForming
    /\ fetch' = [fetch EXCEPT ![w] = BeginAt(fetch[w].at)]
    /\ UNCHANGED <<barClock, tape, storedBars, usable>>

\* No answer, a repeated token, too many pages, or a restart.
FetchRaises(w) ==
    /\ Fetching(w)
    /\ fetch' = [fetch EXCEPT ![w] = NoFetch]
    /\ UNCHANGED <<barClock, tape, storedBars, usable>>

\* Mutant of Ended: the clock is read after the last page.
EndedByNow(w, t) == t + 1 <= barClock

\* closed_bars(..., now=checked_at)
Ended(w, t) == t + 1 <= fetch[w].at

Only(got, times) == [t \in BarTimes |-> IF t \in times THEN got[t] ELSE 0]

\* record_market_bars and closed_bars, in either order.
StoreBars(w) ==
    /\ fetch[w] # NoFetch /\ ~ Fetching(w)
    /\ LET got == fetch[w].got
           ended == {t \in BarTimes : Ended(w, t)}
           kept == {t \in IF w \in KeepForming THEN BarTimes ELSE ended : got[t] > 0}
       IN  /\ storedBars' = [t \in BarTimes |-> IF t \in kept THEN got[t] ELSE storedBars[t]]
           /\ usable' = [usable EXCEPT ![w] = [at |-> fetch[w].at, bars |-> Only(got, ended)]]
    /\ fetch' = [fetch EXCEPT ![w] = NoFetch]
    /\ UNCHANGED <<barClock, tape>>

BarsNext ==
    \/ BarCloses \/ TradePrinted
    \/ \E w \in Workers :
          BeginFetch(w) \/ FetchPage(w) \/ RetryFetch(w) \/ FetchRaises(w) \/ StoreBars(w)

BarsSpec == BarsInit /\ [][BarsNext]_barVars

-----------------------------------------------------------------------------
BarsTypeOK ==
    /\ barClock \in BarTimes /\ tape \in Versions /\ storedBars \in Versions
    /\ \A w \in Workers :
          /\ fetch[w].at \in 0..barClock /\ fetch[w].window \in 0..fetch[w].at
          /\ fetch[w].pages \in 0..MaxPages /\ fetch[w].got \in Versions
          /\ usable[w].at \in 0..barClock /\ usable[w].bars \in Versions

(* A cycle decides on the final version of every bar that had ended when   *)
(* it began, without a gap, and on no other: however its pages fall before *)
(* and after the end of a bar, over windows, and through a retry           *)
(* (AlpacaMarketDataClient.fetch_stock_bars, closed_bars).                 *)
UsableBarsFinal ==
    \A w \in Workers :
        usable[w].bars = Only(tape, {t \in BarTimes : t < usable[w].at})
=============================================================================
