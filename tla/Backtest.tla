------------------------------ MODULE Backtest ------------------------------
(***************************************************************************)
(* The replay of one strategy over a sequence of bars: at most one         *)
(* position, entered at the open of the bar after its signal, left at its  *)
(* stop, its target, or a close.  Bars are drawn as the replay reaches     *)
(* them.  At any bar the next one may be drawn twice, once for each of two *)
(* tapes: what the replay knows must not depend on which.                  *)
(* Prices are integers; money is in hundredths, so that slippage and       *)
(* fractions are percents.                                                 *)
(***************************************************************************)
EXTENDS Integers, FiniteSetsExt

CONSTANTS
    Shapes,          \* the bars that occur, without their session
    Strategies,      \* functions from the latest bar of a history to a signal or NoEntry
    FlattenChoices,  \* values of config.flatten_at_session_end
    InitialEquity, RiskPercent, CapitalPercent,
    SlippagePercent, Commission,   \* per share, in hundredths
    MaxHolding,      \* config.maximum_holding_bars
    MaxReplay        \* bound on the bars of a replay

NoEntry == [side |-> 0, stop |-> 0, target |-> 0]
EntrySignals == [side : {1, -1}, stop : Int, target : Int] \cup {NoEntry}

\* The bars MarketBar accepts.
PriceBars ==
    {b \in [open : Nat \ {0}, low : Nat \ {0}, high : Nat \ {0}, close : Nat \ {0},
            session : {0}] :
        b.low <= b.open /\ b.open <= b.high /\ b.low <= b.close /\ b.close <= b.high}

ASSUME BacktestAssumption ==
    /\ Shapes \subseteq PriceBars
    /\ Strategies \subseteq [Shapes -> EntrySignals]
    /\ FlattenChoices \subseteq BOOLEAN
    /\ InitialEquity \in Nat \ {0}
    /\ RiskPercent \in 1..100 /\ CapitalPercent \in 1..100 /\ SlippagePercent \in 0..99
    /\ Commission \in Nat /\ MaxHolding \in Nat \ {0} /\ MaxReplay \in Nat \ {0}

VARIABLES
    strategy,   \* the strategy being replayed
    flatten,    \* config.flatten_at_session_end
    signalFrom, \* signal_start_at: the first bar whose signal counts
    index,      \* the bar processed last
    bar,        \* the bar processed next, or NoBar at the end of the data
    book,       \* for each tape: equity, open position, latest trade
    forked      \* the tapes differ from bar on

replayVars == <<strategy, flatten, signalFrom, index, bar, book, forked>>

Tapes == {"tape", "other"}
NoBar == [open |-> 0, low |-> 0, high |-> 0, close |-> 0, session |-> 0]
NoPosition == [side |-> 0, stop |-> 0, target |-> 0, raw |-> 0, quantity |-> 0, entered |-> 0,
               session |-> 0, sizedFor |-> 0]
NoTrade == [pnl |-> 0, risk |-> 0, costs |-> 0, left |-> 0, sizedFor |-> 0]

ReplayInit ==
    /\ strategy \in Strategies
    /\ flatten \in FlattenChoices
    /\ signalFrom \in 1..2
    /\ index = 0
    /\ bar \in {[b EXCEPT !.session = 1] : b \in Shapes}
    /\ book = [t \in Tapes |->
                 [equity |-> InitialEquity, position |-> NoPosition, trade |-> NoTrade]]
    /\ forked = FALSE

-----------------------------------------------------------------------------
(* A side of 1 is long, of -1 short: a short position is a long one at     *)
(* negated prices.                                                         *)
Worst(side, b) == IF side = 1 THEN b.low ELSE - b.high
Best(side, b) == IF side = 1 THEN b.high ELSE - b.low

\* In hundredths: slippage moves an entry up and an exit down for the side.
EntryPrice(side, price) == side * price * (100 + side * SlippagePercent)
ExitPrice(side, price) == side * price * (100 - side * SlippagePercent)

EntryRisk(signal, b) == EntryPrice(signal.side, b.open) - 100 * signal.side * signal.stop

Quantity(signal, b, equity) ==
    Min({(equity * RiskPercent) \div (100 * EntryRisk(signal, b)),
         (equity * CapitalPercent) \div (100 * signal.side * EntryPrice(signal.side, b.open))})

\* _open_position; session is that of the signal.
Opened(signal, b, equity) ==
    IF \/ EntryRisk(signal, b) <= 0
       \/ EntryPrice(signal.side, b.open) >= 100 * signal.side * signal.target
    THEN NoPosition
    ELSE IF Quantity(signal, b, equity) <= 0 THEN NoPosition
    ELSE [side |-> signal.side, stop |-> signal.stop, target |-> signal.target, raw |-> b.open,
          quantity |-> Quantity(signal, b, equity), entered |-> index + 2,
          session |-> bar.session, sizedFor |-> equity]

InitialRisk(p) == (EntryPrice(p.side, p.raw) - 100 * p.side * p.stop) * p.quantity

\* _close_trade: pnl after slippage and two commissions.
Closed(p, price) ==
    [pnl |-> (ExitPrice(p.side, price) - EntryPrice(p.side, p.raw)
                - 2 * Commission) * p.quantity,
     risk |-> InitialRisk(p),
     costs |-> (100 * p.side * price - ExitPrice(p.side, price) + 2 * Commission) * p.quantity,
     left |-> price, sizedFor |-> p.sizedFor]

-----------------------------------------------------------------------------
(* One bar b, followed by n.                                               *)
Ends(b, n) == n = NoBar \/ n.session # b.session

\* Mutant of ExitAt: a position that gapped through its stop waits for the close.
ExitAtClose(p, b) ==
    IF Worst(p.side, b) <= p.side * p.stop THEN b.close
    ELSE IF Best(p.side, b) >= p.side * p.target THEN p.target
    ELSE b.close

\* _position_exit: the stop is looked at first.
ExitAt(p, b) ==
    IF Worst(p.side, b) <= p.side * p.stop THEN p.stop
    ELSE IF Best(p.side, b) >= p.side * p.target THEN p.target
    ELSE b.close

Exits(p, b, n) ==
    \/ Worst(p.side, b) <= p.side * p.stop
    \/ Best(p.side, b) >= p.side * p.target
    \/ index + 2 - p.entered >= MaxHolding
    \/ flatten /\ Ends(b, n)
    \/ n = NoBar

\* Mutant of Latest: the history reaches one bar too far.
LatestAndNext(b, n) == IF n = NoBar THEN b ELSE n

\* The history a strategy sees ends with b, whatever n follows.
Latest(b, n) == b

Enterable(b, n) ==
    n # NoBar /\ index + 1 >= signalFrom /\ ~ (flatten /\ n.session # b.session)

\* The loop body of Backtester.run; a bar that ends a position gives no signal.
Processed(s, b, n) ==
    LET p == s.position
        signal == strategy[[Latest(b, n) EXCEPT !.session = 0]]
    IN  IF p # NoPosition
        THEN IF Exits(p, b, n)
             THEN LET trade == Closed(p, ExitAt(p, b))
                  IN  [equity |-> s.equity + trade.pnl, position |-> NoPosition, trade |-> trade]
             ELSE s
        ELSE IF Enterable(b, n) /\ signal # NoEntry
        THEN [s EXCEPT !.position = Opened(signal, n, s.equity)]
        ELSE s

Following(b) == {[x EXCEPT !.session = s] : x \in Shapes, s \in {b.session, b.session + 1}}

ReplayBar ==
    /\ bar # NoBar /\ ~ forked /\ index < MaxReplay
    /\ \E n \in Following(bar) \cup {NoBar} :
          /\ index + 1 = MaxReplay => n = NoBar
          /\ book' = [t \in Tapes |-> Processed(book[t], bar, n)]
          /\ bar' = n
    /\ index' = index + 1
    /\ UNCHANGED <<strategy, flatten, signalFrom, forked>>

\* The other tape goes on with another price in the same session.
ForkBar ==
    /\ bar # NoBar /\ ~ forked /\ index + 1 < MaxReplay
    /\ \E n \in Following(bar), m \in Following(bar) :
          /\ n.session = m.session /\ n # m
          /\ book' = [tape |-> Processed(book["tape"], bar, n),
                      other |-> Processed(book["other"], bar, m)]
          /\ bar' = n
    /\ index' = index + 1
    /\ forked' = TRUE
    /\ UNCHANGED <<strategy, flatten, signalFrom>>

ReplayNext == ReplayBar \/ ForkBar

ReplaySpec == ReplayInit /\ [][ReplayNext]_replayVars

-----------------------------------------------------------------------------
ReplayTypeOK ==
    /\ index \in 0..MaxReplay
    /\ \A t \in Tapes : book[t].position.quantity >= 0 /\ book[t].position.side \in {-1, 0, 1}

\* What a bar's processing decides depends on no price of a later bar, except the open
\* its entry is filled at: two tapes that differ only from the next bar on have the same
\* trades, and the positions they both already held.
NoLookAhead ==
    LET known(t) == [equity |-> book[t].equity, trade |-> book[t].trade]
        held(t) == IF book[t].position.entered <= index THEN book[t].position ELSE NoPosition
        asked(t) == IF book[t].position.entered > index
                    THEN {[stop |-> book[t].position.stop, target |-> book[t].position.target]}
                    ELSE {}
    IN  /\ known("tape") = known("other") /\ held("tape") = held("other")
        /\ asked("tape") = {} \/ asked("other") = {} \/ asked("tape") = asked("other")

\* Whatever the bars do, a trade loses no more than the risk it was sized with and its
\* exit costs, and that risk is within risk_fraction of the equity at its entry.
LossBounded ==
    LET trade == book["tape"].trade
    IN  /\ trade.pnl >= - (trade.risk + trade.costs)
        /\ 100 * trade.risk <= RiskPercent * trade.sizedFor
=============================================================================
