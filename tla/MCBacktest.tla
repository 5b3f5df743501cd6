----------------------------- MODULE MCBacktest -----------------------------
(* Bars that stay, rise, fall, reach both ways, and lie below or above      *)
(* the others, so that a session may open beyond a stop or a target.        *)
EXTENDS Backtest

Shape(o, l, h, c) == [open |-> o, low |-> l, high |-> h, close |-> c, session |-> 0]

MCShapes ==
    {Shape(10, 10, 10, 10), Shape(10, 10, 12, 12), Shape(12, 9, 12, 10), Shape(11, 7, 14, 11),
     Shape(8, 7, 8, 8), Shape(14, 13, 14, 14)}

Entry(side, stop, target) == [side |-> side, stop |-> stop, target |-> target]

\* One strategy buys after a rise and sells after a fall; the other buys a quiet market.
MCStrategies ==
    {[b \in MCShapes |-> IF b.close > b.open THEN Entry(1, 9, 13)
                         ELSE IF b.close < b.open THEN Entry(-1, 13, 9) ELSE NoEntry],
     [b \in MCShapes |-> IF b.low = b.high THEN Entry(1, 8, 11) ELSE NoEntry]}
=============================================================================
