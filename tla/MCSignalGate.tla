---------------------------- MODULE MCSignalGate ----------------------------
(* Two strategies on SPY, one of which keeps an interval.  The proxied     *)
(* allocation is spx_rut_put_credit_14dte: its signals name SPY, its       *)
(* orders SPX.                                                             *)
EXTENDS SignalGate

MCAllocation(strategy, symbol, underlying, interval) ==
    [strategy |-> strategy, symbol |-> symbol, underlying |-> underlying, interval |-> interval]

MCAllocations ==
    <<MCAllocation("trend", "SPY", "SPY", 0), MCAllocation("credit", "SPY", "SPY", 2)>>

MCProxied == <<MCAllocation("credit", "SPY", "SPX", 2)>>
=============================================================================
