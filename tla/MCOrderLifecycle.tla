-------------------------- MODULE MCOrderLifecycle --------------------------
(* Signals that share one symbol, and with a third signal a second symbol.  *)
EXTENDS OrderLifecycle

SharedSymbol == [i \in Intents |-> IF i = "i3" THEN "QQQ" ELSE "SPY"]
=============================================================================
