------------------------- MODULE MCStrategyControls -------------------------
(* Two releases: the first cannot have both "trend" and "credit" enabled;  *)
(* the second retires "bonds" and enables "credit" in its portfolio file,  *)
(* so that settings saved under the first may not fit it.                  *)
EXTENDS StrategyControls

Plan(weights, enabled) ==
    [s \in DOMAIN weights |-> [weight |-> weights[s], settings |-> [enabled |-> s \in enabled, paper |-> FALSE]]]

FirstPlan == Plan([trend |-> 50, credit |-> 60, bonds |-> 30], {})
SecondPlan == Plan([trend |-> 50, credit |-> 60], {"credit"})
MCPlans == {FirstPlan, SecondPlan}
=============================================================================
