-------------------------- MODULE MCRiskAuthority --------------------------
(* Two accounts and three intents: i1 and i2 compete for one symbol from   *)
(* different accounts, i1 and i3 for one strategy, i2 and i3 for one       *)
(* account, and all three for the firm.  Two instances in one run: either  *)
(* all three intents and a clock that stands, or two intents and a clock   *)
(* that ages equity rows.                                                  *)
EXTENDS RiskAuthority

StockOrder(a, s, g, unit, n) ==
    [ account |-> a, symbol |-> s, group |-> g, class |-> "stock",
      side |-> "buy", ttSpy |-> FALSE, riskPerUnit |-> unit, price |-> 1,
      requested |-> n, budget |-> 30 ]

MCOrder ==
    [ i \in Intents |->
        CASE i = "i1" -> StockOrder("a1", "SPY", "trend", 2, 1)
          [] i = "i2" -> [StockOrder("a2", "SPY", "credit", 3, 2) EXCEPT
                            !.class = "option", !.budget = 50]
          [] i = "i3" -> StockOrder("a2", "QQQ", "trend", 2, 1) ]

VARIABLE part  \* which instance: "three" intents, or the "clock"

AuthorityInit == part \in {"three", "clock"} /\ Init

AuthorityNext ==
    /\ UNCHANGED part
    /\ Next
    /\ part = "three" => UNCHANGED now
    /\ part = "clock" => reservation'["i3"] = "none"

AuthoritySpec == AuthorityInit /\ [][AuthorityNext]_<<part, vars>>
=============================================================================
