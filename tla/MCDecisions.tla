----------------------------- MODULE MCDecisions -----------------------------
(* Parts of the program that decide about orders and that share no state:  *)
(* the orders of one account, its signal gate, the selection of packages,  *)
(* the universe, the bars, the replays of research and its parts, and the  *)
(* evidence of exits.  Each is explored alone: part says which one moves.  *)
EXTENDS MCOrderLifecycle, MCSignalGate, MCBacktest, OptionEvidence, OptionPackage, Universe,
        MarketBars, Validation

VARIABLE part

\* Bid and ask: tight, wide and closed quotes.
MCQuotes == {<<1, 1>>, <<3, 3>>, <<5, 6>>, <<1, 2>>}

MCPolicyOrder == <<"growth", "income">>
MCAssets == <<"referenced", "reporting">>
MCReferences == [s \in {"referenced"} |-> 1]

DecisionsInit ==
    /\ part \in {"orders", "gate", "package", "universe", "replay", "evidence", "bars", "walk"}
    /\ Init /\ GateInit /\ PackageInit /\ UniverseInit /\ ReplayInit /\ EvidenceInit
    /\ BarsInit /\ WalkInit
    /\ part # "replay" => /\ flatten = TRUE /\ signalFrom = 1
                          /\ strategy = CHOOSE s \in Strategies : TRUE
                          /\ bar = [CHOOSE b \in Shapes : TRUE EXCEPT !.session = 1]

Still(moving) ==
    /\ moving = part
    /\ UNCHANGED part
    /\ moving # "orders" => UNCHANGED vars
    /\ moving # "gate" => UNCHANGED gateVars
    /\ moving # "package" => UNCHANGED packageVars
    /\ moving # "universe" => UNCHANGED universeVars
    /\ moving # "replay" => UNCHANGED replayVars
    /\ moving # "evidence" => UNCHANGED evidenceVars
    /\ moving # "bars" => UNCHANGED barVars
    /\ moving # "walk" => UNCHANGED walkVars

DecisionsNext ==
    \/ Still("orders") /\ Next
    \/ Still("gate") /\ GateNext
    \/ Still("package") /\ PackageNext
    \/ Still("universe") /\ UniverseNext
    \/ Still("replay") /\ ReplayNext
    \/ Still("evidence") /\ EvidenceNext
    \/ Still("bars") /\ BarsNext
    \/ Still("walk") /\ WalkNext

DecisionsVars ==
    <<part, vars, gateVars, packageVars, universeVars, replayVars, evidenceVars,
      barVars, walkVars>>

DecisionsSpec == DecisionsInit /\ [][DecisionsNext]_DecisionsVars

\* The type invariant of the part that moves; the others have not left their Init.
DecisionsTypeOK ==
    /\ part = "orders" => TypeOK
    /\ part = "gate" => GateTypeOK
    /\ part = "package" => PackageTypeOK
    /\ part = "universe" => UniverseTypeOK
    /\ part = "replay" => ReplayTypeOK
    /\ part = "evidence" => EvidenceTypeOK
    /\ part = "bars" => BarsTypeOK
    /\ part = "walk" => WalkTypeOK
=============================================================================
