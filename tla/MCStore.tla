------------------------------- MODULE MCStore -------------------------------
(* Parts of the program that serve the trading cycles: the equity row of   *)
(* an account, the strategy overrides, the strategy lab, the loop of a     *)
(* worker over its accounts, and the actions of administrators.  None      *)
(* reads what another writes, so each is explored alone: part says which   *)
(* one moves, and fairness is that of the part that does.                  *)
EXTENDS EquityState, MCStrategyControls, MCStrategyLab, ServiceLoop, ControlPlane

VARIABLE part

MCLoopAccounts == <<"a1", "a2">>

StoreInit ==
    /\ part \in {"equity", "controls", "lab", "loop", "plane"}
    /\ Init /\ ControlsInit /\ LabInit /\ LoopInit /\ PlaneInit
    /\ part # "equity" => equity = 1
    /\ part # "controls" => basePlan["dashboard"] = FirstPlan
    /\ part # "lab" => release = FirstRelease
    /\ part # "loop" => loopKind = "heartbeat" /\ ~ databaseUp

Still(moving) ==
    /\ moving = part
    /\ UNCHANGED part
    /\ moving # "equity" => UNCHANGED vars
    /\ moving # "controls" => UNCHANGED controlsVars
    /\ moving # "lab" => UNCHANGED labVars
    /\ moving # "loop" => UNCHANGED loopVars
    /\ moving # "plane" => UNCHANGED planeVars

StoreNext ==
    \/ Still("equity") /\ Next
    \/ Still("controls") /\ ControlsNext
    \/ Still("lab") /\ LabNext
    \/ Still("loop") /\ LoopNext
    \/ Still("plane") /\ PlaneNext

\* ControlsFairness and LoopFairness, each for the part that moves.
StoreFairness ==
    /\ WF_controlsVars(part = "controls" /\ RefreshAccountPlan)
    /\ WF_loopVars(part = "loop" /\ LoopStep) /\ WF_loopVars(part = "loop" /\ AgeHealth)

StoreVars == <<part, vars, controlsVars, labVars, loopVars, planeVars>>

StoreSpec == StoreInit /\ [][StoreNext]_StoreVars /\ StoreFairness
=============================================================================
