-------------------------- MODULE DecisionsProofs --------------------------
(***************************************************************************)
(* The joint run of the parts that decide about orders (MCDecisions).  A   *)
(* part that does not move stutters, so a behaviour of the joint run is    *)
(* one of each part: what is proved of a part holds of the joint run, and  *)
(* what the run finds of a part would be found of it alone.                *)
(***************************************************************************)
EXTENDS MCDecisions, EntryProofs, EvaluationProofs, CollectorProofs

\* The specification of every part.
EachPart ==
    /\ Spec /\ GateSpec /\ PackageSpec /\ UniverseSpec
    /\ ReplaySpec /\ EvidenceSpec /\ BarsSpec /\ WalkSpec

\* A joint step is a step of each part, or leaves it alone.
LEMMA JointStep ==
    [DecisionsNext]_DecisionsVars =>
        /\ [Next]_vars /\ [GateNext]_gateVars /\ [PackageNext]_packageVars
        /\ [UniverseNext]_universeVars /\ [ReplayNext]_replayVars
        /\ [EvidenceNext]_evidenceVars /\ [BarsNext]_barVars /\ [WalkNext]_walkVars
BY DEF DecisionsNext, DecisionsVars, Still

\* The joint run is one of every part.
LEMMA PartsRunAlone == DecisionsSpec => EachPart
<1>1. DecisionsInit =>
         /\ Init /\ GateInit /\ PackageInit /\ UniverseInit
         /\ ReplayInit /\ EvidenceInit /\ BarsInit /\ WalkInit
  BY DEF DecisionsInit
<1>2. QED
  BY <1>1, JointStep, PTL
     DEF DecisionsSpec, EachPart, Spec, GateSpec, PackageSpec, UniverseSpec, ReplaySpec,
         EvidenceSpec, BarsSpec, WalkSpec

\* Whichever part moves keeps its types.
THEOREM DecisionsTypeCorrect == DecisionsSpec => []DecisionsTypeOK
<1>1. /\ TypeOK /\ GateTypeOK /\ PackageTypeOK /\ UniverseTypeOK
      /\ ReplayTypeOK /\ EvidenceTypeOK /\ BarsTypeOK /\ WalkTypeOK
      => DecisionsTypeOK
  BY DEF DecisionsTypeOK
<1>2. QED
  BY <1>1, PartsRunAlone, LifecycleTypeCorrect, GateTypeCorrect, PackageTypeCorrect,
     UniverseTypeCorrect, ReplayTypeCorrect, EvidenceTypeCorrect, BarsTypeCorrect,
     WalkTypeCorrect, PTL
     DEF EachPart
=============================================================================
