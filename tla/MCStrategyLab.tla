---------------------------- MODULE MCStrategyLab ----------------------------
(* Two strategies; "trend" has the baseline 1 and the comparisons 2 and 3. *)
(* The second release makes 2 the baseline, retires 3 and, under the id 2, *)
(* begins the observation earlier than the first release said.             *)
EXTENDS StrategyLab

Manifest(s, p, start) ==
    [strategy |-> s, parameters |-> p, start |-> start, status |-> "frozen_research"]

FirstProgram == <<Manifest("trend", "p1", 1), Manifest("trend", "p2", 2),
                  Manifest("trend", "p3", 1), Manifest("credit", "p4", 0)>>

FirstRelease ==
    [program |-> FirstProgram, baseline |-> [trend |-> 1, credit |-> 4],
     code |-> [trend |-> "p1", credit |-> "p4"]]

SecondRelease ==
    [program |-> [e \in {1, 2, 4} |-> IF e = 2 THEN Manifest("trend", "p2", 1) ELSE FirstProgram[e]],
     baseline |-> [trend |-> 2, credit |-> 4],
     code |-> [trend |-> "p2", credit |-> "p4"]]

\* The strategy's code has moved on without a new experiment: no cycle runs.
DriftedRelease == [SecondRelease EXCEPT !.code["credit"] = "p5"]

MCReleases == {FirstRelease, SecondRelease, DriftedRelease}
MCManifests == UNION {{r.program[e] : e \in DOMAIN r.program} : r \in MCReleases}
=============================================================================
