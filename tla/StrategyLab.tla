----------------------------- MODULE StrategyLab -----------------------------
(***************************************************************************)
(* The strategy lab of one account and its registry: the experiments of a  *)
(* release, the cycles that evaluate them, the append-only trials with     *)
(* their chain of hashes, and the dashboard that verifies the chain.       *)
(*                                                                         *)
(* A hash covers the row and the hash before it; here it is the position   *)
(* of the trial, 0 for none.  A fingerprint of a manifest is the manifest. *)
(* Backtests are left out: a report is what the registry keeps of it.      *)
(***************************************************************************)
EXTENDS Integers, FiniteSets, Sequences, SequencesExt

CONSTANTS
    LabStrategies,     \* strategies of the account
    Experiments,       \* experiment ids, numbered in their sort order
    Manifests,         \* what an id may stand for
    LabReleases,       \* experiment programs and code that may be deployed
    SlotLength,        \* comparison_rotation_seconds
    VariantsPerCycle,  \* comparison_variants_per_strategy_cycle
    PageSize,          \* trials the dashboard shows
    MaxLabTime,        \* bound on the clock
    MaxTrials          \* bound on the registry

NoManifest == [strategy |-> "none"]

ASSUME ExperimentAssumption == Experiments \subseteq Nat /\ IsFiniteSet(Experiments)
ASSUME SlotAssumption == SlotLength \in Nat \ {0} /\ VariantsPerCycle \in Nat \ {0}
ASSUME ManifestAssumption ==
    \A m \in Manifests : m # NoManifest /\ m.strategy \in LabStrategies /\ m.start \in Nat
\* StrategyExperimentProgram.__post_init__: every strategy has a baseline, and a
\* comparison that of its strategy.
ASSUME ReleaseAssumption ==
    \A r \in LabReleases :
        /\ DOMAIN r.program \subseteq Experiments
        /\ \A e \in DOMAIN r.program : r.program[e] \in Manifests
        /\ \A s \in LabStrategies :
              r.baseline[s] \in DOMAIN r.program /\ r.program[r.baseline[s]].strategy = s
ASSUME LabBoundsAssumption == MaxLabTime \in Nat /\ MaxTrials \in Nat /\ PageSize \in Nat

VARIABLES
    release,      \* program and code of the running lab
    labNow,       \* wall clock
    pending,      \* jobs of this cycle whose report is not yet recorded
    evaluatedAt,  \* when this cycle began
    registered,   \* strategy_experiment_manifests
    trials,       \* strategy_model_trials by sequence
    chainRead,    \* how many rows the dashboard's first read saw, or -1
    verdict       \* what the dashboard last said of the page

registry == <<registered, trials>>
dashboard == <<chainRead, verdict>>
labVars == <<release, labNow, pending, evaluatedAt, registered, trials, chainRead, verdict>>

Trials == [ strategy : LabStrategies, experiment : Experiments, manifest : Manifests,
            prospective : BOOLEAN, at : 0..MaxLabTime, previous : Nat ]

LabTypeOK ==
    /\ release \in LabReleases
    /\ labNow \in 0..MaxLabTime /\ evaluatedAt \in 0..MaxLabTime
    /\ pending \in Seq(Experiments)
    /\ registered \in [Experiments -> Manifests \cup {NoManifest}]
    /\ trials \in Seq(Trials)
    /\ chainRead \in Nat \cup {-1}
    /\ verdict \in {"none", "intact", "broken", "raised"}

-----------------------------------------------------------------------------
\* Experiments of a release that compare with the baseline of a strategy.
Comparisons(r, s) ==
    {e \in DOMAIN r.program : r.program[e].strategy = s /\ r.baseline[s] # e}

\* StrategyExperimentProgram.bind does not raise: the experiment is active and the
\* strategy that runs has the parameters of the manifest, its version among them.  A
\* comparison strategy is built from them; a baseline is the strategy of the code.
Binds(r, e) ==
    LET m == r.program[e]
    IN  /\ m.status = "frozen_research"
        /\ r.baseline[m.strategy] = e => m.parameters = r.code[m.strategy]

\* The service binds every comparison when it is constructed.
ServiceStarts(r) == \A s \in LabStrategies : \A e \in Comparisons(r, s) : Binds(r, e)

\* The comparisons of a strategy in the rotation slot of time t: in the order of
\* their ids, the one whose turn it is and those after it.
Selected(r, s, t) ==
    LET candidates == Comparisons(r, s)
        n == Cardinality(candidates)
        turns == {((t \div SlotLength) + k) % n : k \in 0..(VariantsPerCycle - 1)}
    IN  {e \in candidates : Cardinality({d \in candidates : d < e}) \in turns}

\* Jobs of a cycle: the baseline of every strategy, then the comparisons.
Jobs(r, t) ==
    SetToSeq({r.baseline[s] : s \in LabStrategies})
    \o SetToSeq(UNION {Selected(r, s, t) : s \in {c \in LabStrategies : Comparisons(r, c) # {}}})

LabInit ==
    /\ release \in {r \in LabReleases : ServiceStarts(r)}
    /\ labNow = 0 /\ evaluatedAt = 0
    /\ pending = <<>>
    /\ registered = [e \in Experiments |-> NoManifest]
    /\ trials = <<>>
    /\ chainRead = -1
    /\ verdict = "none"

LabTick ==
    /\ labNow < MaxLabTime
    /\ labNow' = labNow + 1
    /\ UNCHANGED <<release, pending, evaluatedAt, registry, dashboard>>

\* A cycle binds the experiment of each of its jobs, or fails before the first.
StartCycle ==
    LET jobs == Jobs(release, labNow)
    IN  /\ pending = <<>>
        /\ \A i \in DOMAIN jobs : Binds(release, jobs[i])
        /\ pending' = jobs
        /\ evaluatedAt' = labNow
        /\ UNCHANGED <<release, labNow, registry, dashboard>>

\* The hash of the last of some trials.
Latest(S) == IF S = {} THEN 0 ELSE CHOOSE i \in S : \A j \in S : j <= i

\* Mutant of Previous: the last trial by evaluation time; the trials of a cycle
\* share theirs.
PreviousByTime(s) ==
    LET own == {i \in DOMAIN trials : trials[i].strategy = s}
    IN  IF own = {} THEN 0
        ELSE CHOOSE i \in own : \A j \in own : trials[j].at < trials[i].at
                                               \/ (trials[j].at = trials[i].at /\ i <= j)

\* The hash of the last trial of a strategy.
Previous(s) == Latest({i \in DOMAIN trials : trials[i].strategy = s})

\* Mutant of Prospective: every trial of an experiment counts.
ProspectiveAnyTime(m, t) == TRUE

Prospective(m, t) == t >= m.start

\* Mutant of Registrable: a second manifest under a registered id is accepted.
AlwaysRegistrable(e, m) == TRUE

\* An experiment id stands for one manifest for ever.
Registrable(e, m) == registered[e] \in {NoManifest, m}

\* record_strategy_lab_report: report, manifest if new, and trial in a transaction.
RecordReport ==
    LET e == Head(pending)
        m == release.program[e]
    IN  /\ pending # <<>>
        /\ Len(trials) < MaxTrials
        /\ Registrable(e, m)
        /\ registered' = [registered EXCEPT ![e] = IF @ = NoManifest THEN m ELSE @]
        /\ trials' = Append(trials, [strategy |-> m.strategy, experiment |-> e, manifest |-> m,
                                     prospective |-> Prospective(m, evaluatedAt),
                                     at |-> evaluatedAt, previous |-> Previous(m.strategy)])
        /\ pending' = Tail(pending)
        /\ UNCHANGED <<release, labNow, evaluatedAt, dashboard>>

\* "already registered with different evidence": the cycle goes on without it.
RegistrationConflict ==
    /\ pending # <<>>
    /\ ~Registrable(Head(pending), release.program[Head(pending)])
    /\ pending' = Tail(pending)
    /\ UNCHANGED <<release, labNow, evaluatedAt, registry, dashboard>>

\* Any other failure ends the cycle; the next one starts over.
AbandonCycle ==
    /\ pending # <<>>
    /\ pending' = <<>>
    /\ UNCHANGED <<release, labNow, evaluatedAt, registry, dashboard>>

RestartLab(r) ==
    /\ ServiceStarts(r)
    /\ release' = r
    /\ pending' = <<>>
    /\ UNCHANGED <<labNow, evaluatedAt, registry, dashboard>>

\* recent_strategy_model_trials, first read: the hashes of all rows.
ReadChain ==
    /\ chainRead = -1
    /\ chainRead' = Len(trials)
    /\ UNCHANGED <<release, labNow, pending, evaluatedAt, registry, verdict>>

\* Its second read: the newest rows.
Page == {i \in DOMAIN trials : i > Len(trials) - PageSize}

\* What the rows of the first read say the previous hash of a row should be.
ExpectedPrevious(i) ==
    Latest({j \in 1..(i - 1) : trials[j].strategy = trials[i].strategy})

\* A row the first read has not seen raises KeyError.
VerifyPage ==
    /\ chainRead # -1
    /\ verdict' = IF \E i \in Page : i > chainRead THEN "raised"
                  ELSE IF \A i \in Page : trials[i].previous = ExpectedPrevious(i) THEN "intact"
                  ELSE "broken"
    /\ chainRead' = -1
    /\ UNCHANGED <<release, labNow, pending, evaluatedAt, registry>>

LabNext ==
    \/ LabTick
    \/ StartCycle
    \/ RecordReport
    \/ RegistrationConflict
    \/ AbandonCycle
    \/ \E r \in LabReleases : RestartLab(r)
    \/ ReadChain
    \/ VerifyPage

LabSpec == LabInit /\ [][LabNext]_labVars

-----------------------------------------------------------------------------
\* strategy_experiment_summaries: the trials that count towards the minimum a
\* review waits for.
Counted(e) == {i \in DOMAIN trials : trials[i].experiment = e /\ trials[i].prospective}

\* "An existing experiment ID cannot be reused with a different fingerprint"
\* (src/docs/MODEL_TRIAL_REGISTRY.md): all evidence of an experiment is evidence
\* for the manifest registered with its first trial, whatever is released later.
EvidenceOfOneManifest ==
    \A i \in DOMAIN trials : trials[i].manifest = registered[trials[i].experiment]

\* "A trial before the observation boundary ... does not count toward prospective
\* evidence" (src/docs/STRATEGY_EXPERIMENTS.md): no release can move the boundary
\* of an experiment so that an earlier trial counts.
CountedAfterBoundary ==
    \A e \in Experiments : \A i \in Counted(e) : trials[i].at >= registered[e].start

\* The dashboard never shows a link as broken that the lab recorded, however its
\* two reads interleave with the lab's transactions.
NoFalseAlarm == verdict # "broken"
=============================================================================
