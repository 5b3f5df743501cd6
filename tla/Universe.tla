------------------------------ MODULE Universe ------------------------------
(***************************************************************************)
(* The asset universe: a cycle screens the candidates of one policy after  *)
(* the other and records a report for each; the strategy lab takes the     *)
(* symbols of a strategy from the newest report of its policy.  The        *)
(* service and the command asset-universe --once may run at the same time. *)
(***************************************************************************)
EXTENDS Integers, SequencesExt, FiniteSetsExt

CONSTANTS
    Screeners,       \* processes that run cycles
    PolicyOrder,     \* program.policies, in the order of the file and of their ids
    Assets,          \* candidates, in the order their evidence is collected
    References,      \* program.asset_references: symbol -> date, of a large enough size
    Watchlist,       \* account_plan.watchlist
    MaxEvidenceAge,  \* maximum_company_size_age_days
    PageLength,      \* reports the lab reads, 100 in the code
    MaxDate, MaxReports    \* bounds on date and on the length of reports

ASSUME UniverseAssumption ==
    /\ PolicyOrder \in Seq(STRING) /\ PolicyOrder # <<>>
    /\ Assets \in Seq(STRING)
    /\ References \in [DOMAIN References -> Nat]
    /\ MaxEvidenceAge \in Nat /\ PageLength \in Nat \ {0}
    /\ MaxDate \in Nat \ {0} /\ MaxReports \in Nat \ {0}

VARIABLES
    date,       \* the present
    filings,    \* SEC facts of a symbol by the date they are as of
    reports,    \* asset_universe_reports, in the order they were written
    screening   \* locals of run_cycle

universeVars == <<date, filings, reports, screening>>

NoScreening == [at |-> 0, policy |-> 0, symbol |-> 0, sized |-> {}, secAvailable |-> TRUE]

Unreferenced == ToSet(Assets) \ DOMAIN References

UniverseInit ==
    /\ date = 1
    /\ filings = [s \in Unreferenced |-> [d \in 1..MaxDate |-> "none"]]
    /\ reports = <<>>
    /\ screening = [c \in Screeners |-> NoScreening]

-----------------------------------------------------------------------------
DatePasses ==
    /\ date < MaxDate
    /\ date' = date + 1
    /\ UNCHANGED <<filings, reports, screening>>

\* External: a company reports facts that make it "large" enough, or "small".
CompanyFiles(s) ==
    /\ filings[s][date] = "none"
    /\ \E f \in {"large", "small"} : filings' = [filings EXCEPT ![s][date] = f]
    /\ UNCHANGED <<date, reports, screening>>

-----------------------------------------------------------------------------
(* Evidence.                                                               *)
\* Mutant of Fresh: evidence is never too old.
FreshAtAnyAge(asOf, at) == asOf <= at

\* _fresh: neither from the future nor too old.
Fresh(asOf, at) == 0 <= at - asOf /\ at - asOf <= MaxEvidenceAge

\* _latest_fact.
LatestFiling(s) ==
    LET dates == {d \in 1..MaxDate : filings[s][d] # "none"}
    IN  IF dates = {} THEN 0 ELSE Max(dates)

\* The evidence of the SEC makes s pass both size gates.
SecPasses(s, at) ==
    LET d == LatestFiling(s) IN d # 0 /\ filings[s][d] = "large" /\ Fresh(d, at)

\* Mutant of OutageEvidence: the evidence of the symbol before is left in place.
OutageEvidenceOfLast(c) ==
    \E i \in DOMAIN Assets : i + 1 = screening[c].symbol /\ Assets[i] \in screening[c].sized

\* What company_size leaves for a symbol when the SEC cannot be reached.
OutageEvidence(c) == FALSE

-----------------------------------------------------------------------------
(* run_cycle.                                                              *)
PolicyStart(at, policy) == [NoScreening EXCEPT !.at = at, !.policy = policy, !.symbol = 1]

BeginScreening(c) ==
    /\ screening[c] = NoScreening /\ Len(reports) < MaxReports
    /\ screening' = [screening EXCEPT ![c] = PolicyStart(date, 1)]
    /\ UNCHANGED <<date, filings, reports>>

Collecting(c) == screening[c] # NoScreening /\ screening[c].symbol <= Len(Assets)

Collect(c, passes, available) ==
    screening' = [screening EXCEPT
        ![c].symbol = @ + 1,
        ![c].sized = IF passes THEN @ \cup {Assets[screening[c].symbol]} ELSE @,
        ![c].secAvailable = available]

\* A dated reference is preferred to the SEC.
CollectReference(c) ==
    /\ Collecting(c)
    /\ LET s == Assets[screening[c].symbol]
       IN  /\ s \in DOMAIN References
           /\ Collect(c, Fresh(References[s], screening[c].at), screening[c].secAvailable)
    /\ UNCHANGED <<date, filings, reports>>

CollectFromSec(c) ==
    /\ Collecting(c) /\ screening[c].secAvailable
    /\ LET s == Assets[screening[c].symbol]
       IN  /\ s \notin DOMAIN References
           /\ Collect(c, SecPasses(s, screening[c].at), TRUE)
    /\ UNCHANGED <<date, filings, reports>>

\* The SEC is not asked again for the rest of the policy.
SecOutage(c) ==
    /\ Collecting(c) /\ Assets[screening[c].symbol] \notin DOMAIN References
    /\ Collect(c, screening[c].secAvailable /\ OutageEvidence(c), FALSE)
    /\ UNCHANGED <<date, filings, reports>>

\* evaluate, and record_asset_universe_report; then the next policy.  Any of the
\* candidates of enough size may pass the gates on exchange, price, volume, and index.
RecordReport(c) ==
    /\ screening[c] # NoScreening /\ ~ Collecting(c) /\ Len(reports) < MaxReports
    /\ \E picked \in SUBSET screening[c].sized :
          reports' = Append(reports, [policy |-> PolicyOrder[screening[c].policy],
                                      at |-> screening[c].at, picked |-> picked])
    /\ screening' = [screening EXCEPT ![c] =
          IF @.policy = Len(PolicyOrder) THEN NoScreening ELSE PolicyStart(@.at, @.policy + 1)]
    /\ UNCHANGED <<date, filings>>

\* No catalog, no bars, an SEC read that times out, or a restart.
ScreeningAborts(c) ==
    /\ screening[c] # NoScreening
    /\ screening' = [screening EXCEPT ![c] = NoScreening]
    /\ UNCHANGED <<date, filings, reports>>

UniverseNext ==
    \/ DatePasses
    \/ \E s \in Unreferenced : CompanyFiles(s)
    \/ \E c \in Screeners :
          \/ BeginScreening(c) \/ CollectReference(c) \/ CollectFromSec(c) \/ SecOutage(c)
          \/ RecordReport(c) \/ ScreeningAborts(c)

UniverseSpec == UniverseInit /\ [][UniverseNext]_universeVars

-----------------------------------------------------------------------------
(* What the lab takes.                                                     *)
\* Mutant of Newer: the report written last counts as the newest.
NewerByWriting(i, j) == i > j

\* ORDER BY evaluated_at DESC, policy_id; then as the rows come in the index.
Rank(policy) == CHOOSE k \in DOMAIN PolicyOrder : PolicyOrder[k] = policy
Newer(i, j) ==
    \/ reports[i].at > reports[j].at
    \/ /\ reports[i].at = reports[j].at
       /\ \/ Rank(reports[i].policy) < Rank(reports[j].policy)
          \/ reports[i].policy = reports[j].policy /\ i < j

\* recent_asset_universe_reports
OnReportPage(i) == Cardinality({j \in DOMAIN reports : Newer(j, i)}) < PageLength

\* recommendations_from_reports: the report used for a policy, 0 without one.
ReportFor(policy) ==
    LET mine == {i \in DOMAIN reports : reports[i].policy = policy}
        newest == CHOOSE i \in mine : \A j \in mine \ {i} : Newer(i, j)
    IN  IF mine # {} /\ OnReportPage(newest) THEN newest ELSE 0

\* assigned_symbols, for selection_mode "recommended" and the report used.
Assigned(i) == IF i = 0 \/ reports[i].picked = {} THEN Watchlist ELSE reports[i].picked

-----------------------------------------------------------------------------
UniverseTypeOK ==
    /\ date \in 1..MaxDate
    /\ filings \in [Unreferenced -> [1..MaxDate -> {"none", "large", "small"}]]
    /\ \A i \in DOMAIN reports :
          reports[i].policy \in ToSet(PolicyOrder) /\ reports[i].picked \subseteq ToSet(Assets)
    /\ \A c \in Screeners : screening[c].at <= date /\ screening[c].policy <= Len(PolicyOrder)

(* A strategy on recommendations works on a symbol outside the watchlist   *)
(* only if a dated reference, or a filing of that very company, was large  *)
(* enough and recent enough when the report was evaluated: an outage of    *)
(* the SEC in the middle of a policy, a filing that arrives while a cycle  *)
(* is on its way, or two cycles at once never let a symbol through         *)
(* (docs/ASSET_UNIVERSE.md: stale or absent evidence fails closed).        *)
AssignedOnEvidence ==
    \A k \in DOMAIN PolicyOrder :
        LET i == ReportFor(PolicyOrder[k])
        IN  \A s \in Assigned(i) \ Watchlist :
                \/ s \in DOMAIN References
                   /\ References[s] \in reports[i].at - MaxEvidenceAge..reports[i].at
                \/ s \in Unreferenced
                   /\ \E d \in 1..reports[i].at :
                         filings[s][d] = "large" /\ d >= reports[i].at - MaxEvidenceAge

(* The lab never goes back to an older evaluation of a policy while it     *)
(* finds one, although a slow cycle may write its report after the one of  *)
(* a cycle that began later (recommendations_from_reports).                *)
NeverOlderReport ==
    [][Len(reports') > Len(reports) =>
          \A k \in DOMAIN PolicyOrder :
              LET i == ReportFor(PolicyOrder[k])
                  j == ReportFor(PolicyOrder[k])'
              IN  i # 0 /\ j # 0 => reports'[j].at >= reports[i].at]_reports
=============================================================================
