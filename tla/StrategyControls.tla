--------------------------- MODULE StrategyControls ---------------------------
(***************************************************************************)
(* The runtime overrides of strategy settings: browsers on the management  *)
(* page of the dashboard, the dashboard that checks and stores their       *)
(* saves, and the automation that reloads the stored rows before each      *)
(* cycle.  Both containers read the portfolio file when they start, so     *)
(* between two releases they may hold different plans.                     *)
(*                                                                         *)
(* A plan gives every strategy of one account a capital weight (percent)   *)
(* and settings.  Of the settings, the symbols and the timeframe are left  *)
(* out: they are stored and shown like the Paper permission.               *)
(***************************************************************************)
EXTENDS Integers, FiniteSetsExt

CONSTANTS
    Strategies,           \* strategies of any released portfolio file
    Browsers,             \* pages of the dashboard
    Plans,                \* the account plan of each release
    MaxSaves,             \* bound on the saves ever made
    SavesDuringOverview   \* may a save commit while an overview is assembled?

Settings == [enabled : BOOLEAN, paper : BOOLEAN]
Allocations == [weight : 1..100, settings : Settings]

BaseSettings(plan) == [s \in DOMAIN plan |-> plan[s].settings]

\* AccountPlan.__post_init__: enabled capital weights do not exceed one.
WithinCapital(plan, settings) ==
    MapThenSumSet(LAMBDA s : plan[s].weight, {s \in DOMAIN plan : settings[s].enabled}) <= 100

\* A portfolio file that does not satisfy this keeps the container from starting.
ASSUME PlanAssumption ==
    \A p \in Plans :
        /\ DOMAIN p \subseteq Strategies /\ p \in [DOMAIN p -> Allocations]
        /\ WithinCapital(p, BaseSettings(p))
ASSUME StrategyAssumption == Strategies # {}
ASSUME SavesAssumption == MaxSaves \in Nat
ASSUME OverviewAssumption == SavesDuringOverview \in BOOLEAN

VARIABLES
    override,     \* strategy_configuration_overrides, a row for each strategy
    basePlan,     \* the plan each container read when it started
    stage,        \* what each browser is doing
    page,         \* the row of the management page each browser edits
    applied,      \* the automation's account_plan: settings of its strategies
    cycle         \* did the last reload of the automation succeed?

controlsVars == <<override, basePlan, stage, page, applied, cycle>>

Off == [enabled |-> FALSE, paper |-> FALSE]
NoOverride == [settings |-> Off, revision |-> 0]
NoPage == [strategy |-> CHOOSE s \in Strategies : TRUE, shown |-> Off, revision |-> 0, draft |-> Off]

ControlsTypeOK ==
    /\ override \in [Strategies -> [settings : Settings, revision : Nat]]
    /\ basePlan \in [{"dashboard", "automation"} -> Plans]
    /\ stage \in [Browsers -> {"away", "loading", "editing", "saving"}]
    /\ page \in [Browsers -> [strategy : Strategies, shown : Settings,
                              revision : Nat, draft : Settings]]
    /\ applied \in [DOMAIN basePlan["automation"] -> Settings]
    /\ cycle \in {"ok", "failed"}

-----------------------------------------------------------------------------
\* The settings of a plan's strategies under the stored rows; a row of a strategy
\* the plan does not have is dropped (strict=False).
Effective(plan, rows) ==
    [s \in DOMAIN plan |-> IF rows[s] = NoOverride THEN plan[s].settings ELSE rows[s].settings]

\* Rows of strategies the plan does not have.
Unknown(plan, rows) == {s \in Strategies \ DOMAIN plan : rows[s] # NoOverride}

\* update_strategy_configuration before the store is called: the request is
\* consistent and the proposed rows are strictly applicable to the plan.
Accepts(plan, rows, s, new) ==
    LET proposed == [rows EXCEPT ![s] = [settings |-> new, revision |-> 1]]
    IN  /\ new.paper => new.enabled
        /\ s \in DOMAIN plan
        /\ Unknown(plan, proposed) = {}
        /\ WithinCapital(plan, Effective(plan, proposed))

-----------------------------------------------------------------------------
ControlsInit ==
    /\ override = [s \in Strategies |-> NoOverride]
    /\ \E p \in Plans : basePlan = [c \in {"dashboard", "automation"} |-> p]
    /\ stage = [b \in Browsers |-> "away"]
    /\ page = [b \in Browsers |-> NoPage]
    /\ applied = BaseSettings(basePlan["automation"])
    /\ cycle = "ok"

Shown(b) == page[b].strategy

\* overview(), first read: the effective plans, which raise when the stored rows
\* do not fit the plan.  The page then shows the settings of one strategy.
ReadPlans(b, s) ==
    LET settings == Effective(basePlan["dashboard"], override)
    IN  /\ stage[b] \in {"away", "editing"}
        /\ s \in DOMAIN basePlan["dashboard"]
        /\ WithinCapital(basePlan["dashboard"], settings)
        /\ stage' = [stage EXCEPT ![b] = "loading"]
        /\ page' = [page EXCEPT ![b] = [NoPage EXCEPT !.strategy = s, !.shown = settings[s]]]
        /\ UNCHANGED <<override, basePlan, applied, cycle>>

\* overview(), second read: the rows again, for their revisions.
ReadOverrides(b) ==
    /\ stage[b] = "loading"
    /\ stage' = [stage EXCEPT ![b] = "editing"]
    /\ page' = [page EXCEPT ![b].revision = override[Shown(b)].revision]
    /\ UNCHANGED <<override, basePlan, applied, cycle>>

\* Mutant of LockFree: requests are handled without config_lock.
NeverLocked == TRUE

\* config_lock: one request at a time is between its check and its answer.
LockFree == \A b \in Browsers : stage[b] # "saving"

\* A save arrives; a request that is refused leaves everything as it was.
CheckUpdate(b, new) ==
    /\ stage[b] = "editing"
    /\ LockFree
    /\ Accepts(basePlan["dashboard"], override, Shown(b), new)
    /\ MapThenSumSet(LAMBDA s : override[s].revision, Strategies) < MaxSaves
    /\ stage' = [stage EXCEPT ![b] = "saving"]
    /\ page' = [page EXCEPT ![b].draft = new]
    /\ UNCHANGED <<override, basePlan, applied, cycle>>

\* Mutant of Current: only a revision from the future is a conflict.
NotAhead(b) == page[b].revision <= override[Shown(b)].revision

\* The revision the browser read is still that of the row.
Current(b) == page[b].revision = override[Shown(b)].revision

OverviewsDone == SavesDuringOverview \/ \A b \in Browsers : stage[b] # "loading"

\* set_strategy_configuration_override in one transaction; the page reloads.
SetOverride(b) ==
    /\ stage[b] = "saving"
    /\ Current(b)
    /\ OverviewsDone
    /\ override' = [override EXCEPT ![Shown(b)] =
                      [settings |-> page[b].draft, revision |-> @.revision + 1]]
    /\ stage' = [stage EXCEPT ![b] = "away"]
    /\ page' = [page EXCEPT ![b] = NoPage]
    /\ UNCHANGED <<basePlan, applied, cycle>>

\* configuration_revision_conflict: the page stays as it is.
RevisionConflict(b) ==
    /\ stage[b] = "saving"
    /\ ~Current(b)
    /\ stage' = [stage EXCEPT ![b] = "editing"]
    /\ UNCHANGED <<override, basePlan, page, applied, cycle>>

\* Mutant of Reloadable: the automation applies the rows strictly.
ReloadableStrictly(plan, rows) ==
    Unknown(plan, rows) = {} /\ WithinCapital(plan, Effective(plan, rows))

\* Mutant of Reloadable: replacing the allocations does not check the plan.
ReloadableUnchecked(plan, rows) == TRUE

\* apply_strategy_configuration_overrides(strict=False) does not raise.
Reloadable(plan, rows) == WithinCapital(plan, Effective(plan, rows))

\* The start of each automation cycle; a cycle whose rows do not fit fails and
\* leaves the plan of the cycle before.
RefreshAccountPlan ==
    LET plan == basePlan["automation"]
    IN  /\ IF Reloadable(plan, override)
           THEN applied' = Effective(plan, override) /\ cycle' = "ok"
           ELSE applied' = applied /\ cycle' = "failed"
        /\ UNCHANGED <<override, basePlan, stage, page>>

\* A release: the container starts with another portfolio file.  Requests in
\* flight end, and the pages' CSRF tokens die with the dashboard.
RestartDashboard(p) ==
    /\ basePlan' = [basePlan EXCEPT !["dashboard"] = p]
    /\ stage' = [b \in Browsers |-> "away"]
    /\ page' = [b \in Browsers |-> NoPage]
    /\ UNCHANGED <<override, applied, cycle>>

RestartAutomation(p) ==
    /\ basePlan' = [basePlan EXCEPT !["automation"] = p]
    /\ applied' = BaseSettings(p)
    /\ cycle' = "ok"
    /\ UNCHANGED <<override, stage, page>>

ControlsNext ==
    \/ \E b \in Browsers, s \in Strategies : ReadPlans(b, s)
    \/ \E b \in Browsers : ReadOverrides(b)
    \/ \E b \in Browsers, new \in Settings : CheckUpdate(b, new)
    \/ \E b \in Browsers : SetOverride(b)
    \/ \E b \in Browsers : RevisionConflict(b)
    \/ RefreshAccountPlan
    \/ \E p \in Plans : RestartDashboard(p)
    \/ \E p \in Plans : RestartAutomation(p)

ControlsSpec == ControlsInit /\ [][ControlsNext]_controlsVars

\* The automation's cycles never stop: an endless loop with bounded steps.
ControlsFairness == WF_controlsVars(RefreshAccountPlan)

-----------------------------------------------------------------------------
\* "A stale browser receives a revision conflict instead of overwriting a newer
\* change" (src/docs/STRATEGY_CONTROLS.md): whoever replaces settings was looking
\* at the settings it replaces.
SawWhatItReplaces ==
    \A s \in Strategies : override'[s] # override[s] =>
        \E b \in Browsers :
            /\ stage[b] = "saving" /\ Shown(b) = s
            /\ page[b].shown = Effective(basePlan["dashboard"], override)[s]

NewerChangeKept == [][SawWhatItReplaces]_controlsVars

\* Two saves, each within the capital on its own, never store together more than
\* the whole capital of the plan the dashboard runs with.
SavedPlanFits ==
    [][override' # override =>
         WithinCapital(basePlan["dashboard"], Effective(basePlan["dashboard"], override'))]_controlsVars

\* The automation never trades with more than the whole capital enabled, also
\* when rows saved under one release meet the weights of another.
AppliedWithinCapital == WithinCapital(basePlan["automation"], applied)

\* "The automation worker reloads it before each market cycle": whatever is stored
\* is applied again and again, also next to rows of strategies a release retired;
\* only rows that exceed the capital keep a cycle from running.
SavedChangesApply ==
    LET plan == basePlan["automation"]
    IN  []<>(applied = Effective(plan, override) \/ ~WithinCapital(plan, Effective(plan, override)))
=============================================================================
