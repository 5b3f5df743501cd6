--------------------------- MODULE OptionEvidence ---------------------------
(***************************************************************************)
(* The evidence kept for frozen option packages: each cycle takes the      *)
(* newest observations and the newest trade rows, then evaluates one       *)
(* package after the other on the bars of its legs, from the decision to   *)
(* the close of its trade, or to the time of the cycle.  Time is counted   *)
(* in bars; the bar of the current time is still forming.                  *)
(***************************************************************************)
EXTENDS Integers, FiniteSetsExt

CONSTANTS
    Packages,         \* intents of one account
    WindowFrom,       \* first time inside the exit_before_expiry_days of every package
    Lots,             \* approved quantities
    MaxBarTime        \* bound on barTime

ASSUME EvidenceAssumption ==
    /\ WindowFrom \in Nat /\ MaxBarTime \in Nat \ {0}
    /\ Lots \subseteq Nat \ {0}

VARIABLES
    barTime,    \* the present
    marks,      \* what the bars of a package say at each time
    decided,    \* decision_at, 0 before it
    observed,   \* packages with a row in option_package_observations
    trades,     \* trade_records of the packages
    crowded,    \* packages whose trade row is not among the newest 200 of all accounts
    evidence,   \* option_package_evidence
    round       \* locals of run_cycle

evidenceVars == <<barTime, marks, decided, observed, trades, crowded, evidence, round>>

\* "gap": some leg has no bar; "even": all have, and neither limit is reached;
\* "limit": the profit target or the loss limit is.
Marks == {"gap", "even", "limit"}

NoTradeRow == [state |-> "none", approved |-> 0, closedAt |-> 0]
NoEvidence == [at |-> 0, end |-> 0, exit |-> 0, quantity |-> 0]
NoRound == [at |-> 0, todo |-> {}, rows |-> [p \in {} |-> NoTradeRow]]

EvidenceInit ==
    /\ barTime = 1
    /\ marks = [p \in Packages |-> [b \in 1..MaxBarTime |-> "gap"]]
    /\ decided = [p \in Packages |-> 0]
    /\ observed = {}
    /\ trades = [p \in Packages |-> NoTradeRow]
    /\ crowded = {}
    /\ evidence = [p \in Packages |-> NoEvidence]
    /\ round = NoRound

-----------------------------------------------------------------------------
(* The automation and the market, while a cycle runs or between cycles.    *)
BarEnds ==
    /\ barTime < MaxBarTime
    /\ barTime' = barTime + 1
    /\ UNCHANGED <<marks, decided, observed, trades, crowded, evidence, round>>

\* A trade in the last leg without one, or one that moves the close of the bar.
BarChanges(p) ==
    /\ decided[p] # 0
    /\ \E k \in Marks \ {"gap", marks[p][barTime]} :
          marks' = [marks EXCEPT ![p][barTime] = k]
    /\ UNCHANGED <<barTime, decided, observed, trades, crowded, evidence, round>>

\* A package is selected: observed, or, before observations were kept, only traded.
DecidePackage(p) ==
    /\ decided[p] = 0
    /\ decided' = [decided EXCEPT ![p] = barTime]
    /\ \/ observed' = observed \cup {p} /\ UNCHANGED trades
       \/ /\ trades' = [trades EXCEPT ![p].state = "reviewed"]
          /\ UNCHANGED observed
    /\ UNCHANGED <<barTime, marks, crowded, evidence, round>>

ApprovePackage(p) ==
    /\ decided[p] # 0 /\ trades[p].state \in {"none", "reviewed"}
    /\ \E q \in Lots : trades' = [trades EXCEPT ![p].state = "open", ![p].approved = q]
    /\ UNCHANGED <<barTime, marks, decided, observed, crowded, evidence, round>>

ClosePackage(p) ==
    /\ trades[p].state = "open"
    /\ trades' = [trades EXCEPT ![p].state = "closed", ![p].closedAt = barTime]
    /\ UNCHANGED <<barTime, marks, decided, observed, crowded, evidence, round>>

\* Rows of other signals and accounts push one off the page of 200.
CrowdOut(p) ==
    /\ p \notin crowded /\ trades[p] # NoTradeRow
    /\ crowded' = crowded \cup {p}
    /\ UNCHANGED <<barTime, marks, decided, observed, trades, evidence, round>>

-----------------------------------------------------------------------------
(* run_cycle.                                                              *)
TradePage == {p \in Packages \ crowded : trades[p] # NoTradeRow}

BeginRound ==
    /\ round = NoRound
    \* The newest maximum_observations: any package may have that many after it.
    /\ \E chosen \in (SUBSET (observed \cup TradePage)) \ {{}} :
          round' = [at |-> barTime, todo |-> chosen, rows |-> [p \in TradePage |-> trades[p]]]
    /\ UNCHANGED <<barTime, marks, decided, observed, trades, crowded, evidence>>

\* Mutant of EndOf: the present is read again for every package.
EndOfPresent(p) ==
    IF p \in DOMAIN round.rows /\ round.rows[p].state = "closed"
       /\ round.at > round.rows[p].closedAt
    THEN barTime
    ELSE round.at

\* The end of the bars asked for.
EndOf(p) ==
    IF p \in DOMAIN round.rows /\ round.rows[p].state = "closed"
    THEN Min({round.at, round.rows[p].closedAt})
    ELSE round.at

QuantityOf(p) ==
    IF p \in DOMAIN round.rows /\ round.rows[p].approved > 0 THEN round.rows[p].approved ELSE 1

\* The bars fetched for the legs.
BarsOf(p) == decided[p]..EndOf(p)

\* The times all legs have a bar for.
Points(p) == {b \in BarsOf(p) : marks[p][b] # "gap"}

\* Mutant of Searched: only the points kept for display are searched.
SearchedDisplayed(p) == IF Points(p) = {} THEN {} ELSE {Max(Points(p))}

\* The points the first policy exit is looked for in.
Searched(p) == Points(p)

PolicyExits(p) == {b \in Searched(p) : marks[p][b] = "limit" \/ b >= WindowFrom}

\* The result of evaluate_option_package_path.
PathEvidence(p) ==
    [at |-> round.at,
     end |-> IF Points(p) = {} THEN 0 ELSE Max(Points(p)),
     exit |-> IF PolicyExits(p) = {} THEN 0 ELSE Min(PolicyExits(p)),
     quantity |-> QuantityOf(p)]

\* One row per package, replaced by each cycle.
RecordEvidence(p, e) == evidence' = [evidence EXCEPT ![p] = e]

EvaluatePackage(p) ==
    /\ p \in round.todo
    /\ RecordEvidence(p, PathEvidence(p))
    /\ round' = IF round.todo = {p} THEN NoRound ELSE [round EXCEPT !.todo = @ \ {p}]
    /\ UNCHANGED <<barTime, marks, decided, observed, trades, crowded>>

\* No bars from the broker, or a malformed observation: the next package goes on.
PackageFails(p) ==
    /\ p \in round.todo
    /\ round' = IF round.todo = {p} THEN NoRound ELSE [round EXCEPT !.todo = @ \ {p}]
    /\ UNCHANGED <<barTime, marks, decided, observed, trades, crowded, evidence>>

\* Any other exception, or a restart.
RoundAborts ==
    /\ round # NoRound
    /\ round' = NoRound
    /\ UNCHANGED <<barTime, marks, decided, observed, trades, crowded, evidence>>

-----------------------------------------------------------------------------
EvidenceNext ==
    \/ BarEnds \/ BeginRound \/ RoundAborts
    \/ \E p \in Packages :
          \/ BarChanges(p) \/ DecidePackage(p) \/ ApprovePackage(p) \/ ClosePackage(p)
          \/ CrowdOut(p) \/ EvaluatePackage(p) \/ PackageFails(p)

EvidenceSpec == EvidenceInit /\ [][EvidenceNext]_evidenceVars

-----------------------------------------------------------------------------
EvidenceTypeOK ==
    /\ barTime \in 1..MaxBarTime
    /\ marks \in [Packages -> [1..MaxBarTime -> Marks]]
    /\ decided \in [Packages -> 0..barTime]
    /\ observed \subseteq Packages /\ crowded \subseteq Packages
    /\ trades \in [Packages -> [state : {"none", "reviewed", "open", "closed"},
                                approved : Lots \cup {0}, closedAt : 0..barTime]]
    /\ evidence \in [Packages -> [at : 0..barTime, end : 0..barTime, exit : 0..barTime,
                                  quantity : Lots \cup {0, 1}]]
    /\ round.at \in 0..barTime /\ round.todo \subseteq Packages
    /\ round = NoRound <=> round.todo = {}

(* Evidence of a package whose trade is closed, and whose row is still on  *)
(* the page of trades a cycle reads, covers no bar after the close: a      *)
(* result the account never had is not shown as the path of its trade,     *)
(* although trades close while a cycle is on its way                       *)
(* (ContinuousOptionEvidenceService.run_cycle).                            *)
EvidenceEndsAtClose ==
    \A p \in Packages :
        trades[p].state = "closed" /\ p \notin crowded => evidence[p].end <= trades[p].closedAt

(* A policy exit found on a finished bar is final: no later cycle, with    *)
(* longer paths, other quantities, a close, or a trade row lost from the   *)
(* page, moves or withdraws it (evaluate_option_package_path).             *)
PolicyExitStable ==
    [][\A p \in Packages :
          evidence[p].exit # 0 /\ evidence[p].exit < evidence[p].at
              => evidence'[p].exit = evidence[p].exit]_evidence
=============================================================================
