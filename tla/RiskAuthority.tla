--------------------------- MODULE RiskAuthority ---------------------------
(***************************************************************************)
(* The firm-wide risk authority: the risk_reservations table, the equity   *)
(* each account was last observed with, and every transaction that writes  *)
(* a reservation.  SqliteAuditStore runs each method under BEGIN IMMEDIATE *)
(* (src/src/multitrade/audit.py), so one method is one action.             *)
(*                                                                         *)
(* Amounts are whole multiples of the smallest amount of money, fractions  *)
(* are whole percents, and a budget is kept multiplied by 100 so that the  *)
(* arithmetic is exact, as Decimal's is.  A quantity is a whole number of  *)
(* the asset's quanta: shares, contracts, or 10^-8 of a coin.              *)
(***************************************************************************)
EXTENDS Integers, FiniteSets

CONSTANTS
    Accounts,        \* managed account ids
    Intents,         \* intent ids
    Symbols,         \* underlyings
    Groups,          \* source strategies ("risk_group")
    Order,           \* the TradeIntent of each intent id
    MaxPerTrade,     \* RiskPolicy, in percent
    MaxOptionPerTrade,
    MaxTotalOpen,
    MaxDailyLoss,
    MaxDrawdown,
    MaxNotional,
    FirmEnabled,     \* FirmRiskPolicy.enabled
    FirmTotalOpen,   \* FirmRiskPolicy, in percent
    FirmSymbolOpen,
    FirmGroupOpen,
    EquityMaxAge,    \* FirmRiskPolicy.equity_max_age_seconds, in ticks
    Equities,        \* equities an account can be observed with
    MaxTime          \* bound on the clock

Percents == 1..100

TradeIntents ==
    [ account : Accounts, symbol : Symbols, group : Groups,
      class : {"stock", "option", "crypto"}, side : {"buy", "sell"},
      ttSpy : BOOLEAN,           \* the tt_spy_put_credit strategy
      riskPerUnit : Nat \ {0},   \* RiskEngine._risk_per_unit
      price : Nat \ {0},         \* reference_price
      requested : Nat \ {0},     \* requested_quantity
      budget : Percents ]        \* risk_budget_fraction

ASSUME FiniteSetsAssumption == IsFiniteSet(Intents) /\ IsFiniteSet(Accounts)
ASSUME OrderAssumption == Order \in [Intents -> TradeIntents]
ASSUME PolicyAssumption ==
    /\ {MaxPerTrade, MaxOptionPerTrade, MaxTotalOpen, MaxDailyLoss,
        MaxDrawdown, MaxNotional} \subseteq Percents
    /\ {FirmTotalOpen, FirmSymbolOpen, FirmGroupOpen} \subseteq Percents
    /\ FirmEnabled \in BOOLEAN
    /\ FirmSymbolOpen <= FirmTotalOpen
    /\ FirmGroupOpen <= FirmTotalOpen
ASSUME TimeAssumption ==
    EquityMaxAge \in Nat /\ MaxTime \in Nat /\ Equities \subseteq Nat

VARIABLES
    reservation,  \* risk_reservations.state of each intent, "none" if no row
    risk,         \* risk_reservations.risk_amount
    latest,       \* account_equity_state.latest_equity
    observedAt,   \* account_equity_state.observed_at, -1 if no row
    ceiling,      \* limits written in the last risk_approved event of each kind
    now           \* the wall clock

table == <<reservation, risk>>
equityRows == <<latest, observedAt>>
vars == <<reservation, risk, latest, observedAt, ceiling, now>>

Ledger == INSTANCE ReservationLedger WITH Intents <- Intents, reservation <- reservation
ActiveStates == Ledger!ActiveStates

TypeOK ==
    /\ reservation \in [Intents -> Ledger!ReservationStates]
    /\ risk \in [Intents -> Nat]
    /\ latest \in [Accounts -> Nat]
    /\ observedAt \in [Accounts -> Int]
    /\ ceiling \in [ account : [Accounts -> Nat], firm : Nat,
                     symbol : [Symbols -> Nat], group : [Groups -> Nat] ]
    /\ now \in Nat

-----------------------------------------------------------------------------
(***************************************************************************)
(* Sums.  The total of the amounts r[x], x in S, is the number of pairs    *)
(* <<x, k>> with k in 1..r[x].                                             *)
(***************************************************************************)
Total(r, S) == Cardinality(UNION { {x} \X (1..r[x]) : x \in S })

ActiveIntents == { i \in Intents : reservation[i] \in ActiveStates }

AccountIntents(a) == { i \in ActiveIntents : Order[i].account = a }
SymbolIntents(s) == { i \in ActiveIntents : Order[i].symbol = s }
GroupIntents(g) == { i \in ActiveIntents : Order[i].group = g }

AccountRisk(a) == Total(risk, AccountIntents(a))
FirmRisk == Total(risk, ActiveIntents)
SymbolRisk(s) == Total(risk, SymbolIntents(s))
GroupRisk(g) == Total(risk, GroupIntents(g))

AtMost(x, y) == IF x < y THEN x ELSE y
Positive(x) == IF x > 0 THEN x ELSE 0

-----------------------------------------------------------------------------
(***************************************************************************)
(* RiskEngine.evaluate for an opening intent i and a snapshot s of its     *)
(* account, whose active_risk the transaction replaces by AccountRisk.     *)
(***************************************************************************)
\* What apply_account_equity_state returns: the peak is never below the others.
Snapshots ==
    { s \in [equity : Equities, startOfDay : Equities, peak : Equities] :
        s.peak >= s.equity /\ s.peak >= s.startOfDay }

GuardRejects(i, s) ==
    LET dailyLoss == Positive(s.startOfDay - s.equity)
        drawdown == Positive(s.peak - s.equity)
        drawdownLimit ==
            IF Order[i].ttSpy THEN AtMost(MaxDrawdown, 10) ELSE MaxDrawdown
    IN  \/ 100 * dailyLoss >= s.startOfDay * MaxDailyLoss
        \/ 100 * drawdown >= s.peak * drawdownLimit
        \/ Order[i].class = "crypto" /\ Order[i].side = "sell"

TradeCeiling(i, s) ==
    LET asset == IF Order[i].class = "option" THEN MaxOptionPerTrade
                                              ELSE MaxPerTrade
        requested == IF Order[i].ttSpy THEN AtMost(Order[i].budget, 1)
                                       ELSE Order[i].budget
    IN  s.equity * AtMost(asset, requested)

PortfolioCeiling(i, s) ==
    s.equity * (IF Order[i].ttSpy THEN AtMost(MaxTotalOpen, 10)
                                  ELSE MaxTotalOpen)

\* Mutant of RiskBudget: what the account already has at risk is not subtracted.
RiskBudgetOfEmptyAccount(i, s) ==
    AtMost(TradeCeiling(i, s), PortfolioCeiling(i, s))

RiskBudget(i, s) ==
    AtMost(TradeCeiling(i, s),
           Positive(PortfolioCeiling(i, s) - 100 * AccountRisk(Order[i].account)))

\* _floor_quantity of a budget that is spent at unit apiece.
Affordable(budget, unit) == budget \div (100 * unit)

NotionalQuantity(i, s) ==
    IF Order[i].class = "option" THEN Order[i].requested
    ELSE Affordable(s.equity * MaxNotional, Order[i].price)

AccountQuantity(i, s) ==
    AtMost(Order[i].requested,
           AtMost(Affordable(RiskBudget(i, s), Order[i].riskPerUnit),
                  NotionalQuantity(i, s)))

-----------------------------------------------------------------------------
(***************************************************************************)
(* The firm layer of evaluate_and_reserve.                                 *)
(***************************************************************************)
\* Mutant of FreshAccounts: the age of the equity row is not tested.
AnyObservedAccounts(a) == { b \in Accounts \ {a} : observedAt[b] >= 0 }

\* Other accounts whose equity row is no older than the cutoff.
FreshAccounts(a) ==
    { b \in Accounts \ {a} : observedAt[b] >= 0 /\ now - observedAt[b] <= EquityMaxAge }

FirmEquity(a, s) == s.equity + Total(latest, FreshAccounts(a))

\* Mutant of FirmBudget: the strategy limit sees only the intent's own account.
FirmBudgetOfAccountGroup(i, s) ==
    LET equity == FirmEquity(Order[i].account, s)
        o == Order[i]
        ownGroup == Total(risk, GroupIntents(o.group) \cap AccountIntents(o.account))
    IN  AtMost(Positive(equity * FirmTotalOpen - 100 * FirmRisk),
          AtMost(Positive(equity * FirmSymbolOpen - 100 * SymbolRisk(o.symbol)),
                 Positive(equity * FirmGroupOpen - 100 * ownGroup)))

FirmBudget(i, s) ==
    LET equity == FirmEquity(Order[i].account, s)
        o == Order[i]
    IN  AtMost(Positive(equity * FirmTotalOpen - 100 * FirmRisk),
          AtMost(Positive(equity * FirmSymbolOpen - 100 * SymbolRisk(o.symbol)),
                 Positive(equity * FirmGroupOpen - 100 * GroupRisk(o.group))))

ApprovedQuantity(i, s) ==
    IF FirmEnabled
    THEN AtMost(AccountQuantity(i, s),
                Affordable(FirmBudget(i, s), Order[i].riskPerUnit))
    ELSE AccountQuantity(i, s)

-----------------------------------------------------------------------------
Init ==
    /\ reservation = [i \in Intents |-> "none"]
    /\ risk = [i \in Intents |-> 0]
    /\ latest = [a \in Accounts |-> 0]
    /\ observedAt = [a \in Accounts |-> -1]
    /\ ceiling = [ account |-> [a \in Accounts |-> 0], firm |-> 0,
                   symbol |-> [s \in Symbols |-> 0],
                   group |-> [g \in Groups |-> 0] ]
    /\ now = 0

Tick ==
    /\ now < MaxTime
    /\ now' = now + 1
    /\ UNCHANGED <<table, equityRows, ceiling>>

\* apply_account_equity_state as far as the firm layer reads it: the row is
\* overwritten with whatever was observed, at whatever time it was observed.
ApplyAccountEquityState(a, equity, at) ==
    /\ latest' = [latest EXCEPT ![a] = equity]
    /\ observedAt' = [observedAt EXCEPT ![a] = at]
    /\ UNCHANGED <<table, ceiling, now>>

\* evaluate_and_reserve when it inserts the reservation, with the limits the
\* risk_approved event records.  Every other outcome (a duplicate intent id, a
\* kill switch, an exhausted budget) writes only a risk_rejected event.
EvaluateAndReserve(i, s) ==
    LET o == Order[i]
        equity == FirmEquity(o.account, s)
    IN  /\ reservation[i] = "none"
        /\ ~ GuardRejects(i, s)
        /\ ApprovedQuantity(i, s) > 0
        /\ reservation' = [reservation EXCEPT ![i] = "reserved"]
        /\ risk' = [risk EXCEPT ![i] = ApprovedQuantity(i, s) * o.riskPerUnit]
        /\ ceiling' =
             [ceiling EXCEPT
                !.account[o.account] = s.equity * MaxTotalOpen,
                !.firm = equity * FirmTotalOpen,
                !.symbol[o.symbol] = equity * FirmSymbolOpen,
                !.group[o.group] = equity * FirmGroupOpen]
        /\ UNCHANGED <<equityRows, now>>

MarkSubmitted(i) ==
    /\ reservation[i] = "reserved"
    /\ reservation' = [reservation EXCEPT ![i] = "submitted"]
    /\ UNCHANGED <<risk, equityRows, ceiling, now>>

Release(i) ==
    /\ reservation[i] \in ActiveStates
    /\ reservation' = [reservation EXCEPT ![i] = "released"]
    /\ UNCHANGED <<risk, equityRows, ceiling, now>>

(***************************************************************************)
(* record_order_reconciliation.  The evidence a reconciliation holds on an *)
(* intent: its order or instruments are live; the order is terminal or its *)
(* linked exit order filled ("over"); the order is filled and the account  *)
(* flat; or no row for the order was returned.                             *)
(***************************************************************************)
Evidence == {"live", "over", "flat", "missing"}

\* Mutant of Reconciled: a released row whose order is seen live is opened again.
ReconciledAgain(previous, evidence) ==
    IF previous = "none" THEN previous
    ELSE IF evidence = "live" THEN "open"
    ELSE IF evidence = "over" THEN "released"
    ELSE previous

\* Mutant of Reconciled: the trade's state name is written to the reservation.
ReconciledTradeName(previous, evidence) ==
    IF previous \notin ActiveStates THEN previous
    ELSE CASE evidence = "live" -> "position_open"
           [] evidence = "over" -> "position_closed"
           [] OTHER -> previous

Reconciled(previous, evidence) ==
    IF previous \notin ActiveStates THEN previous
    ELSE CASE evidence = "missing" -> previous
           [] evidence = "live" -> "open"
           [] evidence = "over" -> "released"
           [] evidence = "flat" /\ previous = "closing_pending" -> "released"
           [] evidence = "flat" /\ previous = "open" -> "closing_pending"
           [] OTHER -> previous

RecordOrderReconciliation(a, evidence) ==
    /\ reservation' =
         [i \in Intents |->
            IF Order[i].account = a THEN Reconciled(reservation[i], evidence[i])
                                    ELSE reservation[i]]
    /\ UNCHANGED <<risk, equityRows, ceiling, now>>

Next ==
    \/ Tick
    \/ \E a \in Accounts, equity \in Equities, at \in 0..now :
          ApplyAccountEquityState(a, equity, at)
    \/ \E i \in Intents, s \in Snapshots : EvaluateAndReserve(i, s)
    \/ \E i \in Intents : MarkSubmitted(i)
    \/ \E i \in Intents : Release(i)
    \/ \E a \in Accounts :
          \E evidence \in [{i \in Intents : Order[i].account = a} -> Evidence] :
             RecordOrderReconciliation(a, evidence)

Spec == Init /\ [][Next]_vars

-----------------------------------------------------------------------------
\* The active risk of an account never exceeds max_total_open of the equity its
\* latest approved order was sized with, whatever happens in between.
AccountWithinCeiling ==
    \A a \in Accounts : 100 * AccountRisk(a) <= ceiling.account[a]

\* The active risk of all accounts together, of one underlying across accounts,
\* and of one strategy across accounts and vehicles, never exceeds the firm
\* limit computed in the latest approval that touched it
\* (src/docs/FIRM_RISK_AUTHORITY.md, "Atomic controls").
FirmWithinCeilings ==
    FirmEnabled =>
      /\ 100 * FirmRisk <= ceiling.firm
      /\ \A s \in Symbols : 100 * SymbolRisk(s) <= ceiling.symbol[s]
      /\ \A g \in Groups : 100 * GroupRisk(g) <= ceiling.group[g]

\* An account that is the only one observed recently enough carries the whole
\* firm's active risk on its own equity: a disconnected account's last equity
\* adds no capacity, while its reservations still count.
StaleEquityAddsNoCapacity ==
    [][ \A i \in Intents :
          LET a == Order[i].account
          IN  /\ FirmEnabled
              /\ reservation[i] = "none" /\ reservation'[i] = "reserved"
              /\ \A b \in Accounts \ {a} :
                    observedAt[b] = -1 \/ observedAt[b] + EquityMaxAge < now
              => 100 * FirmRisk' * MaxTotalOpen <= ceiling'.account[a] * FirmTotalOpen
      ]_vars

\* A row of the ledger only moves along the lifecycle of ReservationLedger: no
\* intent is reserved twice and no released reservation comes back.
ImplementsLedger == Ledger!Spec
=============================================================================
