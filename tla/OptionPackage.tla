---------------------------- MODULE OptionPackage ----------------------------
(***************************************************************************)
(* What one option package is worth: the selection of its legs from a      *)
(* chain, the risk the authority reserves for it and the record kept of    *)
(* it, the evaluation that decides on its exit, and its end, by a closing  *)
(* order or at expiration.  Prices are whole numbers per share, money is   *)
(* per package of 100.  A side of 1 is bought, of -1 sold.                 *)
(***************************************************************************)
EXTENDS Integers, FiniteSetsExt

CONSTANTS
    Strikes, Spots,     \* of the chain; prices of the underlying
    Quotes,             \* pairs <<bid, ask>> that a contract may show
    MaxSpreadPercent,   \* maximum_relative_spread
    MaxWidth,           \* maximum_strike_width
    Slippage,           \* option_slippage_per_package
    TargetPercent,      \* profit_target_fraction
    LossPercent         \* loss_limit_multiple

ASSUME PackageAssumption ==
    /\ Strikes \subseteq Nat \ {0} /\ Spots \subseteq Nat
    /\ Quotes \subseteq (Nat \ {0}) \X (Nat \ {0})
    /\ \A q \in Quotes : q[1] <= q[2]
    /\ MaxSpreadPercent \in Nat /\ MaxWidth \in Nat \ {0} /\ Slippage \in Nat
    /\ TargetPercent \in 1..99 /\ LossPercent \in Nat \ {0}

VARIABLES
    phase,      \* "signal", "selected", "open", "closing", "closed", "expired"
    legs,       \* option_legs, with the quotes of the decision
    reserved,   \* estimate_risk_per_unit
    recorded,   \* probability_estimate: max_loss_per_package
    opened,     \* net price the package was opened at
    exit,       \* the closing order: its reason and its limit
    pnl         \* what the package brought in the end

packageVars == <<phase, legs, reserved, recorded, opened, exit, pnl>>

NoExitOrder == [reason |-> "none", limit |-> 0]

PackageInit ==
    /\ phase = "signal" /\ legs = {} /\ reserved = 0 /\ recorded = 0
    /\ opened = 0 /\ exit = NoExitOrder /\ pnl = 0

-----------------------------------------------------------------------------
(* Prices.                                                                 *)
HasLeg(S, right, side) == \E l \in S : l.right = right /\ l.side = side
LegOf(S, right, side) == CHOOSE l \in S : l.right = right /\ l.side = side

\* The sum over the legs: no structure has two of one right and side.
Signed(op(_), S) ==
    LET leg(right, side) == IF HasLeg(S, right, side) THEN side * op(LegOf(S, right, side))
                                                      ELSE 0
    IN  leg("call", 1) + leg("call", -1) + leg("put", 1) + leg("put", -1)

Accepted(q) == 200 * (q[2] - q[1]) <= MaxSpreadPercent * (q[1] + q[2])

\* What a leg is marked at: the ask bought, the bid sold.
Mark(l) == IF l.side = 1 THEN l.quote[2] ELSE l.quote[1]

\* Mutant of LegMark: legs keep the price they could be had for with luck.
LegMarkOptimistic(l) == IF l.side = 1 THEN l.quote[1] ELSE l.quote[2]

\* OptionLeg.mark_price
LegMark(l) == Mark(l)

\* Positive is a debit, negative a credit.
NaturalPrice(S) == Signed(Mark, S)
OptimisticPrice(S) == Signed(LegMarkOptimistic, S)

\* close_package: the net price of the reversed legs.
ClosingPrice(S) == - OptimisticPrice(S)

\* Mutant of EstimatedClose: the legs are valued as if they closed with luck.
EstimatedCloseOptimistic(S) == - NaturalPrice(S)

\* The closing price the exit is decided on.
EstimatedClose(S) == ClosingPrice(S)

Intrinsic(l, spot) ==
    Max({0, IF l.right = "call" THEN spot - l.strike ELSE l.strike - spot})

-----------------------------------------------------------------------------
(* DefinedRiskOptionSelector.build_intent and the structures of            *)
(* DefinedRiskOptionFactory.  Which of the contracts that qualify is       *)
(* nearest to a delta or a strike is left open.                            *)
LegsOf(right, long, short) ==
    {{[right |-> right, side |-> 1, strike |-> long, quote |-> q],
      [right |-> right, side |-> -1, strike |-> short, quote |-> r]} :
        q \in Quotes, r \in Quotes}

\* A vertical keeps within the maximum width; it buys the lower strike if short is 1,
\* and the higher one if short is -1: that is where its short strike lies.
Verticals(right, short, shortStrikes) ==
    UNION {LegsOf(right, p[1], p[2]) :
              p \in {p \in Strikes \X shortStrikes : short * (p[2] - p[1]) \in 1..MaxWidth}}

StrikesUpTo(spot) == {k \in Strikes : k <= spot}
StrikesFrom(spot) == {k \in Strikes : k >= spot}

Width(S, right) ==
    LET strikes == {l.strike : l \in {l \in S : l.right = right}}
    IN  Max(strikes) - Min(strikes)

Widths(S) == {Width(S, right) : right \in {l.right : l \in S}}

\* The net price a structure accepts: less than its width.
DebitAccepted(S) == 0 < NaturalPrice(S) /\ NaturalPrice(S) < Min(Widths(S))
CreditAccepted(S) == 0 < - NaturalPrice(S) /\ - NaturalPrice(S) < Min(Widths(S))

ShortStrike(S, right) == LegOf(S, right, -1).strike

BullCallDebit == {S \in Verticals("call", 1, Strikes) : DebitAccepted(S)}

BearPutDebit == {S \in Verticals("put", -1, Strikes) : DebitAccepted(S)}

BullPutCredit(spot) == {S \in Verticals("put", 1, StrikesUpTo(spot)) : CreditAccepted(S)}

BearCallCredit(spot) == {S \in Verticals("call", -1, StrikesFrom(spot)) : CreditAccepted(S)}

IronCondor(spot) ==
    {S \in {P \cup C : P \in Verticals("put", 1, StrikesUpTo(spot)),
                      C \in Verticals("call", -1, StrikesFrom(spot))} :
        ShortStrike(S, "put") < ShortStrike(S, "call") /\ CreditAccepted(S)}

ProtectivePut(spot) ==
    {{[right |-> "put", side |-> 1, strike |-> k, quote |-> q]} :
        k \in StrikesUpTo(spot), q \in Quotes}

\* What a policy may be offered when the underlying is at spot.
PackagesAt(spot) ==
    BullCallDebit \cup BearPutDebit \cup BullPutCredit(spot) \cup BearCallCredit(spot)
        \cup IronCondor(spot) \cup ProtectivePut(spot)

-----------------------------------------------------------------------------
(* Two estimates of the worst case at expiration.                          *)
\* _option_expiry_profit of the risk engine: leg by leg, from the marks.
ExpiryProfit(S, spot) == 100 * Signed(LAMBDA l : Intrinsic(l, spot) - LegMark(l), S)

CallSlope(S) == Cardinality({l \in S : l.right = "call" /\ l.side = 1})
                  - Cardinality({l \in S : l.right = "call" /\ l.side = -1})

\* _option_max_loss
OptionMaxLoss(S) ==
    Max({0} \cup {- ExpiryProfit(S, k) : k \in {0} \cup {l.strike : l \in S}}) + Slippage

\* Mutant of RecordedPrice: a credit counts as a debit.
RecordedPriceUnsigned(price) == Max({price, - price})

\* The net price in the expiry profit of the record.
RecordedPrice(price) == price

\* _expiry_extremes of the record: from the net price, at the strikes; the cent to
\* either side of a strike changes no maximum of these structures.
RecordedMaxLoss(S, price) ==
    LET profits == {100 * (Signed(LAMBDA l : Intrinsic(l, k), S) - RecordedPrice(price)) :
                       k \in {l.strike : l \in S}}
    IN  IF Min(profits) < 0 THEN - Min(profits) ELSE Min(profits)

-----------------------------------------------------------------------------
SelectPackage ==
    /\ phase = "signal"
    /\ \E spot \in Spots : \E S \in PackagesAt(spot) :
          /\ \A l \in S : Accepted(l.quote)
          /\ CallSlope(S) >= 0
          /\ legs' = S
          /\ reserved' = OptionMaxLoss(S)
          /\ recorded' = RecordedMaxLoss(S, NaturalPrice(S))
    /\ phase' = "selected"
    /\ UNCHANGED <<opened, exit, pnl>>

\* The entry is a limit order at the natural price: it fills there or better.
FillPackage ==
    /\ phase = "selected"
    /\ \E price \in OptimisticPrice(legs)..NaturalPrice(legs) : opened' = price
    /\ phase' = "open"
    /\ UNCHANGED <<legs, reserved, recorded, exit, pnl>>

\* _manage_option_positions, for the quotes S now has: expirationOnly is the exit_mode,
\* heldTooLong and nearExpiry are the limits on time.
ExitReason(S, expirationOnly, heldTooLong, nearExpiry) ==
    LET estimate == -100 * (opened + EstimatedClose(S))
        premium == 100 * Max({opened, - opened})
    IN  CASE expirationOnly /\ nearExpiry -> "expiration_window"
          [] ~ expirationOnly /\ 100 * estimate >= TargetPercent * premium -> "profit_target"
          [] ~ expirationOnly /\ 100 * estimate < TargetPercent * premium
                              /\ 100 * estimate <= - LossPercent * premium -> "loss_limit"
          [] OTHER -> IF heldTooLong THEN "maximum_holding_time"
                      ELSE IF nearExpiry THEN "expiration_window" ELSE "none"

Requoted == {{[l EXCEPT !.quote = quotes[l]] : l \in legs} : quotes \in [legs -> Quotes]}

\* A package with a maximum holding time is never near its expiry for this purpose.
DecideExit ==
    /\ phase = "open"
    /\ \E S \in Requoted, expirationOnly, heldTooLong, nearExpiry \in BOOLEAN :
          /\ \A l \in S : Accepted(l.quote)
          /\ ClosingPrice(S) # 0
          /\ ~ (heldTooLong /\ (expirationOnly \/ nearExpiry))
          /\ ExitReason(S, expirationOnly, heldTooLong, nearExpiry) # "none"
          /\ exit' = [reason |-> ExitReason(S, expirationOnly, heldTooLong, nearExpiry),
                      limit |-> ClosingPrice(S)]
    /\ phase' = "closing"
    /\ UNCHANGED <<legs, reserved, recorded, opened, pnl>>

\* At the broker: a limit order fills at its limit or better.
FillExit ==
    /\ phase = "closing"
    /\ \E price \in {exit.limit - 1, exit.limit} : pnl' = -100 * (opened + price)
    /\ phase' = "closed"
    /\ UNCHANGED <<legs, reserved, recorded, opened, exit>>

\* At the broker: the package is held to expiration, or its exit never fills.
Expire ==
    /\ phase \in {"open", "closing"}
    /\ \E spot \in 0..Max(Strikes) + MaxWidth :
          pnl' = 100 * (Signed(LAMBDA l : Intrinsic(l, spot), legs) - opened)
    /\ phase' = "expired"
    /\ UNCHANGED <<legs, reserved, recorded, opened, exit>>

PackageNext == SelectPackage \/ FillPackage \/ DecideExit \/ FillExit \/ Expire

PackageSpec == PackageInit /\ [][PackageNext]_packageVars

-----------------------------------------------------------------------------
PackageTypeOK ==
    /\ phase \in {"signal", "selected", "open", "closing", "closed", "expired"}
    /\ \A l \in legs : l.side \in {1, -1} /\ l.strike \in Strikes /\ l.quote \in Quotes
    /\ reserved \in Nat /\ recorded \in Nat
    /\ {opened, exit.limit, pnl} \subseteq Int

(* A package held to expiration never loses more than the authority        *)
(* reserved for it, at any price of the underlying, also between and       *)
(* beyond the strikes where RiskEngine._option_max_loss looks, and         *)
(* whatever the entry order filled at.                                     *)
ReserveCoversExpiry == phase = "expired" => - pnl <= reserved

(* The worst case the decision's record shows (probability.py, from the    *)
(* net price) is the one the risk engine reserves (risk.py, from the       *)
(* marks of the legs), up to the slippage reserve, for every structure.    *)
TwoEstimatesAgree == phase # "signal" => reserved = recorded + Slippage

(* Both estimates of the worst case can be relied on.                      *)
EstimatesHold == ReserveCoversExpiry /\ TwoEstimatesAgree

(* A package closed at its profit target has brought in at least that      *)
(* share of the premium it was opened at, although the estimate was made   *)
(* from quotes (PaperAutomationService._manage_option_positions).          *)
TargetIsRealised ==
    phase = "closed" /\ exit.reason = "profit_target"
        => 100 * pnl >= TargetPercent * 100 * Max({opened, - opened})
=============================================================================
