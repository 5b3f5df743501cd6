-------------------------- MODULE EvaluationProofs --------------------------
(***************************************************************************)
(* What the program computes before it risks money: the worst case of an   *)
(* option package (OptionPackage), the results of a replay (Backtest), and *)
(* the parts of a validation (Validation).                                 *)
(***************************************************************************)
EXTENDS OptionPackage, Backtest, Validation, NumberLemmas

(***************************************************************************)
(* OptionPackage.  Every structure has its worst case at one of its own    *)
(* strikes, and loses there: below the credit, or the whole debit.  The    *)
(* two estimates look there and at other prices that cannot be worse.      *)
(***************************************************************************)
OptionLegs == [right : {"call", "put"}, side : {1, -1}, strike : Strikes, quote : Quotes]

\* One leg of the sum Signed, as it contributes to it.
SignedLeg(op(_), S, right, side) ==
    IF HasLeg(S, right, side) THEN side * op(LegOf(S, right, side)) ELSE 0

\* What the legs are worth at expiration.
Payoff(S, spot) == Signed(LAMBDA l : Intrinsic(l, spot), S)

StrikesOf(S) == {l.strike : l \in S}

\* An intrinsic value is the distance in the money.
LEMMA IntrinsicIs ==
    ASSUME NEW l \in OptionLegs, NEW spot \in Nat
    PROVE  /\ l.right = "call" =>
                Intrinsic(l, spot) = IF spot <= l.strike THEN 0 ELSE spot - l.strike
           /\ l.right = "put" =>
                Intrinsic(l, spot) = IF spot <= l.strike THEN l.strike - spot ELSE 0
           /\ Intrinsic(l, spot) \in Nat
<1>1. l.strike \in Nat /\ l.right \in {"call", "put"}
  BY PackageAssumption DEF OptionLegs
<1> DEFINE x == IF l.right = "call" THEN spot - l.strike ELSE l.strike - spot
<1>2. x \in Int
  BY <1>1
<1>3. Intrinsic(l, spot) = IF 0 >= x THEN 0 ELSE x
  BY <1>2, GreatestOfTwo DEF Intrinsic
<1>4. QED
  BY <1>1, <1>3

\* A leg that a package has is found.
LEMMA LegFound ==
    ASSUME NEW S \in SUBSET OptionLegs, NEW right, NEW side, HasLeg(S, right, side)
    PROVE  /\ LegOf(S, right, side) \in S
           /\ LegOf(S, right, side).right = right /\ LegOf(S, right, side).side = side
BY DEF HasLeg, LegOf

\* Marks of a leg are prices.
LEMMA MarkTypes ==
    ASSUME NEW l \in OptionLegs
    PROVE  /\ Mark(l) \in Nat \ {0} /\ LegMark(l) = Mark(l) /\ LegMarkOptimistic(l) \in Nat \ {0}
           /\ l.side \in {1, -1} /\ l.quote[1] <= l.quote[2]
           /\ l.quote[1] \in Nat \ {0} /\ l.quote[2] \in Nat \ {0}
<1>1. l.quote \in Quotes /\ l.side \in {1, -1}
  BY DEF OptionLegs
<1>2. l.quote[1] \in Nat \ {0} /\ l.quote[2] \in Nat \ {0} /\ l.quote[1] <= l.quote[2]
  BY <1>1, PackageAssumption
<1>3. QED
  BY <1>1, <1>2 DEF Mark, LegMark, LegMarkOptimistic

\* Sums over legs are numbers, and the profit at expiration is the payoff less the price.
LEMMA ProfitSplits ==
    ASSUME NEW S \in SUBSET OptionLegs, NEW spot \in Nat
    PROVE  /\ Payoff(S, spot) \in Int
           /\ NaturalPrice(S) \in Int /\ OptimisticPrice(S) \in Int
           /\ ExpiryProfit(S, spot) = 100 * (Payoff(S, spot) - NaturalPrice(S))
<1> DEFINE I(l) == Intrinsic(l, spot)
           P(l) == Intrinsic(l, spot) - LegMark(l)
<1>1. ASSUME NEW right \in {"call", "put"}, NEW side \in {1, -1}
      PROVE  /\ SignedLeg(I, S, right, side) \in Int
             /\ SignedLeg(Mark, S, right, side) \in Int
             /\ SignedLeg(LegMarkOptimistic, S, right, side) \in Int
             /\ SignedLeg(P, S, right, side)
                  = SignedLeg(I, S, right, side) - SignedLeg(Mark, S, right, side)
  <2>1. CASE ~ HasLeg(S, right, side)
    BY <2>1 DEF SignedLeg
  <2>2. CASE HasLeg(S, right, side)
    <3> DEFINE l == LegOf(S, right, side)
    <3>1. l \in OptionLegs
      BY <2>2, LegFound
    <3>2. I(l) \in Nat /\ Mark(l) \in Nat /\ LegMark(l) = Mark(l) /\ LegMarkOptimistic(l) \in Nat
      BY <3>1, IntrinsicIs, MarkTypes
    <3>3. /\ SignedLeg(I, S, right, side) = side * I(l)
          /\ SignedLeg(Mark, S, right, side) = side * Mark(l)
          /\ SignedLeg(LegMarkOptimistic, S, right, side) = side * LegMarkOptimistic(l)
          /\ SignedLeg(P, S, right, side) = side * (I(l) - LegMark(l))
      BY <2>2 DEF SignedLeg
    <3> HIDE DEF l, I, P
    <3>4. QED
      BY <3>2, <3>3
  <2>3. QED
    BY <2>1, <2>2
<1>2. /\ Payoff(S, spot) = SignedLeg(I, S, "call", 1) + SignedLeg(I, S, "call", -1)
                             + SignedLeg(I, S, "put", 1) + SignedLeg(I, S, "put", -1)
      /\ NaturalPrice(S) = SignedLeg(Mark, S, "call", 1) + SignedLeg(Mark, S, "call", -1)
                             + SignedLeg(Mark, S, "put", 1) + SignedLeg(Mark, S, "put", -1)
      /\ ExpiryProfit(S, spot)
            = 100 * (SignedLeg(P, S, "call", 1) + SignedLeg(P, S, "call", -1)
                       + SignedLeg(P, S, "put", 1) + SignedLeg(P, S, "put", -1))
  BY DEF Payoff, NaturalPrice, ExpiryProfit, Signed, SignedLeg
<1>3. OptimisticPrice(S)
        = SignedLeg(LegMarkOptimistic, S, "call", 1) + SignedLeg(LegMarkOptimistic, S, "call", -1)
            + SignedLeg(LegMarkOptimistic, S, "put", 1)
            + SignedLeg(LegMarkOptimistic, S, "put", -1)
  BY DEF OptimisticPrice, Signed, SignedLeg
<1> HIDE DEF I, P
<1>4. QED
  BY <1>1, <1>2, <1>3

\* The only leg of its right and side is the one that is found.
LEMMA LegIs ==
    ASSUME NEW S \in SUBSET OptionLegs, NEW l \in S,
           \A m \in S : m.right = l.right /\ m.side = l.side => m = l
    PROVE  HasLeg(S, l.right, l.side) /\ LegOf(S, l.right, l.side) = l
<1>1. HasLeg(S, l.right, l.side)
  BY DEF HasLeg
<1>2. QED
  BY <1>1, LegFound

\* What two legs of one right are worth, and how far apart they are.
LEMMA PairWorth ==
    ASSUME NEW right \in {"call", "put"}, NEW a \in OptionLegs, NEW b \in OptionLegs,
           a.right = right, b.right = right, a.side = 1, b.side = -1
    PROVE  /\ \A k \in Nat : Payoff({a, b}, k) = Intrinsic(a, k) - Intrinsic(b, k)
           /\ Min(Widths({a, b})) = IF a.strike >= b.strike THEN a.strike - b.strike
                                                            ELSE b.strike - a.strike
<1> DEFINE S == {a, b}
           other == IF right = "call" THEN "put" ELSE "call"
<1>1. S \in SUBSET OptionLegs /\ a # b
  OBVIOUS
<1>2. HasLeg(S, right, 1) /\ LegOf(S, right, 1) = a
  <2>1. \A m \in S : m.right = a.right /\ m.side = a.side => m = a
    OBVIOUS
  <2> HIDE DEF S
  <2>2. HasLeg(S, a.right, a.side) /\ LegOf(S, a.right, a.side) = a
    BY <1>1, <2>1, LegIs DEF S
  <2>3. QED
    BY <2>2
<1>3. HasLeg(S, right, -1) /\ LegOf(S, right, -1) = b
  <2>1. \A m \in S : m.right = b.right /\ m.side = b.side => m = b
    OBVIOUS
  <2> HIDE DEF S
  <2>2. HasLeg(S, b.right, b.side) /\ LegOf(S, b.right, b.side) = b
    BY <1>1, <2>1, LegIs DEF S
  <2>3. QED
    BY <2>2
<1>4. ~ HasLeg(S, other, 1) /\ ~ HasLeg(S, other, -1)
  BY DEF HasLeg
<1>5. ASSUME NEW k \in Nat PROVE Payoff(S, k) = Intrinsic(a, k) - Intrinsic(b, k)
  <2>1. Intrinsic(a, k) \in Nat /\ Intrinsic(b, k) \in Nat
    BY IntrinsicIs
  <2> DEFINE I(l) == Intrinsic(l, k)
  <2> HIDE DEF S, other
  <2>2. /\ SignedLeg(I, S, right, 1) = 1 * I(a) /\ SignedLeg(I, S, right, -1) = (-1) * I(b)
        /\ SignedLeg(I, S, other, 1) = 0 /\ SignedLeg(I, S, other, -1) = 0
    BY <1>2, <1>3, <1>4 DEF SignedLeg
  <2>3. Payoff(S, k) = SignedLeg(I, S, "call", 1) + SignedLeg(I, S, "call", -1)
                         + SignedLeg(I, S, "put", 1) + SignedLeg(I, S, "put", -1)
    BY DEF Payoff, Signed, SignedLeg
  <2>4. I(a) = Intrinsic(a, k) /\ I(b) = Intrinsic(b, k)
    OBVIOUS
  <2> HIDE DEF I
  <2>5. SignedLeg(I, S, right, 1) = I(a) /\ SignedLeg(I, S, right, -1) = - I(b)
    BY <2>1, <2>2, <2>4
  <2>6. QED
    BY <2>1, <2>2, <2>3, <2>4, <2>5 DEF other
<1>6. a.strike \in Nat /\ b.strike \in Nat
  BY PackageAssumption DEF OptionLegs
<1>7. Width(S, right) = IF a.strike >= b.strike THEN a.strike - b.strike ELSE b.strike - a.strike
  <2>1. {l.strike : l \in {l \in S : l.right = right}} = {a.strike, b.strike}
    OBVIOUS
  <2>2. QED
    BY <1>6, <2>1, GreatestOfTwo, LesserOfTwo DEF Width
<1>8. Widths(S) = {Width(S, right)}
  <2>1. {l.right : l \in S} = {right}
    OBVIOUS
  <2>2. QED
    BY <2>1 DEF Widths
<1>9. Min(Widths(S)) = Width(S, right)
  <2> DEFINE w == Width(S, right)
  <2>1. w \in Int
    BY <1>6, <1>7
  <2> HIDE DEF w
  <2>2. {w} \in SUBSET Int /\ w \in {w} /\ \A x \in {w} : w <= x
    BY <2>1
  <2>3. Min({w}) = w
    BY <2>2, LeastIs
  <2>4. QED
    BY <1>8, <2>3 DEF w
<1>10. QED
  BY <1>5, <1>7, <1>9

\* S has a strike where it is worth least of all, which is a loss at its price.
WorstAtStrike(S) ==
    \E k \in StrikesOf(S) :
        /\ \A spot \in Nat : Payoff(S, spot) >= Payoff(S, k)
        /\ Payoff(S, k) < NaturalPrice(S)

\* The legs of a vertical, as it is looked for.
LEMMA VerticalLegs ==
    ASSUME NEW right \in {"call", "put"}, NEW short \in {1, -1},
           NEW shorts \in SUBSET Strikes, NEW S \in Verticals(right, short, shorts)
    PROVE  \E a, b \in OptionLegs :
              /\ S = {a, b} /\ a.right = right /\ b.right = right /\ a.side = 1 /\ b.side = -1
              /\ a.strike \in Nat /\ b.strike \in Nat
              /\ short = 1 => a.strike < b.strike
              /\ short = -1 => b.strike < a.strike
<1>1. PICK p \in Strikes \X shorts :
         short * (p[2] - p[1]) \in 1..MaxWidth /\ S \in LegsOf(right, p[1], p[2])
  BY DEF Verticals
<1>2. PICK q \in Quotes, r \in Quotes :
         S = {[right |-> right, side |-> 1, strike |-> p[1], quote |-> q],
              [right |-> right, side |-> -1, strike |-> p[2], quote |-> r]}
  BY <1>1 DEF LegsOf
<1> DEFINE a == [right |-> right, side |-> 1, strike |-> p[1], quote |-> q]
           b == [right |-> right, side |-> -1, strike |-> p[2], quote |-> r]
<1>3. /\ p[1] \in Strikes /\ p[2] \in Strikes
      /\ p[1] \in Nat /\ p[2] \in Nat /\ MaxWidth \in Nat
  BY PackageAssumption
<1>4. (short = 1 => p[1] < p[2]) /\ (short = -1 => p[2] < p[1])
  BY <1>1, <1>3
<1>5. a \in OptionLegs /\ b \in OptionLegs
  BY <1>3 DEF OptionLegs
<1>6. QED
  BY <1>2, <1>3, <1>4, <1>5

\* A vertical that is bought is worth nothing at worst, at the strike bought.
LEMMA DebitWorst ==
    ASSUME NEW S \in BullCallDebit \cup BearPutDebit
    PROVE  S \in SUBSET OptionLegs /\ WorstAtStrike(S)
<1>1. PICK right \in {"call", "put"}, short \in {1, -1} :
         S \in Verticals(right, short, Strikes) /\ (short = 1 <=> right = "call")
  BY DEF BullCallDebit, BearPutDebit
<1>2. PICK a, b \in OptionLegs :
         /\ S = {a, b} /\ a.right = right /\ b.right = right /\ a.side = 1 /\ b.side = -1
         /\ a.strike \in Nat /\ b.strike \in Nat
         /\ right = "call" => a.strike < b.strike
         /\ right # "call" => b.strike < a.strike
  BY <1>1, VerticalLegs
<1>3. \A k \in Nat : Payoff(S, k) = Intrinsic(a, k) - Intrinsic(b, k)
  BY <1>2, PairWorth
<1>4. ASSUME NEW k \in Nat
      PROVE  Payoff(S, k) \in Nat /\ (k = a.strike => Payoff(S, k) = 0)
  <2> DEFINE x == a.strike
             y == b.strike
  <2>1. CASE right = "call"
    <3>1. /\ Intrinsic(a, k) = IF k <= x THEN 0 ELSE k - x
          /\ Intrinsic(b, k) = IF k <= y THEN 0 ELSE k - y
      BY <1>2, <2>1, IntrinsicIs
    <3>2. x \in Nat /\ y \in Nat /\ x < y /\ Payoff(S, k) = Intrinsic(a, k) - Intrinsic(b, k)
      BY <1>2, <1>3, <2>1
    <3> HIDE DEF x, y
    <3>3. QED
      BY <3>1, <3>2 DEF x
  <2>2. CASE right = "put"
    <3>1. /\ Intrinsic(a, k) = IF k <= x THEN x - k ELSE 0
          /\ Intrinsic(b, k) = IF k <= y THEN y - k ELSE 0
      BY <1>2, <2>2, IntrinsicIs
    <3>2. x \in Nat /\ y \in Nat /\ y < x /\ Payoff(S, k) = Intrinsic(a, k) - Intrinsic(b, k)
      BY <1>2, <1>3, <2>2
    <3> HIDE DEF x, y
    <3>3. QED
      BY <3>1, <3>2 DEF x
  <2>3. QED
    BY <2>1, <2>2
<1>5. Payoff(S, a.strike) = 0
  BY <1>2, <1>4
<1>6. 0 < NaturalPrice(S)
  BY DEF BullCallDebit, BearPutDebit, DebitAccepted
<1>7. a.strike \in StrikesOf(S)
  BY <1>2 DEF StrikesOf
<1>8. \A k \in Nat : Payoff(S, k) >= Payoff(S, a.strike)
  BY <1>4, <1>5
<1>9. QED
  BY <1>2, <1>5, <1>6, <1>7, <1>8 DEF WorstAtStrike

\* A vertical that is sold is worth its whole width less at worst, also at the strike bought.
LEMMA CreditWorst ==
    ASSUME NEW spot, NEW S \in BullPutCredit(spot) \cup BearCallCredit(spot)
    PROVE  S \in SUBSET OptionLegs /\ WorstAtStrike(S)
<1>1. PICK right \in {"call", "put"}, short \in {1, -1}, shorts \in SUBSET Strikes :
         S \in Verticals(right, short, shorts) /\ (short = 1 <=> right = "put")
  <2>1. StrikesUpTo(spot) \in SUBSET Strikes /\ StrikesFrom(spot) \in SUBSET Strikes
    BY DEF StrikesUpTo, StrikesFrom
  <2>2. QED
    BY <2>1 DEF BullPutCredit, BearCallCredit
<1>2. PICK a, b \in OptionLegs :
         /\ S = {a, b} /\ a.right = right /\ b.right = right /\ a.side = 1 /\ b.side = -1
         /\ a.strike \in Nat /\ b.strike \in Nat
         /\ right = "put" => a.strike < b.strike
         /\ right # "put" => b.strike < a.strike
  BY <1>1, VerticalLegs
<1>3. \A k \in Nat : Payoff(S, k) = Intrinsic(a, k) - Intrinsic(b, k)
  BY <1>2, PairWorth
<1> DEFINE width == IF a.strike >= b.strike THEN a.strike - b.strike ELSE b.strike - a.strike
<1>4. ASSUME NEW k \in Nat
      PROVE  /\ Payoff(S, k) \in Int /\ Payoff(S, k) >= - width
             /\ k = a.strike => Payoff(S, k) = - width
  <2> DEFINE x == a.strike
             y == b.strike
  <2>1. CASE right = "call"
    <3>1. /\ Intrinsic(a, k) = IF k <= x THEN 0 ELSE k - x
          /\ Intrinsic(b, k) = IF k <= y THEN 0 ELSE k - y
      BY <1>2, <2>1, IntrinsicIs
    <3>2. x \in Nat /\ y \in Nat /\ y < x
      BY <1>2, <1>3, <2>1
    <3>3. width = x - y
      BY <3>2
    <3>4. Payoff(S, k) = Intrinsic(a, k) - Intrinsic(b, k)
      BY <1>3
    <3> HIDE DEF x, y, width
    <3>5. QED
      BY <3>1, <3>2, <3>3, <3>4 DEF x
  <2>2. CASE right = "put"
    <3>1. /\ Intrinsic(a, k) = IF k <= x THEN x - k ELSE 0
          /\ Intrinsic(b, k) = IF k <= y THEN y - k ELSE 0
      BY <1>2, <2>2, IntrinsicIs
    <3>2. x \in Nat /\ y \in Nat /\ x < y
      BY <1>2, <1>3, <2>2
    <3>3. width = y - x
      BY <3>2
    <3>4. Payoff(S, k) = Intrinsic(a, k) - Intrinsic(b, k)
      BY <1>3
    <3> HIDE DEF x, y, width
    <3>5. QED
      BY <3>1, <3>2, <3>3, <3>4 DEF x
  <2>3. QED
    BY <2>1, <2>2
<1>5. Payoff(S, a.strike) = - width
  BY <1>2, <1>4
<1>6. - NaturalPrice(S) < width
  BY <1>2, PairWorth DEF BullPutCredit, BearCallCredit, CreditAccepted
<1>7. a.strike \in StrikesOf(S) /\ S \in SUBSET OptionLegs
  BY <1>2 DEF StrikesOf
<1>8. NaturalPrice(S) \in Int
  BY <1>7, <1>2, ProfitSplits
<1>9. width \in Int
  BY <1>2
<1> HIDE DEF width
<1>10. Payoff(S, a.strike) < NaturalPrice(S)
  BY <1>5, <1>6, <1>8, <1>9
<1>11. \A k \in Nat : Payoff(S, k) >= Payoff(S, a.strike)
  BY <1>4, <1>5
<1>12. QED
  BY <1>7, <1>10, <1>11 DEF WorstAtStrike

\* A protective put is worth nothing at worst, at its strike.
LEMMA PutWorst ==
    ASSUME NEW spot, NEW S \in ProtectivePut(spot)
    PROVE  S \in SUBSET OptionLegs /\ WorstAtStrike(S)
<1>1. PICK a \in OptionLegs : S = {a} /\ a.right = "put" /\ a.side = 1
  <2>1. PICK k \in StrikesUpTo(spot), q \in Quotes :
           S = {[right |-> "put", side |-> 1, strike |-> k, quote |-> q]}
    BY DEF ProtectivePut
  <2>2. [right |-> "put", side |-> 1, strike |-> k, quote |-> q] \in OptionLegs
    BY DEF OptionLegs, StrikesUpTo
  <2>3. QED
    BY <2>1, <2>2
<1>2. S \in SUBSET OptionLegs /\ a \in S /\ a.strike \in Nat /\ a.strike \in StrikesOf(S)
  BY <1>1, PackageAssumption DEF OptionLegs, StrikesOf
<1>3. HasLeg(S, "put", 1) /\ LegOf(S, "put", 1) = a
  BY <1>1, <1>2, LegIs
<1>4. ~ HasLeg(S, "put", -1) /\ ~ HasLeg(S, "call", 1) /\ ~ HasLeg(S, "call", -1)
  BY <1>1 DEF HasLeg
<1>5. ASSUME NEW k \in Nat PROVE Payoff(S, k) = Intrinsic(a, k)
  <2>1. Intrinsic(a, k) \in Nat
    BY IntrinsicIs
  <2>2. Payoff(S, k) = 0 + 0 + 1 * Intrinsic(a, k) + 0
    BY <1>3, <1>4 DEF Payoff, Signed, SignedLeg
  <2>3. QED
    BY <2>1, <2>2
<1>6. NaturalPrice(S) > 0
  <2>1. NaturalPrice(S) = 0 + 0 + 1 * Mark(a) + 0
    BY <1>3, <1>4 DEF NaturalPrice, Signed, SignedLeg
  <2>2. QED
    BY <2>1, MarkTypes
<1>7. Payoff(S, a.strike) = 0
  <2>1. Intrinsic(a, a.strike) = 0
    BY <1>1, <1>2, IntrinsicIs
  <2>2. QED
    BY <1>2, <1>5, <2>1
<1>8. \A k \in Nat : Payoff(S, k) \in Nat
  BY <1>5, IntrinsicIs
<1>9. QED
  BY <1>2, <1>6, <1>7, <1>8 DEF WorstAtStrike

\* The legs of an iron condor, the puts below the calls.
LEMMA CondorLegs ==
    ASSUME NEW spot, NEW S \in IronCondor(spot)
    PROVE  \E a, b, c, d \in OptionLegs :
              /\ S = {a, b, c, d}
              /\ a.right = "put" /\ b.right = "put" /\ c.right = "call" /\ d.right = "call"
              /\ a.side = 1 /\ b.side = -1 /\ c.side = -1 /\ d.side = 1
              /\ a.strike \in Nat /\ b.strike \in Nat /\ c.strike \in Nat /\ d.strike \in Nat
              /\ a.strike < b.strike /\ b.strike < c.strike /\ c.strike < d.strike
<1> DEFINE puts == StrikesUpTo(spot)
           calls == StrikesFrom(spot)
<1>1. puts \in SUBSET Strikes /\ calls \in SUBSET Strikes
  BY DEF StrikesUpTo, StrikesFrom
<1>2. PICK P \in Verticals("put", 1, puts), C \in Verticals("call", -1, calls) :
         S = P \cup C /\ ShortStrike(S, "put") < ShortStrike(S, "call")
  BY DEF IronCondor
<1> HIDE DEF puts, calls
<1>3. PICK a, b \in OptionLegs :
         /\ P = {a, b} /\ a.right = "put" /\ b.right = "put" /\ a.side = 1 /\ b.side = -1
         /\ a.strike \in Nat /\ b.strike \in Nat /\ a.strike < b.strike
  BY <1>1, <1>2, VerticalLegs
<1>4. PICK d, c \in OptionLegs :
         /\ C = {d, c} /\ d.right = "call" /\ c.right = "call" /\ d.side = 1 /\ c.side = -1
         /\ d.strike \in Nat /\ c.strike \in Nat /\ c.strike < d.strike
  BY <1>1, <1>2, VerticalLegs
<1>5. S = {a, b, c, d}
  BY <1>2, <1>3, <1>4
<1>6. S \in SUBSET OptionLegs
  BY <1>5
<1>7. LegOf(S, "put", -1) = b /\ LegOf(S, "call", -1) = c
  <2>1. /\ \A m \in S : m.right = b.right /\ m.side = b.side => m = b
        /\ \A m \in S : m.right = c.right /\ m.side = c.side => m = c
    BY <1>3, <1>4, <1>5
  <2>2. LegOf(S, b.right, b.side) = b /\ LegOf(S, c.right, c.side) = c
    BY <1>5, <1>6, <2>1, LegIs
  <2>3. QED
    BY <1>3, <1>4, <2>2
<1>8. b.strike < c.strike
  BY <1>2, <1>7 DEF ShortStrike
<1>9. QED
  BY <1>3, <1>4, <1>5, <1>8

\* An iron condor is worth the wider of its spreads less at worst.
LEMMA CondorWorst ==
    ASSUME NEW spot, NEW S \in IronCondor(spot)
    PROVE  S \in SUBSET OptionLegs /\ WorstAtStrike(S)
<1>1. PICK a, b, c, d \in OptionLegs :
         /\ S = {a, b, c, d}
         /\ a.right = "put" /\ b.right = "put" /\ c.right = "call" /\ d.right = "call"
         /\ a.side = 1 /\ b.side = -1 /\ c.side = -1 /\ d.side = 1
         /\ a.strike \in Nat /\ b.strike \in Nat /\ c.strike \in Nat /\ d.strike \in Nat
         /\ a.strike < b.strike /\ b.strike < c.strike /\ c.strike < d.strike
  BY CondorLegs
<1>2. S \in SUBSET OptionLegs
  BY <1>1
<1>3. /\ HasLeg(S, "put", 1) /\ LegOf(S, "put", 1) = a
      /\ HasLeg(S, "put", -1) /\ LegOf(S, "put", -1) = b
      /\ HasLeg(S, "call", -1) /\ LegOf(S, "call", -1) = c
      /\ HasLeg(S, "call", 1) /\ LegOf(S, "call", 1) = d
  <2>1. /\ \A m \in S : m.right = a.right /\ m.side = a.side => m = a
        /\ \A m \in S : m.right = b.right /\ m.side = b.side => m = b
        /\ \A m \in S : m.right = c.right /\ m.side = c.side => m = c
        /\ \A m \in S : m.right = d.right /\ m.side = d.side => m = d
    BY <1>1
  <2>2. a \in S /\ b \in S /\ c \in S /\ d \in S
    BY <1>1
  <2>3. /\ HasLeg(S, a.right, a.side) /\ LegOf(S, a.right, a.side) = a
        /\ HasLeg(S, b.right, b.side) /\ LegOf(S, b.right, b.side) = b
        /\ HasLeg(S, c.right, c.side) /\ LegOf(S, c.right, c.side) = c
        /\ HasLeg(S, d.right, d.side) /\ LegOf(S, d.right, d.side) = d
    BY <1>2, <2>1, <2>2, LegIs
  <2>4. QED
    BY <1>1, <2>3
<1> DEFINE w == a.strike
           x == b.strike
           y == c.strike
           z == d.strike
<1>4. w \in Nat /\ x \in Nat /\ y \in Nat /\ z \in Nat /\ w < x /\ x < y /\ y < z
  BY <1>1
<1>5. ASSUME NEW k \in Nat
      PROVE  Payoff(S, k) = (IF k <= z THEN 0 ELSE k - z) - (IF k <= y THEN 0 ELSE k - y)
                              + (IF k <= w THEN w - k ELSE 0) - (IF k <= x THEN x - k ELSE 0)
  <2>1. /\ Intrinsic(a, k) = IF k <= w THEN w - k ELSE 0
        /\ Intrinsic(b, k) = IF k <= x THEN x - k ELSE 0
        /\ Intrinsic(c, k) = IF k <= y THEN 0 ELSE k - y
        /\ Intrinsic(d, k) = IF k <= z THEN 0 ELSE k - z
    BY <1>1, IntrinsicIs
  <2>2. Payoff(S, k) = 1 * Intrinsic(d, k) + (-1) * Intrinsic(c, k)
                         + 1 * Intrinsic(a, k) + (-1) * Intrinsic(b, k)
    BY <1>3 DEF Payoff, Signed, SignedLeg
  <2>3. /\ Intrinsic(a, k) \in Nat /\ Intrinsic(b, k) \in Nat
        /\ Intrinsic(c, k) \in Nat /\ Intrinsic(d, k) \in Nat
    BY IntrinsicIs
  <2>4. Payoff(S, k) = Intrinsic(d, k) - Intrinsic(c, k) + Intrinsic(a, k) - Intrinsic(b, k)
    BY <2>2, <2>3
  <2> HIDE DEF w, x, y, z
  <2>5. QED
    BY <2>1, <2>4
<1>6. NaturalPrice(S) \in Int
  <2>1. 0 \in Nat
    OBVIOUS
  <2>2. QED
    BY <1>2, <2>1, ProfitSplits
<1>7. Width(S, "put") = x - w /\ Width(S, "call") = z - y
  <2>1. /\ {l.strike : l \in {l \in S : l.right = "put"}} = {w, x}
        /\ {l.strike : l \in {l \in S : l.right = "call"}} = {y, z}
    BY <1>1
  <2> HIDE DEF w, x, y, z
  <2>2. Max({w, x}) = x /\ Min({w, x}) = w /\ Max({y, z}) = z /\ Min({y, z}) = y
    BY <1>4, GreatestOfTwo, LesserOfTwo
  <2>3. QED
    BY <2>1, <2>2 DEF Width
<1>8. Widths(S) = {x - w, z - y}
  <2>1. {l.right : l \in S} = {"put", "call"}
    BY <1>1
  <2>2. Widths(S) = {Width(S, right) : right \in {"put", "call"}}
    BY <2>1 DEF Widths
  <2> HIDE DEF w, x, y, z
  <2>3. QED
    BY <1>7, <2>2
<1>9. - NaturalPrice(S) < x - w /\ - NaturalPrice(S) < z - y
  <2>1. - NaturalPrice(S) < Min(Widths(S))
    BY DEF IronCondor, CreditAccepted
  <2> HIDE DEF w, x, y, z
  <2>2. Min({x - w, z - y}) <= x - w /\ Min({x - w, z - y}) <= z - y /\ Min({x - w, z - y}) \in Int
    <3>1. PICK u \in Int, v \in Int : u = x - w /\ v = z - y
      BY <1>4
    <3>2. QED
      BY <3>1, LeastOfTwo
  <2>3. QED
    BY <1>4, <1>6, <1>8, <2>1, <2>2
<1>10. w \in StrikesOf(S) /\ z \in StrikesOf(S)
  BY <1>1 DEF StrikesOf
<1> HIDE DEF w, x, y, z
<1>11. CASE x - w >= z - y
  <2>1. Payoff(S, w) = w - x
    BY <1>4, <1>5
  <2>2. \A k \in Nat : Payoff(S, k) >= w - x
    BY <1>4, <1>5, <1>11
  <2>3. w - x < NaturalPrice(S)
    BY <1>4, <1>6, <1>9
  <2>4. QED
    BY <1>2, <1>10, <2>1, <2>2, <2>3 DEF WorstAtStrike
<1>12. CASE ~ (x - w >= z - y)
  <2>1. Payoff(S, z) = y - z
    BY <1>4, <1>5
  <2>2. \A k \in Nat : Payoff(S, k) >= y - z
    BY <1>4, <1>5, <1>12
  <2>3. y - z < NaturalPrice(S)
    BY <1>4, <1>6, <1>9
  <2>4. QED
    BY <1>2, <1>10, <2>1, <2>2, <2>3 DEF WorstAtStrike
<1>13. QED
  BY <1>11, <1>12

\* Every structure has its worst case at one of its strikes.
LEMMA PackageWorst ==
    ASSUME NEW spot, NEW S \in PackagesAt(spot)
    PROVE  S \in SUBSET OptionLegs /\ WorstAtStrike(S)
BY DebitWorst, CreditWorst, PutWorst, CondorWorst DEF PackagesAt

\* What is reserved is the worst case at expiration, at the price of the marks.
LEMMA ReserveIs ==
    ASSUME NEW spot, NEW S \in PackagesAt(spot)
    PROVE  \E worst \in Int :
              /\ \A k \in Nat : worst >= 100 * (NaturalPrice(S) - Payoff(S, k))
              /\ OptionMaxLoss(S) = worst + Slippage
              /\ RecordedMaxLoss(S, NaturalPrice(S)) = worst
              /\ worst \in Nat
<1>1. S \in SUBSET OptionLegs /\ WorstAtStrike(S)
  BY PackageWorst
<1>2. PICK w \in StrikesOf(S) :
         /\ \A k \in Nat : Payoff(S, k) >= Payoff(S, w)
         /\ Payoff(S, w) < NaturalPrice(S)
  BY <1>1 DEF WorstAtStrike
<1>3. StrikesOf(S) \subseteq Nat /\ w \in Nat
  BY <1>1, PackageAssumption DEF StrikesOf, OptionLegs
<1> DEFINE worst == 100 * (NaturalPrice(S) - Payoff(S, w))
<1>4. /\ NaturalPrice(S) \in Int
      /\ \A k \in Nat : /\ Payoff(S, k) \in Int
                        /\ ExpiryProfit(S, k) = 100 * (Payoff(S, k) - NaturalPrice(S))
  BY <1>1, <1>3, ProfitSplits
<1>5. /\ worst \in Nat /\ worst > 0
      /\ \A k \in Nat : /\ worst >= 100 * (NaturalPrice(S) - Payoff(S, k))
                        /\ - ExpiryProfit(S, k) \in Int /\ worst >= - ExpiryProfit(S, k)
  BY <1>2, <1>3, <1>4
<1>6. OptionMaxLoss(S) = worst + Slippage
  <2> DEFINE prices == {0} \cup {l.strike : l \in S}
             losses == {0} \cup {- ExpiryProfit(S, k) : k \in prices}
  <2>1. prices \subseteq Nat /\ w \in prices
    BY <1>3 DEF StrikesOf
  <2> HIDE DEF prices, worst
  <2>2. losses \in SUBSET Int
    BY <1>5, <2>1
  <2>3. \A x \in losses : worst >= x
    BY <1>5, <2>1
  <2>4. worst \in losses
    <3>1. worst = - ExpiryProfit(S, w)
      BY <1>3, <1>4 DEF worst
    <3>2. QED
      BY <2>1, <3>1
  <2> HIDE DEF losses
  <2>5. Max(losses) = worst
    BY <2>2, <2>3, <2>4, GreatestIs
  <2>6. QED
    BY <2>5 DEF OptionMaxLoss, losses, prices
<1>7. RecordedMaxLoss(S, NaturalPrice(S)) = worst
  <2> DEFINE profit(k) == 100 * (Payoff(S, k) - NaturalPrice(S))
             profits == {profit(k) : k \in StrikesOf(S)}
  <2>1. \A k \in Nat : profit(k) \in Int /\ - worst <= profit(k)
    BY <1>2, <1>3, <1>4
  <2>2. profit(w) = - worst
    BY <1>3, <1>4
  <2> HIDE DEF profit, worst
  <2>3. profits \in SUBSET Int /\ - worst \in profits /\ \A x \in profits : - worst <= x
    BY <1>3, <2>1, <2>2
  <2> HIDE DEF profits
  <2>4. Min(profits) = - worst
    BY <2>3, LeastIs
  <2>5. - worst < 0 /\ - (- worst) = worst
    BY <1>5
  <2>6. RecordedMaxLoss(S, NaturalPrice(S))
          = IF Min(profits) < 0 THEN - Min(profits) ELSE Min(profits)
    BY DEF RecordedMaxLoss, RecordedPrice, profits, profit, Payoff, StrikesOf
  <2>7. QED
    BY <2>4, <2>5, <2>6
<1>8. QED
  BY <1>5, <1>6, <1>7

-----------------------------------------------------------------------------
\* The legs are those of a structure, and both estimates are theirs.
EstimatesMade ==
    phase # "signal" =>
        /\ \E spot \in Spots : legs \in PackagesAt(spot)
        /\ reserved = OptionMaxLoss(legs)
        /\ recorded = RecordedMaxLoss(legs, NaturalPrice(legs))

\* The entry filled at its limit or better.
OpenedWithinLimit ==
    phase \in {"open", "closing", "closed", "expired"} =>
        opened \in Int /\ opened <= NaturalPrice(legs)

\* An expired package brought in what its legs were worth, less what it was opened at.
ExpiredAtPayoff ==
    phase = "expired" => \E k \in Nat : pnl = 100 * (Payoff(legs, k) - opened)

\* The share of the premium that a profit target is.
TargetMet(profit) == 100 * profit >= TargetPercent * 100 * Max({opened, - opened})

\* An exit at the target has its limit where the target is met.
TargetAtLimit ==
    phase = "closing" =>
        exit.limit \in Int /\ (exit.reason = "profit_target" => TargetMet(-100 * (opened + exit.limit)))

\* The inductive invariant of OptionPackage.
PackageInv ==
    /\ EstimatesMade
    /\ OpenedWithinLimit
    /\ ExpiredAtPayoff
    /\ TargetAtLimit
    /\ TargetIsRealised

\* The premium is a number.
LEMMA PremiumType ==
    ASSUME NEW x \in Int
    PROVE  Max({x, - x}) \in Nat
BY GreatestOfTwo

\* An entry that fills keeps the invariant.
LEMMA FillStep ==
    ASSUME PackageInv, FillPackage
    PROVE  PackageInv'
<1>1. /\ legs' = legs /\ reserved' = reserved /\ recorded' = recorded /\ phase = "selected"
      /\ phase' = "open" /\ opened' \in OptimisticPrice(legs)..NaturalPrice(legs)
  BY DEF FillPackage
<1>2. EstimatesMade'
  BY <1>1 DEF PackageInv, EstimatesMade
<1>3. OpenedWithinLimit'
  BY <1>1 DEF OpenedWithinLimit
<1>4. ExpiredAtPayoff' /\ TargetAtLimit' /\ TargetIsRealised'
  BY <1>1 DEF ExpiredAtPayoff, TargetAtLimit, TargetIsRealised
<1>5. QED
  BY <1>2, <1>3, <1>4 DEF PackageInv

\* Prices of the legs at other quotes are numbers too.
LEMMA RequotedLegs ==
    ASSUME legs \in SUBSET OptionLegs, NEW S \in Requoted
    PROVE  ClosingPrice(S) \in Int
<1>1. PICK quotes \in [legs -> Quotes] : S = {[l EXCEPT !.quote = quotes[l]] : l \in legs}
  BY DEF Requoted
<1>2. ASSUME NEW l \in legs PROVE [l EXCEPT !.quote = quotes[l]] \in OptionLegs
  <2>1. quotes[l] \in Quotes /\ l \in OptionLegs
    BY <1>1
  <2>2. QED
    BY <2>1 DEF OptionLegs
<1>3. S \in SUBSET OptionLegs
  BY <1>1, <1>2
<1>4. 0 \in Nat
  OBVIOUS
<1>5. OptimisticPrice(S) \in Int
  BY <1>3, <1>4, ProfitSplits
<1>6. QED
  BY <1>5 DEF ClosingPrice

\* An exit for the target is only decided when its closing price meets it.
LEMMA TargetDecided ==
    ASSUME NEW S, NEW expirationOnly \in BOOLEAN, NEW heldTooLong \in BOOLEAN,
           NEW nearExpiry \in BOOLEAN, opened \in Int, ClosingPrice(S) \in Int,
           ExitReason(S, expirationOnly, heldTooLong, nearExpiry) = "profit_target"
    PROVE  TargetMet(-100 * (opened + ClosingPrice(S)))
<1> DEFINE estimate == -100 * (opened + EstimatedClose(S))
           premium == 100 * Max({opened, - opened})
<1>1. ~ expirationOnly /\ 100 * estimate >= TargetPercent * premium
  BY DEF ExitReason
<1>2. PICK m \in Nat : m = Max({opened, - opened})
  BY PremiumType
<1>3. TargetPercent \in Int
  BY PackageAssumption
<1>4. TargetPercent * (100 * m) = TargetPercent * 100 * m
  BY <1>3
<1>5. QED
  BY <1>1, <1>2, <1>4 DEF TargetMet, EstimatedClose

\* Deciding on an exit keeps the invariant.
LEMMA DecideStep ==
    ASSUME PackageInv, DecideExit
    PROVE  PackageInv'
<1>1. /\ legs' = legs /\ reserved' = reserved /\ recorded' = recorded /\ opened' = opened
      /\ phase = "open" /\ phase' = "closing"
  BY DEF DecideExit
<1>2. PICK S \in Requoted, expirationOnly, heldTooLong, nearExpiry \in BOOLEAN :
         exit' = [reason |-> ExitReason(S, expirationOnly, heldTooLong, nearExpiry),
                  limit |-> ClosingPrice(S)]
  BY DEF DecideExit
<1>3. EstimatesMade' /\ OpenedWithinLimit' /\ ExpiredAtPayoff' /\ TargetIsRealised'
  BY <1>1 DEF PackageInv, EstimatesMade, OpenedWithinLimit, ExpiredAtPayoff, TargetIsRealised
<1>4. opened \in Int
  BY <1>1 DEF PackageInv, OpenedWithinLimit
<1>5. legs \in SUBSET OptionLegs
  BY <1>1, PackageWorst DEF PackageInv, EstimatesMade
<1>6. exit'.limit = ClosingPrice(S) /\ ClosingPrice(S) \in Int
  BY <1>2, <1>5, RequotedLegs
<1>7. exit'.reason = "profit_target" => TargetMet(-100 * (opened + ClosingPrice(S)))
  BY <1>2, <1>4, <1>6, TargetDecided
<1>8. TargetAtLimit'
  BY <1>1, <1>6, <1>7 DEF TargetAtLimit, TargetMet
<1>9. QED
  BY <1>3, <1>8 DEF PackageInv

\* An exit that fills does so at its limit or better.
LEMMA FillExitStep ==
    ASSUME PackageInv, FillExit
    PROVE  PackageInv'
<1>1. /\ legs' = legs /\ reserved' = reserved /\ recorded' = recorded /\ opened' = opened
      /\ phase = "closing" /\ phase' = "closed" /\ exit' = exit
  BY DEF FillExit
<1>2. PICK price \in {exit.limit - 1, exit.limit} : pnl' = -100 * (opened + price)
  BY DEF FillExit
<1>3. EstimatesMade' /\ OpenedWithinLimit' /\ ExpiredAtPayoff' /\ TargetAtLimit'
  BY <1>1 DEF PackageInv, EstimatesMade, OpenedWithinLimit, ExpiredAtPayoff, TargetAtLimit
<1>4. /\ opened \in Int /\ exit.limit \in Int
      /\ exit.reason = "profit_target" => TargetMet(-100 * (opened + exit.limit))
  BY <1>1 DEF PackageInv, OpenedWithinLimit, TargetAtLimit
<1>5. pnl' \in Int /\ pnl' >= -100 * (opened + exit.limit)
  BY <1>2, <1>4
<1>6. ASSUME exit.reason = "profit_target"
      PROVE  100 * pnl' >= TargetPercent * 100 * Max({opened, - opened})
  <2>1. PICK m \in Int : m = TargetPercent * 100 * Max({opened, - opened})
    <3>1. PICK p \in Nat : p = Max({opened, - opened})
      BY <1>4, PremiumType
    <3>2. TargetPercent * 100 * p \in Int
      BY PackageAssumption
    <3>3. QED
      BY <3>1, <3>2
  <2>2. 100 * (-100 * (opened + exit.limit)) >= m
    BY <1>4, <1>6, <2>1 DEF TargetMet
  <2>3. QED
    BY <1>4, <1>5, <2>1, <2>2
<1>7. TargetIsRealised'
  BY <1>1, <1>6 DEF TargetIsRealised
<1>8. QED
  BY <1>3, <1>7 DEF PackageInv

\* A package that expires is paid off.
LEMMA ExpireStep ==
    ASSUME PackageInv, Expire
    PROVE  PackageInv'
<1>1. /\ legs' = legs /\ reserved' = reserved /\ recorded' = recorded /\ opened' = opened
      /\ phase \in {"open", "closing"} /\ phase' = "expired"
  BY DEF Expire
<1>2. PICK spot \in 0..Max(Strikes) + MaxWidth :
         pnl' = 100 * (Signed(LAMBDA l : Intrinsic(l, spot), legs) - opened)
  BY DEF Expire
<1>3. spot \in Nat
  OBVIOUS
<1>4. pnl' = 100 * (Payoff(legs, spot) - opened)
  BY <1>2 DEF Payoff
<1>5. ExpiredAtPayoff'
  <2>1. Payoff(legs, spot)' = Payoff(legs, spot)
    BY <1>1
  <2>2. QED
    BY <1>1, <1>3, <1>4, <2>1 DEF ExpiredAtPayoff
<1>6. EstimatesMade' /\ OpenedWithinLimit' /\ TargetAtLimit' /\ TargetIsRealised'
  BY <1>1 DEF PackageInv, EstimatesMade, OpenedWithinLimit, TargetAtLimit, TargetIsRealised
<1>7. QED
  BY <1>5, <1>6 DEF PackageInv

\* A package is selected with its two estimates.
LEMMA SelectStep ==
    ASSUME PackageInv, SelectPackage
    PROVE  PackageInv'
<1>1. phase' = "selected"
  BY DEF SelectPackage
<1>2. PICK spot \in Spots : \E S \in PackagesAt(spot) :
         /\ legs' = S /\ reserved' = OptionMaxLoss(S)
         /\ recorded' = RecordedMaxLoss(S, NaturalPrice(S))
  BY DEF SelectPackage
<1>3. EstimatesMade'
  <2>1. PICK S \in PackagesAt(spot) :
           /\ legs' = S /\ reserved' = OptionMaxLoss(S)
           /\ recorded' = RecordedMaxLoss(S, NaturalPrice(S))
    BY <1>2
  <2>2. QED
    BY <2>1 DEF EstimatesMade
<1>4. OpenedWithinLimit' /\ ExpiredAtPayoff' /\ TargetAtLimit' /\ TargetIsRealised'
  BY <1>1 DEF OpenedWithinLimit, ExpiredAtPayoff, TargetAtLimit, TargetIsRealised
<1>5. QED
  BY <1>3, <1>4 DEF PackageInv

\* The invariant holds of every behaviour.
LEMMA PackageInvHolds == PackageSpec => []PackageInv
<1>1. PackageInit => PackageInv
  BY DEF PackageInit, PackageInv, EstimatesMade, OpenedWithinLimit, ExpiredAtPayoff,
         TargetAtLimit, TargetIsRealised
<1>2. PackageInv /\ [PackageNext]_packageVars => PackageInv'
  <2>1. CASE UNCHANGED packageVars
    BY <2>1 DEF packageVars, PackageInv, EstimatesMade, OpenedWithinLimit, ExpiredAtPayoff,
                TargetAtLimit, TargetIsRealised, TargetMet
  <2>2. QED
    BY <2>1, SelectStep, FillStep, DecideStep, FillExitStep, ExpireStep DEF PackageNext
<1>3. QED
  BY <1>1, <1>2, PTL DEF PackageSpec

\* Nothing is reserved before there are legs, and prices and results are numbers.
PackageTypes ==
    /\ phase \in {"signal", "selected", "open", "closing", "closed", "expired"}
    /\ phase = "signal" => legs = {} /\ reserved = 0 /\ recorded = 0
    /\ opened \in Int /\ exit.limit \in Int /\ pnl \in Int

\* Each price and result comes from legs of the chain.
LEMMA PackageTypesStep ==
    ASSUME PackageInv, PackageTypes, [PackageNext]_packageVars
    PROVE  PackageTypes'
<1>1. ASSUME phase # "signal" PROVE legs \in SUBSET OptionLegs
  BY <1>1, PackageWorst DEF PackageInv, EstimatesMade
<1>2. CASE UNCHANGED packageVars
  BY <1>2 DEF packageVars, PackageTypes
<1>3. CASE SelectPackage
  <2>1. phase' = "selected" /\ opened' = opened /\ exit' = exit /\ pnl' = pnl
    BY <1>3 DEF SelectPackage
  <2>2. QED
    BY <2>1 DEF PackageTypes
<1>4. CASE FillPackage
  <2>1. phase = "selected" /\ phase' = "open" /\ exit' = exit /\ pnl' = pnl
    BY <1>4 DEF FillPackage
  <2>2. PICK price \in OptimisticPrice(legs)..NaturalPrice(legs) : opened' = price
    BY <1>4 DEF FillPackage
  <2>3. QED
    BY <2>1, <2>2 DEF PackageTypes
<1>5. CASE DecideExit
  <2>1. phase = "open" /\ phase' = "closing" /\ opened' = opened /\ pnl' = pnl
    BY <1>5 DEF DecideExit
  <2>2. exit'.limit \in Int
    BY <1>5, <2>1, DecideStep DEF PackageInv, TargetAtLimit
  <2>3. QED
    BY <2>1, <2>2 DEF PackageTypes
<1>6. CASE FillExit
  <2>1. phase' = "closed" /\ opened' = opened /\ exit' = exit
    BY <1>6 DEF FillExit
  <2>2. PICK price \in {exit.limit - 1, exit.limit} : pnl' = -100 * (opened + price)
    BY <1>6 DEF FillExit
  <2>3. opened \in Int /\ exit.limit \in Int
    BY DEF PackageTypes
  <2>4. pnl' \in Int
    BY <2>2, <2>3
  <2>5. QED
    BY <2>1, <2>3, <2>4 DEF PackageTypes
<1>7. CASE Expire
  <2>1. phase # "signal" /\ phase' = "expired" /\ opened' = opened /\ exit' = exit
    BY <1>7 DEF Expire
  <2>2. PICK spot \in 0..Max(Strikes) + MaxWidth :
           pnl' = 100 * (Signed(LAMBDA l : Intrinsic(l, spot), legs) - opened)
    BY <1>7 DEF Expire
  <2>3. pnl' = 100 * (Payoff(legs, spot) - opened) /\ spot \in Nat
    BY <2>2 DEF Payoff
  <2>4. Payoff(legs, spot) \in Int /\ opened \in Int /\ exit.limit \in Int
    BY <1>1, <2>1, <2>3, ProfitSplits DEF PackageTypes
  <2>5. pnl' \in Int
    BY <2>3, <2>4
  <2>6. QED
    BY <2>1, <2>4, <2>5 DEF PackageTypes
<1>8. QED
  BY <1>2, <1>3, <1>4, <1>5, <1>6, <1>7 DEF PackageNext

\* A package keeps its types: its legs are contracts of the chain, and what is reserved for
\* it is not negative.
THEOREM PackageTypeCorrect == PackageSpec => []PackageTypeOK
<1>1. PackageInit => PackageTypes
  BY DEF PackageInit, PackageTypes, NoExitOrder
<1>2. PackageInv /\ PackageTypes => PackageTypeOK
  <2> SUFFICES ASSUME PackageInv, PackageTypes PROVE PackageTypeOK
    OBVIOUS
  <2>1. {opened, exit.limit, pnl} \subseteq Int
    BY DEF PackageTypes
  <2>2. CASE phase = "signal"
    BY <2>1, <2>2 DEF PackageTypes, PackageTypeOK
  <2>3. CASE phase # "signal"
    <3>1. PICK spot \in Spots : legs \in PackagesAt(spot)
      BY <2>3 DEF PackageInv, EstimatesMade
    <3>2. \A l \in legs : l.side \in {1, -1} /\ l.strike \in Strikes /\ l.quote \in Quotes
      BY <3>1, PackageWorst DEF OptionLegs
    <3>3. PICK worst \in Nat :
             /\ OptionMaxLoss(legs) = worst + Slippage
             /\ RecordedMaxLoss(legs, NaturalPrice(legs)) = worst
      BY <3>1, ReserveIs
    <3>4. reserved \in Nat /\ recorded \in Nat
      BY <2>3, <3>3, PackageAssumption DEF PackageInv, EstimatesMade
    <3>5. QED
      BY <2>1, <3>2, <3>4 DEF PackageTypes, PackageTypeOK
  <2>4. QED
    BY <2>2, <2>3
<1>3. QED
  BY PackageInvHolds, PackageTypesStep, <1>1, <1>2, PTL DEF PackageSpec

\* The worst case that the authority reserves is the worst one at expiration, at any price
\* of the underlying and whatever the entry filled at, and it is the one of the record.
THEOREM ReserveIsWorstCase == PackageSpec => []EstimatesHold
<1>1. PackageInv => EstimatesHold
  <2> SUFFICES ASSUME PackageInv PROVE EstimatesHold
    OBVIOUS
  <2>1. CASE phase = "signal"
    BY <2>1 DEF EstimatesHold, ReserveCoversExpiry, TwoEstimatesAgree
  <2>2. CASE phase # "signal"
    <3>1. PICK spot \in Spots : legs \in PackagesAt(spot)
      BY <2>2 DEF PackageInv, EstimatesMade
    <3>2. PICK worst \in Int :
             /\ \A k \in Nat : worst >= 100 * (NaturalPrice(legs) - Payoff(legs, k))
             /\ OptionMaxLoss(legs) = worst + Slippage
             /\ RecordedMaxLoss(legs, NaturalPrice(legs)) = worst
      BY <3>1, ReserveIs
    <3>3. reserved = worst + Slippage /\ recorded = worst /\ Slippage \in Nat
      BY <2>2, <3>2, PackageAssumption DEF PackageInv, EstimatesMade
    <3>4. ASSUME phase = "expired" PROVE - pnl <= reserved
      <4>1. PICK k \in Nat : pnl = 100 * (Payoff(legs, k) - opened)
        BY <3>4 DEF PackageInv, ExpiredAtPayoff
      <4>2. opened \in Int /\ opened <= NaturalPrice(legs)
        BY <3>4 DEF PackageInv, OpenedWithinLimit
      <4>3. Payoff(legs, k) \in Int /\ NaturalPrice(legs) \in Int
        BY <3>1, PackageWorst, ProfitSplits
      <4>4. worst >= 100 * (NaturalPrice(legs) - Payoff(legs, k))
        BY <3>2
      <4>5. QED
        BY <3>3, <4>1, <4>2, <4>3, <4>4
    <3>5. QED
      BY <3>3, <3>4 DEF EstimatesHold, ReserveCoversExpiry, TwoEstimatesAgree
  <2>3. QED
    BY <2>1, <2>2
<1>2. QED
  BY PackageInvHolds, <1>1, PTL

\* A package closed for its profit target earned it, whatever the quotes do between the
\* decision and the fill.
THEOREM TargetEarned == PackageSpec => []TargetIsRealised
<1>1. PackageInv => TargetIsRealised
  BY DEF PackageInv
<1>2. QED
  BY PackageInvHolds, <1>1, PTL

-----------------------------------------------------------------------------
(***************************************************************************)
(* Backtest.  Until the tapes fork they have the same book; the bar that   *)
(* follows enters a decision only by its open and by its being there.      *)
(***************************************************************************)
Positions == [side : {1, -1}, stop : Int, target : Int, raw : Nat \ {0}, quantity : Nat \ {0},
              entered : Nat, session : Nat, sizedFor : Int]
\* The last trade of a book, and a book.
Trades == [pnl : Int, risk : Int, costs : Int, left : Int, sizedFor : Int]
Books == [equity : Int, position : Positions \cup {NoPosition}, trade : Trades]

\* The bars of a tape: a shape in a session.
TapeBars == {[b EXCEPT !.session = s] : b \in Shapes, s \in Nat \ {0}}

\* The stop lies below the price of the entry and the target above, for a long position,
\* and the distance to the stop, over all of its quantity, is within the risk fraction.
Sized(p) ==
    /\ EntryPrice(p.side, p.raw) - 100 * p.side * p.stop > 0
    /\ EntryPrice(p.side, p.raw) < 100 * p.side * p.target
    /\ 100 * InitialRisk(p) <= RiskPercent * p.sizedFor

\* A trade lost its risk and its costs at most, and its risk was within the fraction.
WithinRisk(trade) ==
    /\ trade.pnl >= - (trade.risk + trade.costs)
    /\ 100 * trade.risk <= RiskPercent * trade.sizedFor

\* The types of a replay.
ReplayTypes ==
    /\ strategy \in Strategies
    /\ index \in Nat
    /\ bar \in TapeBars \cup {NoBar}
    /\ book \in [Tapes -> Books]

\* While the tapes are one, so are the books.
OneTape == ~ forked => book["tape"] = book["other"]

\* The trade closed last, and the position that will be closed, are within the risk.
LossesBounded ==
    LET s == book["tape"]
    IN  WithinRisk(s.trade) /\ (s.position # NoPosition => Sized(s.position))

\* The inductive invariant of Backtest.
ReplayInv == ReplayTypes /\ OneTape /\ NoLookAhead /\ LossesBounded

\* The prices of a bar of a tape are ordered and positive, and its session counts.
LEMMA TapeBarTypes ==
    ASSUME NEW b \in TapeBars
    PROVE  /\ b.open \in Nat \ {0} /\ b.low \in Nat /\ b.high \in Nat /\ b.close \in Nat
           /\ b.low <= b.close /\ b.close <= b.high
           /\ b.session \in Nat \ {0} /\ b # NoBar
           /\ [b EXCEPT !.session = 0] \in Shapes
<1> PICK x \in Shapes, s \in Nat \ {0} : b = [x EXCEPT !.session = s]
  BY DEF TapeBars
<1>1. x \in PriceBars
  BY BacktestAssumption
<1>2. /\ x \in [open : Nat \ {0}, low : Nat \ {0}, high : Nat \ {0}, close : Nat \ {0},
                session : {0}]
      /\ x.low <= x.close /\ x.close <= x.high
  BY <1>1 DEF PriceBars
<1>3. /\ b.open = x.open /\ b.low = x.low /\ b.high = x.high /\ b.close = x.close
      /\ b.session = s
  BY <1>2
<1>4. [b EXCEPT !.session = 0] = x
  BY <1>2
<1>5. b # NoBar
  BY <1>3 DEF NoBar
<1>6. QED
  BY <1>2, <1>3, <1>4, <1>5

\* A bar that follows is one of the tape.
LEMMA FollowingTypes ==
    ASSUME NEW b \in TapeBars, NEW n \in Following(b)
    PROVE  n \in TapeBars
BY TapeBarTypes DEF Following, TapeBars

\* What a strategy says of a bar.
LEMMA SignalOf ==
    ASSUME strategy \in Strategies, NEW b \in TapeBars
    PROVE  strategy[[b EXCEPT !.session = 0]] \in EntrySignals
BY TapeBarTypes, BacktestAssumption

\* Prices are numbers.
LEMMA PriceTypes ==
    ASSUME NEW side \in {1, -1}, NEW price \in Int
    PROVE  EntryPrice(side, price) \in Int /\ ExitPrice(side, price) \in Int
<1>1. SlippagePercent \in Int /\ side \in Int
  BY BacktestAssumption
<1>2. 100 + side * SlippagePercent \in Int /\ 100 - side * SlippagePercent \in Int
      /\ side * price \in Int
  BY <1>1
<1> DEFINE x == side * price
           y == 100 + side * SlippagePercent
           z == 100 - side * SlippagePercent
<1>3. x * y \in Int /\ x * z \in Int
  <2> HIDE DEF x, y, z
  <2>1. QED
    BY <1>2 DEF x, y, z
<1>4. QED
  BY <1>3 DEF EntryPrice, ExitPrice

\* The quantity is such that the distance to the stop is within the risk fraction.
LEMMA QuantityWithin ==
    ASSUME NEW signal \in EntrySignals, signal # NoEntry, NEW b \in TapeBars,
           NEW money \in Int, EntryRisk(signal, b) > 0
    PROVE  /\ Quantity(signal, b, money) \in Int /\ EntryRisk(signal, b) \in Int
           /\ 100 * (EntryRisk(signal, b) * Quantity(signal, b, money)) <= RiskPercent * money
<1> USE BacktestAssumption
<1>1. signal.side \in {1, -1} /\ signal.stop \in Int /\ signal.target \in Int
  BY DEF EntrySignals
<1>2. b.open \in Nat \ {0}
  BY TapeBarTypes
<1> DEFINE side == signal.side
           entry == EntryPrice(side, b.open)
           risk == EntryRisk(signal, b)
           share == 100 * side * entry
<1>3. entry \in Int
  BY <1>1, <1>2, PriceTypes
<1>4. risk \in Nat \ {0}
  <2>1. risk = entry - 100 * side * signal.stop
    BY DEF EntryRisk
  <2>2. 100 * side * signal.stop \in Int
    <3>1. CASE side = 1
      BY <1>1, <3>1
    <3>2. CASE side = -1
      BY <1>1, <3>2
    <3>3. QED
      BY <1>1, <3>1, <3>2
  <2> HIDE DEF entry, side
  <2>3. QED
    BY <1>3, <2>1, <2>2
<1>5. share \in Nat \ {0}
  <2>1. CASE side = 1
    <3>1. entry = b.open * (100 + SlippagePercent)
      BY <1>2, <2>1 DEF EntryPrice
    <3>2. b.open * (100 + SlippagePercent) >= b.open * 100
      BY <1>2, SMTT(20)
    <3>3. entry > 0
      BY <1>2, <3>1, <3>2
    <3> HIDE DEF entry
    <3>4. share = 100 * entry
      BY <1>3, <2>1
    <3>5. QED
      BY <1>3, <3>3, <3>4
  <2>2. CASE side = -1
    <3>1. entry = - (b.open * (100 - SlippagePercent))
      BY <1>2, <2>2 DEF EntryPrice
    <3>2. b.open * (100 - SlippagePercent) >= b.open
      <4>1. 100 - SlippagePercent \in Nat /\ 100 - SlippagePercent >= 1
        OBVIOUS
      <4> DEFINE y == 100 - SlippagePercent
      <4> HIDE DEF y
      <4>2. b.open * y >= b.open
        BY <1>2, <4>1, SMTT(20) DEF y
      <4>3. QED
        BY <4>2 DEF y
    <3>3. entry < 0
      BY <1>2, <1>3, <3>1, <3>2
    <3> HIDE DEF entry
    <3>4. share = 100 * (- entry)
      BY <1>3, <2>2
    <3>5. QED
      BY <1>3, <3>3, <3>4
  <2>3. QED
    BY <1>1, <2>1, <2>2
<1> DEFINE byRisk == (money * RiskPercent) \div (100 * risk)
           byCapital == (money * CapitalPercent) \div share
<1>6. Quantity(signal, b, money) = Min({byRisk, byCapital})
  BY DEF Quantity
<1> HIDE DEF side, entry, risk, share
<1>7. money * RiskPercent \in Int /\ money * CapitalPercent \in Int /\ 100 * risk \in Nat \ {0}
  BY <1>4
<1>8. byRisk \in Int /\ byRisk * (100 * risk) <= money * RiskPercent /\ byCapital \in Int
  BY <1>5, <1>7, QuotientBelow
<1> HIDE DEF byRisk, byCapital
<1> PICK q \in Int : q = Quantity(signal, b, money) /\ q <= byRisk
  BY <1>6, <1>8, LeastOfTwo
<1>9. q * (100 * risk) <= byRisk * (100 * risk)
  <2> DEFINE z == 100 * risk
  <2>1. z \in Nat
    BY <1>7
  <2> HIDE DEF z
  <2>2. q * z <= byRisk * z
    BY <1>8, <2>1, ProductMonotone
  <2>3. QED
    BY <2>2 DEF z
<1>10. q * (100 * risk) = 100 * (risk * q) /\ money * RiskPercent = RiskPercent * money
  BY <1>4
<1>11. q * (100 * risk) \in Int /\ byRisk * (100 * risk) \in Int
  BY <1>4, <1>8
<1>12. 100 * (risk * q) <= RiskPercent * money
  BY <1>7, <1>8, <1>9, <1>10, <1>11
<1>13. QED
  BY <1>4, <1>12 DEF risk

\* What is opened is filled on the next bar, and sized by its stop.
LEMMA OpenedSized ==
    ASSUME NEW signal \in EntrySignals, signal # NoEntry, NEW n \in TapeBars, NEW money \in Int,
           index \in Nat, bar \in TapeBars
    PROVE  \/ Opened(signal, n, money) = NoPosition
           \/ /\ Opened(signal, n, money) \in Positions
              /\ Opened(signal, n, money).entered = index + 2
              /\ Opened(signal, n, money).stop = signal.stop
              /\ Opened(signal, n, money).target = signal.target
              /\ Sized(Opened(signal, n, money))
<1> SUFFICES ASSUME Opened(signal, n, money) # NoPosition
             PROVE  /\ Opened(signal, n, money) \in Positions
                    /\ Opened(signal, n, money).entered = index + 2
                    /\ Opened(signal, n, money).stop = signal.stop
                    /\ Opened(signal, n, money).target = signal.target
                    /\ Sized(Opened(signal, n, money))
  OBVIOUS
<1> PICK q : q = Quantity(signal, n, money)
  OBVIOUS
<1> PICK p : p = [side |-> signal.side, stop |-> signal.stop, target |-> signal.target,
                  raw |-> n.open, quantity |-> q, entered |-> index + 2,
                  session |-> bar.session, sizedFor |-> money]
  OBVIOUS
<1>1. /\ Opened(signal, n, money) = p
      /\ ~ (EntryRisk(signal, n) <= 0)
      /\ ~ (EntryPrice(signal.side, n.open) >= 100 * signal.side * signal.target)
      /\ ~ (q <= 0)
  BY DEF Opened
<1>2. signal.side \in {1, -1} /\ signal.stop \in Int /\ signal.target \in Int
  BY DEF EntrySignals
<1>3. n.open \in Nat \ {0} /\ bar.session \in Nat
  BY TapeBarTypes
<1>4. EntryPrice(signal.side, n.open) \in Int
  BY <1>2, <1>3, PriceTypes
<1>5. 100 * signal.side * signal.stop \in Int /\ 100 * signal.side * signal.target \in Int
  <2>1. CASE signal.side = 1
    BY <1>2, <2>1
  <2>2. CASE signal.side = -1
    BY <1>2, <2>2
  <2>3. QED
    BY <1>2, <2>1, <2>2
<1>6. EntryRisk(signal, n) = EntryPrice(signal.side, n.open) - 100 * signal.side * signal.stop
  BY DEF EntryRisk
<1>7. EntryRisk(signal, n) \in Int /\ EntryRisk(signal, n) > 0
  BY <1>1, <1>4, <1>5, <1>6
<1>8. q \in Int /\ 100 * (EntryRisk(signal, n) * q) <= RiskPercent * money
  BY <1>7, QuantityWithin
<1>9. q \in Nat \ {0}
  BY <1>1, <1>8
<1>10. p \in Positions
  BY <1>2, <1>3, <1>9 DEF Positions
<1>11. Sized(p)
  <2>1. InitialRisk(p) = EntryRisk(signal, n) * q
    BY <1>6 DEF InitialRisk
  <2>2. EntryPrice(signal.side, n.open) < 100 * signal.side * signal.target
    BY <1>1, <1>4, <1>5
  <2>3. QED
    BY <1>6, <1>7, <1>8, <2>1, <2>2 DEF Sized
<1>12. QED
  BY <1>1, <1>10, <1>11

\* An exit is never beyond the stop: the price is the stop itself, a target above it, or
\* a close that did not reach it.
LEMMA ExitNotBeyondStop ==
    ASSUME NEW p \in Positions, Sized(p), NEW b \in TapeBars
    PROVE  ExitAt(p, b) \in Int /\ p.side * p.stop <= p.side * ExitAt(p, b)
<1>1. /\ p.side \in {1, -1} /\ p.stop \in Int /\ p.target \in Int /\ p.raw \in Int
  BY DEF Positions
<1>2. b.low \in Int /\ b.high \in Int /\ b.close \in Int /\ b.low <= b.close /\ b.close <= b.high
  <2>1. b.low \in Nat /\ b.high \in Nat /\ b.close \in Nat /\ b.low <= b.close
        /\ b.close <= b.high
    BY TapeBarTypes
  <2>2. QED
    BY <2>1
<1>3. EntryPrice(p.side, p.raw) \in Int
  BY <1>1, PriceTypes
<1>4. CASE p.side = 1
  <2>1. EntryPrice(1, p.raw) - 100 * p.stop > 0 /\ EntryPrice(1, p.raw) < 100 * p.target
    BY <1>1, <1>4 DEF Sized
  <2>2. p.stop <= p.target
    BY <1>1, <1>3, <1>4, <2>1
  <2>3. QED
    BY <1>1, <1>2, <1>4, <2>2 DEF ExitAt, Worst, Best
<1>5. CASE p.side = -1
  <2>1. EntryPrice(-1, p.raw) + 100 * p.stop > 0 /\ EntryPrice(-1, p.raw) < - (100 * p.target)
    BY <1>1, <1>3, <1>5 DEF Sized
  <2>2. p.target <= p.stop
    BY <1>1, <1>3, <1>5, <2>1
  <2>3. QED
    BY <1>1, <1>2, <1>5, <2>2 DEF ExitAt, Worst, Best
<1>6. QED
  BY <1>1, <1>4, <1>5

\* A trade loses no more than its risk and its costs.
LEMMA ClosedWithin ==
    ASSUME NEW p \in Positions, Sized(p), NEW b \in TapeBars
    PROVE  Closed(p, ExitAt(p, b)) \in Trades /\ WithinRisk(Closed(p, ExitAt(p, b)))
<1> PICK price : price = ExitAt(p, b)
  OBVIOUS
<1>1. /\ p.side \in {1, -1} /\ p.stop \in Int /\ p.raw \in Int
      /\ p.quantity \in Nat /\ p.sizedFor \in Int
  BY DEF Positions
<1>2. price \in Int /\ p.side * p.stop <= p.side * price
  BY ExitNotBeyondStop
<1> PICK entered \in Int : entered = EntryPrice(p.side, p.raw)
  BY <1>1, PriceTypes
<1> PICK exited \in Int : exited = ExitPrice(p.side, price)
  BY <1>1, <1>2, PriceTypes
<1> PICK stop \in Int : stop = 100 * p.side * p.stop
  <2>1. CASE p.side = 1
    BY <1>1, <2>1
  <2>2. CASE p.side = -1
    BY <1>1, <2>2
  <2>3. QED
    BY <1>1, <2>1, <2>2
<1> PICK left \in Int : left = 100 * p.side * price
  <2>1. CASE p.side = 1
    BY <1>2, <2>1
  <2>2. CASE p.side = -1
    BY <1>2, <2>2
  <2>3. QED
    BY <1>1, <2>1, <2>2
<1>3. stop <= left
  BY <1>1, <1>2
<1> PICK fees \in Int : fees = 2 * Commission
  BY BacktestAssumption
<1> PICK q \in Nat : q = p.quantity
  BY <1>1
<1>4. Closed(p, price) = [pnl |-> (exited - entered - fees) * q, risk |-> (entered - stop) * q,
                          costs |-> (left - exited + fees) * q, left |-> price,
                          sizedFor |-> p.sizedFor]
  BY DEF Closed, InitialRisk
<1>5. (exited - entered - fees) * q \in Int /\ (entered - stop) * q \in Int
      /\ (left - exited + fees) * q \in Int
  OBVIOUS
<1>6. Closed(p, price) \in Trades
  BY <1>1, <1>2, <1>4, <1>5 DEF Trades
<1>7. (exited - entered - fees) * q >= - ((entered - stop) * q + (left - exited + fees) * q)
  <2>1. stop * q <= left * q /\ stop * q \in Int /\ left * q \in Int
    BY <1>3, ProductMonotone
  <2>2. (exited - entered - fees) * q + (entered - stop) * q + (left - exited + fees) * q
          = left * q - stop * q
    BY SMTT(20)
  <2>3. QED
    BY <1>5, <2>1, <2>2
<1>8. 100 * ((entered - stop) * q) <= RiskPercent * p.sizedFor
  BY DEF Sized, InitialRisk
<1>9. WithinRisk(Closed(p, price))
  BY <1>4, <1>7, <1>8 DEF WithinRisk
<1>10. QED
  BY <1>6, <1>9

\* What the losses of a book may be.
BookWithin(s) == WithinRisk(s.trade) /\ (s.position # NoPosition => Sized(s.position))

\* A bar leaves a book of the right type, within its risk.
LEMMA ProcessedWithin ==
    ASSUME strategy \in Strategies, index \in Nat, bar \in TapeBars,
           NEW s \in Books, BookWithin(s), NEW n \in TapeBars \cup {NoBar}
    PROVE  Processed(s, bar, n) \in Books /\ BookWithin(Processed(s, bar, n))
<1> PICK r : r = Processed(s, bar, n)
  OBVIOUS
<1> PICK signal \in EntrySignals : signal = strategy[[bar EXCEPT !.session = 0]]
  BY SignalOf
<1>1. s.equity \in Int /\ s.trade \in Trades /\ s.position \in Positions \cup {NoPosition}
  BY DEF Books
<1>2. CASE s.position # NoPosition /\ Exits(s.position, bar, n)
  <2> PICK trade : trade = Closed(s.position, ExitAt(s.position, bar))
    OBVIOUS
  <2>1. r = [equity |-> s.equity + trade.pnl, position |-> NoPosition, trade |-> trade]
    BY <1>2 DEF Processed
  <2>2. s.position \in Positions /\ Sized(s.position)
    BY <1>1, <1>2 DEF BookWithin
  <2>3. trade \in Trades /\ WithinRisk(trade)
    BY <2>2, ClosedWithin
  <2>4. r \in Books
    BY <1>1, <2>1, <2>3 DEF Books, Trades
  <2>5. QED
    BY <2>1, <2>3, <2>4 DEF BookWithin
<1>3. CASE s.position = NoPosition /\ Enterable(bar, n) /\ signal # NoEntry
  <2> PICK p : p = Opened(signal, n, s.equity)
    OBVIOUS
  <2>1. r = [s EXCEPT !.position = p]
    BY <1>3 DEF Processed, Latest
  <2>2. n \in TapeBars
    BY <1>3 DEF Enterable
  <2>3. p = NoPosition \/ (p \in Positions /\ Sized(p))
    BY <1>1, <1>3, <2>2, OpenedSized
  <2>4. r \in Books /\ r.position = p /\ r.trade = s.trade
    BY <2>1, <2>3 DEF Books
  <2>5. QED
    BY <2>3, <2>4 DEF BookWithin
<1>4. CASE r = s
  BY <1>4
<1>5. QED
  BY <1>2, <1>3, <1>4 DEF Processed, Latest

\* Two continuations in one session leave the same trades, and positions that are the
\* same, or were not there before and are of one signal.
LEMMA ProcessedAlike ==
    ASSUME strategy \in Strategies, index \in Nat, bar \in TapeBars,
           NEW s \in Books, NEW n \in TapeBars, NEW m \in TapeBars, n.session = m.session
    PROVE  LET r == Processed(s, bar, n)
               q == Processed(s, bar, m)
               new(p) == p = NoPosition \/ p.entered = index + 2
           IN  /\ r.equity = q.equity /\ r.trade = q.trade
               /\ \/ r.position = q.position
                  \/ /\ new(r.position) /\ new(q.position)
                     /\ r.position # NoPosition /\ q.position # NoPosition =>
                          /\ r.position.stop = q.position.stop
                          /\ r.position.target = q.position.target
<1> DEFINE new(p) == p = NoPosition \/ p.entered = index + 2
<1> PICK r : r = Processed(s, bar, n)
  OBVIOUS
<1> PICK q : q = Processed(s, bar, m)
  OBVIOUS
<1> PICK signal \in EntrySignals : signal = strategy[[bar EXCEPT !.session = 0]]
  BY SignalOf
<1>1. n # NoBar /\ m # NoBar
  BY TapeBarTypes
<1>2. /\ Exits(s.position, bar, n) <=> Exits(s.position, bar, m)
      /\ Enterable(bar, n) <=> Enterable(bar, m)
  BY <1>1 DEF Exits, Ends, Enterable
<1>3. CASE s.position = NoPosition /\ Enterable(bar, n) /\ signal # NoEntry
  <2> PICK x : x = Opened(signal, n, s.equity)
    OBVIOUS
  <2> PICK y : y = Opened(signal, m, s.equity)
    OBVIOUS
  <2>1. r = [s EXCEPT !.position = x] /\ q = [s EXCEPT !.position = y]
    BY <1>2, <1>3 DEF Processed, Latest
  <2>2. s.equity \in Int
    BY DEF Books
  <2>3. /\ x # NoPosition =>
             x.entered = index + 2 /\ x.stop = signal.stop /\ x.target = signal.target
        /\ y # NoPosition =>
             y.entered = index + 2 /\ y.stop = signal.stop /\ y.target = signal.target
    BY <1>3, <2>2, OpenedSized
  <2>4. r.equity = s.equity /\ r.trade = s.trade /\ r.position = x
        /\ q.equity = s.equity /\ q.trade = s.trade /\ q.position = y
    BY <2>1 DEF Books
  <2>5. QED
    BY <2>3, <2>4
<1>4. CASE ~ (s.position = NoPosition /\ Enterable(bar, n) /\ signal # NoEntry)
  <2>1. r = q
    BY <1>2, <1>4 DEF Processed, Latest
  <2>2. QED
    BY <2>1
<1>5. QED
  BY <1>3, <1>4

\* Of two tapes with one book neither foretells anything.
LEMMA SameBooks == book'["tape"] = book'["other"] => NoLookAhead'
BY DEF NoLookAhead

\* A replay starts with one tape, no position and no trade.
LEMMA ReplayInitInv == ReplayInit => ReplayInv
<1> SUFFICES ASSUME ReplayInit PROVE ReplayInv
  OBVIOUS
<1> USE BacktestAssumption DEF ReplayInit
<1>1. NoTrade \in Trades /\ WithinRisk(NoTrade)
  BY DEF NoTrade, Trades, WithinRisk
<1> PICK s : s = [equity |-> InitialEquity, position |-> NoPosition, trade |-> NoTrade]
  OBVIOUS
<1>2. s \in Books
  BY <1>1 DEF Books
<1>3. book = [t \in Tapes |-> s] /\ book["tape"] = s /\ book["other"] = s
  BY DEF Tapes
<1>4. bar \in TapeBars
  BY DEF TapeBars
<1>5. ReplayTypes
  BY <1>2, <1>3, <1>4 DEF ReplayTypes
<1>6. OneTape
  BY <1>3 DEF OneTape
<1>7. NoLookAhead
  BY <1>3 DEF NoLookAhead
<1>8. LossesBounded
  BY <1>1, <1>3 DEF LossesBounded
<1>9. QED
  BY <1>5, <1>6, <1>7, <1>8 DEF ReplayInv

\* Until the fork one tape is processed; at the fork its two continuations are alike.
LEMMA ReplayNextInv == ReplayInv /\ [ReplayNext]_replayVars => ReplayInv'
<1> SUFFICES ASSUME ReplayInv, [ReplayNext]_replayVars PROVE ReplayInv'
  OBVIOUS
<1> USE DEF ReplayInv
<1>1. CASE ReplayNext
  <2>1. /\ bar \in TapeBars /\ index \in Nat /\ strategy \in Strategies
        /\ index' = index + 1 /\ strategy' = strategy
        /\ book["tape"] = book["other"] /\ book["tape"] \in Books
        /\ LossesBounded
    BY <1>1 DEF ReplayNext, ReplayBar, ForkBar, ReplayTypes, OneTape, Tapes
  <2> PICK s \in Books : s = book["tape"]
    BY <2>1
  <2>2. BookWithin(s)
    BY <2>1 DEF LossesBounded, BookWithin
  <2>3. CASE ReplayBar
    <3> PICK n \in Following(bar) \cup {NoBar} :
          book' = [t \in Tapes |-> Processed(book[t], bar, n)] /\ bar' = n
      BY <2>3 DEF ReplayBar
    <3> PICK r : r = Processed(s, bar, n)
      OBVIOUS
    <3>1. n \in TapeBars \cup {NoBar}
      BY <2>1, FollowingTypes
    <3>2. r \in Books /\ BookWithin(r)
      BY <2>1, <2>2, <3>1, ProcessedWithin
    <3>3. book' \in [Tapes -> Books] /\ book'["tape"] = r /\ book'["other"] = r
      BY <2>1, <3>2 DEF Tapes
    <3>4. ReplayTypes'
      BY <2>1, <3>1, <3>3 DEF ReplayTypes
    <3>5. book'["tape"] = book'["other"]
      BY <3>3
    <3>6. OneTape'
      BY <3>5 DEF OneTape
    <3>7. NoLookAhead'
      BY <3>5, SameBooks
    <3>8. LossesBounded'
      BY <3>2, <3>3 DEF LossesBounded, BookWithin
    <3>9. QED
      BY <3>4, <3>6, <3>7, <3>8
  <2>4. CASE ForkBar
    <3> PICK n \in Following(bar), m \in Following(bar) :
          /\ n.session = m.session
          /\ book' = [tape |-> Processed(book["tape"], bar, n),
                      other |-> Processed(book["other"], bar, m)]
          /\ bar' = n
      BY <2>4 DEF ForkBar
    <3> PICK r : r = Processed(s, bar, n)
      OBVIOUS
    <3> PICK q : q = Processed(s, bar, m)
      OBVIOUS
    <3>1. n \in TapeBars /\ m \in TapeBars
      BY <2>1, FollowingTypes
    <3>2. r \in Books /\ BookWithin(r) /\ q \in Books
      BY <2>1, <2>2, <3>1, ProcessedWithin
    <3>3. book' \in [Tapes -> Books] /\ book'["tape"] = r /\ book'["other"] = q
      <4>1. book' = [tape |-> r, other |-> q]
        BY <2>1
      <4>2. QED
        BY <3>2, <4>1 DEF Tapes
    <3>4. ReplayTypes'
      BY <2>1, <3>1, <3>3 DEF ReplayTypes
    <3>5. OneTape'
      BY <2>4 DEF OneTape, ForkBar
    <3>6. /\ r.equity = q.equity /\ r.trade = q.trade
          /\ \/ r.position = q.position
             \/ /\ r.position = NoPosition \/ r.position.entered = index + 2
                /\ q.position = NoPosition \/ q.position.entered = index + 2
                /\ r.position # NoPosition /\ q.position # NoPosition =>
                     /\ r.position.stop = q.position.stop
                     /\ r.position.target = q.position.target
      BY <2>1, <3>1, ProcessedAlike
    <3>7. NoLookAhead'
      <4>1. CASE r.position = q.position
        BY <3>3, <3>6, <4>1 DEF NoLookAhead
      <4>2. CASE r.position # q.position
        <5>1. NoPosition.entered = 0
          BY DEF NoPosition
        <5>2. index' \in Nat /\ ~ (index + 2 <= index') /\ 0 <= index' /\ ~ (0 > index')
          BY <2>1
        <5>3. /\ (IF r.position.entered <= index' THEN r.position ELSE NoPosition) = NoPosition
              /\ (IF q.position.entered <= index' THEN q.position ELSE NoPosition) = NoPosition
          BY <3>6, <4>2, <5>2
        <5>4. \/ ~ (r.position.entered > index') \/ ~ (q.position.entered > index')
              \/ [stop |-> r.position.stop, target |-> r.position.target]
                   = [stop |-> q.position.stop, target |-> q.position.target]
          BY <3>6, <4>2, <5>1, <5>2
        <5>5. QED
          BY <3>3, <3>6, <5>3, <5>4 DEF NoLookAhead
      <4>3. QED
        BY <4>1, <4>2
    <3>8. LossesBounded'
      BY <3>2, <3>3 DEF LossesBounded, BookWithin
    <3>9. QED
      BY <3>4, <3>5, <3>7, <3>8
  <2>5. QED
    BY <1>1, <2>3, <2>4 DEF ReplayNext
<1>2. CASE UNCHANGED replayVars
  BY <1>2 DEF replayVars, ReplayTypes, OneTape, NoLookAhead, LossesBounded
<1>3. QED
  BY <1>1, <1>2

\* It holds of every behaviour.
LEMMA ReplayInvHolds == ReplaySpec => []ReplayInv
BY ReplayInitInv, ReplayNextInv, PTL DEF ReplaySpec

\* A replay is type correct, for any bars, strategies and configuration: it ends with its
\* data, and a position has a side and at least one share, or is none (backtest.py).
THEOREM ReplayTypeCorrect == ReplaySpec => []ReplayTypeOK
<1> DEFINE Ending == index <= MaxReplay
<1>1. ReplayInit => Ending
  BY BacktestAssumption DEF ReplayInit
<1>2. ReplayInv /\ Ending /\ [ReplayNext]_replayVars => Ending'
  <2>1. SUFFICES ASSUME ReplayInv, Ending, [ReplayNext]_replayVars PROVE Ending'
    OBVIOUS
  <2>2. index \in Nat /\ MaxReplay \in Nat
    BY <2>1, BacktestAssumption DEF ReplayInv, ReplayTypes
  <2>3. CASE ReplayBar
    BY <2>2, <2>3 DEF ReplayBar
  <2>4. CASE ForkBar
    BY <2>2, <2>4 DEF ForkBar
  <2>5. CASE UNCHANGED replayVars
    BY <2>1, <2>5 DEF replayVars
  <2>6. QED
    BY <2>1, <2>3, <2>4, <2>5 DEF ReplayNext
<1>3. ReplayInv /\ Ending => ReplayTypeOK
  <2>1. SUFFICES ASSUME ReplayInv, Ending PROVE ReplayTypeOK
    OBVIOUS
  <2>2. index \in 0..MaxReplay
    BY <2>1, BacktestAssumption DEF ReplayInv, ReplayTypes
  <2>3. ASSUME NEW t \in Tapes
        PROVE  book[t].position.quantity >= 0 /\ book[t].position.side \in {-1, 0, 1}
    <3>1. book[t] \in Books
      BY <2>1 DEF ReplayInv, ReplayTypes
    <3>2. book[t].position \in Positions \cup {NoPosition}
      BY <3>1 DEF Books
    <3>3. CASE book[t].position = NoPosition
      BY <3>3 DEF NoPosition
    <3>4. CASE book[t].position \in Positions
      BY <3>4 DEF Positions
    <3>5. QED
      BY <3>2, <3>3, <3>4
  <2>4. QED
    BY <2>2, <2>3 DEF ReplayTypeOK
<1> HIDE DEF Ending
<1>4. QED
  BY <1>1, <1>2, <1>3, ReplayInvHolds, PTL DEF ReplaySpec

\* Neither the trades of a replay nor the positions it held depend on a price that comes
\* later, for any strategies, bars and configuration (backtest.py Backtester.run).
THEOREM ReplayForetellsNothing == ReplaySpec => []NoLookAhead
<1>1. ReplayInv => NoLookAhead
  BY DEF ReplayInv
<1>2. QED
  BY <1>1, ReplayInvHolds, PTL

\* A trade loses no more than the risk it was sized with and its costs, and that risk is
\* within the risk fraction of the equity, for any bars and signals, however far a
\* session opens beyond a stop (backtest.py _open_position, _close_trade).
THEOREM LossesStayBounded == ReplaySpec => []LossBounded
<1>1. ReplayInv => LossBounded
  BY DEF ReplayInv, LossesBounded, WithinRisk, LossBounded
<1>2. QED
  BY <1>1, ReplayInvHolds, PTL

-----------------------------------------------------------------------------
(***************************************************************************)
(* Validation.  The parts of a validation are independent, for every       *)
(* length of the series, split, number of folds and history: the           *)
(* boundaries of the folds are integer quotients, and a quotient grows     *)
(* with its dividend.                                                      *)
(***************************************************************************)
\* What a call that has not raised hands over.
Callable(s) ==
    /\ s \in [method : {"validate", "stability"}, bars : Nat, first : Nat, folds : Nat \ {0}]
    /\ s.first <= s.bars

\* The boundaries of the folds follow one another, from the first tested bar on.
LEMMA BoundariesAscend ==
    ASSUME NEW s, Callable(s), NEW j \in Nat, NEW k \in Nat, j <= k
    PROVE  /\ FoldBoundary(s, j) \in Nat /\ FoldBoundary(s, k) \in Nat
           /\ s.first <= FoldBoundary(s, j) /\ FoldBoundary(s, j) <= FoldBoundary(s, k)
<1> DEFINE N == s.bars - s.first
<1>1. N \in Nat /\ s.first \in Nat /\ s.folds \in Nat \ {0}
  BY DEF Callable
<1> HIDE DEF N
<1>2. N * j \in Nat /\ N * k \in Nat /\ N * j <= N * k
  <2>1. N * (k - j) \in Nat
    BY <1>1
  <2>2. QED
    BY <1>1, <2>1
<1>3. /\ (N * j) \div s.folds \in Nat /\ (N * k) \div s.folds \in Nat
      /\ (N * j) \div s.folds <= (N * k) \div s.folds
  <2> DEFINE a == N * j
             b == N * k
  <2>1. a \in Nat /\ b \in Nat /\ a <= b /\ b <= b
    BY <1>2
  <2> HIDE DEF a, b
  <2>2. /\ a \div s.folds \in Nat /\ b \div s.folds \in Nat
        /\ a \div s.folds <= b \div s.folds
    BY <1>1, <2>1, QuotientMonotone
  <2>3. QED
    BY <2>2 DEF a, b
<1>4. QED
  BY <1>1, <1>3 DEF FoldBoundary, N

\* A part ends where a later one begins or before, and a tested part begins with or
\* after the first tested bar.
LEMMA PartsOrdered ==
    ASSUME NEW s, Callable(s)
    PROVE  /\ \A k \in PartsOf(s) : k \in Nat /\ From(s, k) \in Nat /\ To(s, k) \in Int
           /\ \A j, k \in PartsOf(s) : j < k => To(s, j) <= From(s, k)
           /\ \A k \in PartsOf(s) : k > 0 => s.first <= From(s, k)
<1>1. CASE s.method = "validate"
  BY <1>1 DEF Callable, PartsOf, From, To
<1>2. CASE s.method # "validate"
  <2>1. \A k \in PartsOf(s) : k \in Nat /\ k - 1 \in Nat /\ k > 0
    BY <1>2 DEF PartsOf, Callable
  <2>2. \A k \in PartsOf(s) :
          /\ FoldBoundary(s, k - 1) \in Nat /\ FoldBoundary(s, k) \in Nat
          /\ s.first <= FoldBoundary(s, k - 1)
    BY <2>1, BoundariesAscend
  <2>3. \A j, k \in PartsOf(s) : j < k => FoldBoundary(s, j) <= FoldBoundary(s, k - 1)
    <3>1. SUFFICES ASSUME NEW j \in PartsOf(s), NEW k \in PartsOf(s), j < k
                   PROVE  FoldBoundary(s, j) <= FoldBoundary(s, k - 1)
      OBVIOUS
    <3>2. j \in Nat /\ k - 1 \in Nat /\ j <= k - 1
      BY <2>1, <3>1
    <3>3. QED
      BY <3>2, BoundariesAscend
  <2>4. QED
    BY <1>2, <2>1, <2>2, <2>3 DEF From, To
<1>3. QED
  BY <1>1, <1>2

\* The warmup begins no later than the part.
LEMMA WarmupBefore ==
    ASSUME NEW s, Callable(s), NEW k \in PartsOf(s)
    PROVE  WarmupStart(s, k) \in Nat
BY PartsOrdered, ValidationAssumption DEF WarmupStart

-----------------------------------------------------------------------------
\* The bars of a trade lie within its part.
Within(t) ==
    /\ t.part \in PartsOf(series)
    /\ From(series, t.part) <= t.signal /\ t.left < To(series, t.part)

\* Nothing is replayed before a call, and then only within its parts.
WalkInv ==
    /\ WalkTypeOK
    /\ series = NoSeries => trials = {}
    /\ series # NoSeries =>
          /\ Callable(series)
          /\ walk.part \in PartsOf(series)
          /\ walk.signal # -1 => From(series, walk.part) <= walk.signal
          /\ \A t \in trials : Within(t)

\* Nothing has been validated.
LEMMA WalkInitInv == WalkInit => WalkInv
BY DEF WalkInit, WalkInv, WalkTypeOK, NoSeries, NoWalk

\* A call that raises nothing is callable.
LEMMA CallStep ==
    ASSUME WalkInv, Validate \/ ChronologicalStability
    PROVE  WalkInv'
<1>1. trials = {} /\ trials' = {}
  BY DEF WalkInv, Validate, ChronologicalStability
<1>2. Callable(series') /\ series' # NoSeries
  <2>1. CASE Validate
    <3>1. PICK n \in Lengths, percent \in SplitPercents :
            /\ FirstTested(n, percent) >= MinimumWarmup
            /\ n - FirstTested(n, percent) >= MinimumWarmup
            /\ series' = [method |-> "validate", bars |-> n,
                          first |-> FirstTested(n, percent), folds |-> 1]
      BY <2>1 DEF Validate
    <3>2. n \in Nat /\ percent \in Nat /\ n * percent \in Nat
      BY ValidationAssumption
    <3>3. FirstTested(n, percent) \in Nat
      BY <3>2, QuotientMonotone DEF FirstTested
    <3>4. QED
      BY <3>1, <3>2, <3>3, ValidationAssumption DEF Callable, NoSeries
  <2>2. CASE ChronologicalStability
    <3>1. PICK n \in Lengths, percent \in SplitPercents, folds \in FoldCounts :
            /\ FirstTested(n, percent) >= MinimumWarmup
            /\ n - FirstTested(n, percent) >= folds * MinimumFoldBars
            /\ series' = [method |-> "stability", bars |-> n,
                          first |-> FirstTested(n, percent), folds |-> folds]
      BY <2>2 DEF ChronologicalStability
    <3>2. n \in Nat /\ percent \in Nat /\ n * percent \in Nat
      BY ValidationAssumption
    <3>3. FirstTested(n, percent) \in Nat
      BY <3>2, QuotientMonotone DEF FirstTested
    <3>4. folds \in Nat \ {0} /\ folds * MinimumFoldBars \in Nat
      BY ValidationAssumption
    <3>5. QED
      BY <3>1, <3>2, <3>3, <3>4 DEF Callable, NoSeries
  <2>3. QED
    BY <2>1, <2>2
<1>3. PICK k \in PartsOf(series') : walk' = BeginPart(series', k)
  <2>1. CASE Validate
    <3>1. walk' = BeginPart(series', 0) /\ series'.method = "validate"
      BY <2>1 DEF Validate
    <3>2. QED
      BY <3>1 DEF PartsOf
  <2>2. CASE ChronologicalStability
    <3>1. walk' = BeginPart(series', 1) /\ series'.method = "stability"
      BY <2>2 DEF ChronologicalStability
    <3>2. QED
      BY <3>1, <1>2 DEF PartsOf, Callable
  <2>3. QED
    BY <2>1, <2>2
<1>4. WarmupStart(series', k) \in Nat /\ k \in Nat
  BY <1>2, <1>3, WarmupBefore, PartsOrdered
<1>5. series' \in [method : {"none", "validate", "stability"}, bars : Nat, first : Nat, folds : Nat]
  BY <1>2 DEF Callable
<1>6. /\ walk' \in [part : Nat, next : Nat, signal : Nat \cup {-1}]
      /\ walk'.part = k /\ walk'.signal = -1
  BY <1>3, <1>4 DEF BeginPart
<1> HIDE DEF Callable
<1>7. QED
  BY <1>1, <1>2, <1>3, <1>5, <1>6 DEF WalkInv, WalkTypeOK

\* A step of the replay keeps to its part.
LEMMA ReplayStep ==
    ASSUME WalkInv, PassBar \/ SignalAtBar \/ HoldBar \/ ExitAtBar
    PROVE  WalkInv'
<1>1. /\ series # NoSeries /\ Callable(series) /\ series' = series
      /\ walk.part \in PartsOf(series) /\ walk.next < To(series, walk.part)
      /\ walk \in [part : Nat, next : Nat, signal : Nat \cup {-1}]
  BY DEF WalkInv, WalkTypeOK, PassBar, SignalAtBar, HoldBar, ExitAtBar, Walking
<1>2. From(series, walk.part) \in Nat /\ To(series, walk.part) \in Int
  BY <1>1, PartsOrdered
<1>3. CASE PassBar \/ HoldBar
  <2>1. /\ trials' = trials
        /\ walk' = [walk EXCEPT !.next = walk.next + 1]
    BY <1>3 DEF PassBar, HoldBar
  <2>2. /\ walk' \in [part : Nat, next : Nat, signal : Nat \cup {-1}]
        /\ walk'.part = walk.part /\ walk'.signal = walk.signal
    BY <1>1, <2>1
  <2>3. QED
    BY <1>1, <2>1, <2>2 DEF WalkInv, WalkTypeOK, Within
<1>4. CASE SignalAtBar
  <2>1. /\ trials' = trials /\ From(series, walk.part) <= walk.next
        /\ walk' = [walk EXCEPT !.signal = walk.next, !.next = walk.next + 1]
    BY <1>4 DEF SignalAtBar, SignalStart
  <2>2. /\ walk' \in [part : Nat, next : Nat, signal : Nat \cup {-1}]
        /\ walk'.part = walk.part /\ walk'.signal = walk.next
    <3>1. walk.part \in Nat /\ walk.next \in Nat /\ walk.next + 1 \in Nat
      BY <1>1
    <3>2. walk' = [part |-> walk.part, next |-> walk.next + 1, signal |-> walk.next]
      BY <1>1, <2>1
    <3>3. QED
      BY <3>1, <3>2
  <2>3. QED
    BY <1>1, <2>1, <2>2 DEF WalkInv, WalkTypeOK, Within
<1>5. CASE ExitAtBar
  <2> DEFINE t == [part |-> walk.part, signal |-> walk.signal, left |-> walk.next]
  <2>1. t \in [part : Nat, signal : Nat, left : Nat] /\ Within(t)
    BY <1>1, <1>5 DEF ExitAtBar, WalkInv, Within
  <2>2. trials' = trials \cup {t}
    BY <1>5 DEF ExitAtBar
  <2>3. \A u \in trials' : Within(u)
    BY <1>1, <2>1, <2>2 DEF WalkInv
  <2>4. (\A u \in trials : Within(u))'
    BY <1>1, <2>3 DEF Within
  <2>5. walk' = [walk EXCEPT !.signal = -1, !.next = walk.next + 1]
    BY <1>5 DEF ExitAtBar
  <2>6. /\ walk' \in [part : Nat, next : Nat, signal : Nat \cup {-1}]
        /\ walk'.part = walk.part /\ walk'.signal = -1
    <3>1. walk' = [part |-> walk.part, next |-> walk.next + 1, signal |-> -1]
      BY <1>1, <2>5
    <3>2. QED
      BY <1>1, <3>1
  <2> HIDE DEF t
  <2>7. trials' \subseteq [part : Nat, signal : Nat, left : Nat]
    BY <2>1, <2>2 DEF WalkInv, WalkTypeOK
  <2>8. QED
    BY <1>1, <2>4, <2>6, <2>7 DEF WalkInv, WalkTypeOK
<1>6. QED
  BY <1>3, <1>4, <1>5

\* The next part begins at its warmup.
LEMMA PartStep == ASSUME WalkInv, NextPart PROVE WalkInv'
<1>1. /\ Callable(series) /\ series' = series /\ trials' = trials
      /\ walk.part + 1 \in PartsOf(series)
      /\ walk' = BeginPart(series, walk.part + 1)
  BY DEF WalkInv, NextPart
<1>2. WarmupStart(series, walk.part + 1) \in Nat /\ walk.part + 1 \in Nat
  BY <1>1, WarmupBefore, PartsOrdered
<1>3. QED
  BY <1>1, <1>2 DEF WalkInv, WalkTypeOK, BeginPart, Within

\* The invariant holds in every step.
LEMMA WalkNextInv == WalkInv /\ [WalkNext]_walkVars => WalkInv'
<1>1. SUFFICES ASSUME WalkInv, [WalkNext]_walkVars PROVE WalkInv'
  OBVIOUS
<1>2. CASE UNCHANGED walkVars
  BY <1>1, <1>2 DEF walkVars, WalkInv, WalkTypeOK, Within
<1>3. CASE WalkNext
  BY <1>1, <1>3, CallStep, ReplayStep, PartStep DEF WalkNext
<1>4. QED
  BY <1>1, <1>2, <1>3

\* Trades within ordered parts share no bar.
LEMMA WithinIndependent == WalkInv => PartsIndependent
<1>1. SUFFICES ASSUME WalkInv PROVE PartsIndependent
  OBVIOUS
<1>2. CASE series = NoSeries
  BY <1>1, <1>2 DEF WalkInv, PartsIndependent
<1>3. CASE series # NoSeries
  <2>1. Callable(series) /\ \A t \in trials : Within(t)
    BY <1>1, <1>3 DEF WalkInv
  <2>2. \A t \in trials : t.part \in Nat /\ t.signal \in Nat /\ t.left \in Nat
    BY <1>1 DEF WalkInv, WalkTypeOK
  <2>3. ASSUME NEW t \in trials, NEW u \in trials, t.part < u.part PROVE t.left < u.signal
    <3>1. t.left < To(series, t.part) /\ From(series, u.part) <= u.signal
      BY <2>1 DEF Within
    <3>2. /\ To(series, t.part) <= From(series, u.part)
          /\ To(series, t.part) \in Int /\ From(series, u.part) \in Nat
      BY <2>1, <2>3, PartsOrdered DEF Within
    <3>3. QED
      BY <3>1, <3>2, <2>2
  <2>4. ASSUME NEW t \in trials, t.part > 0 PROVE t.signal >= series.first
    <3>1. From(series, t.part) <= t.signal /\ t.part \in PartsOf(series)
      BY <2>1 DEF Within
    <3>2. series.first <= From(series, t.part) /\ From(series, t.part) \in Nat
      BY <2>1, <2>4, <3>1, PartsOrdered
    <3>3. QED
      BY <3>1, <3>2, <2>1, <2>2 DEF Callable
  <2>5. QED
    BY <2>3, <2>4 DEF PartsIndependent
<1>4. QED
  BY <1>2, <1>3

\* It holds of every behaviour.
LEMMA WalkInvHolds == WalkSpec => []WalkInv
BY WalkInitInv, WalkNextInv, PTL DEF WalkSpec

\* A validation is type correct: no part begins before the series, whatever the series,
\* the split and the number of folds (validation.py).
THEOREM WalkTypeCorrect == WalkSpec => []WalkTypeOK
<1>1. WalkInv => WalkTypeOK
  BY DEF WalkInv
<1>2. QED
  BY WalkInvHolds, <1>1, PTL

\* No bar counts for the trades of two parts of a validation, and none before the first
\* tested bar for a tested one, for every series, split, number of folds and history
\* (StrategyValidator.validate, chronological_stability).
THEOREM PartsStayIndependent == WalkSpec => []PartsIndependent
<1>1. QED
  BY WalkInitInv, WalkNextInv, WithinIndependent, PTL DEF WalkSpec
=============================================================================
