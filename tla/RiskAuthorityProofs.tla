------------------------ MODULE RiskAuthorityProofs ------------------------
(***************************************************************************)
(* Proofs about RiskAuthority for every set of accounts, intents and       *)
(* equities, every policy and every order book: the type invariant, the    *)
(* account and firm ceilings, and the refinement of ReservationLedger.     *)
(***************************************************************************)
EXTENDS RiskAuthority, FiniteSetTheorems, TLAPS

-----------------------------------------------------------------------------
(***************************************************************************)
(* Lemmas about Total.                                                     *)
(***************************************************************************)
\* A block of n pairs.
LEMMA BlockCardinality ==
    ASSUME NEW x, NEW n \in Nat
    PROVE  IsFiniteSet({x} \X (1..n)) /\ Cardinality({x} \X (1..n)) = n
<1>1. IsFiniteSet({x}) /\ Cardinality({x}) = 1
  BY FS_Singleton
<1>2. IsFiniteSet(1..n) /\ Cardinality(1..n) = n
  <2>1. 1 \in Int /\ n \in Int
    OBVIOUS
  <2>2. Cardinality(1..n) = IF 1 > n THEN 0 ELSE n - 1 + 1
    BY <2>1, FS_Interval
  <2>3. IsFiniteSet(1..n)
    BY <2>1, FS_Interval
  <2>4. QED
    BY <2>2, <2>3
<1>3. Cardinality({x} \X (1..n)) = 1 * n
  BY <1>1, <1>2, FS_Product
<1>4. IsFiniteSet({x} \X (1..n))
  BY <1>1, <1>2, FS_Product
<1>5. QED
  BY <1>3, <1>4

\* The total of natural amounts over a finite set is a natural number.
LEMMA TotalType ==
    ASSUME NEW D, NEW r \in [D -> Nat], NEW S \in SUBSET D, IsFiniteSet(S)
    PROVE  /\ IsFiniteSet(UNION { {x} \X (1..r[x]) : x \in S })
           /\ Total(r, S) \in Nat
<1> DEFINE blocks == { {x} \X (1..r[x]) : x \in S }
<1> DEFINE block == [x \in S |-> {x} \X (1..r[x])]
<1>1. IsFiniteSet(blocks)
  <2>1. block \in Surjection(S, blocks)
    BY DEF Surjection
  <2>2. QED
    BY <2>1, FS_Surjection
<1>2. ASSUME NEW b \in blocks PROVE IsFiniteSet(b)
  <2>1. PICK x \in S : b = {x} \X (1..r[x])
    OBVIOUS
  <2>2. r[x] \in Nat
    OBVIOUS
  <2>3. QED
    BY <2>1, <2>2, BlockCardinality
<1>3. IsFiniteSet(UNION blocks)
  BY <1>1, <1>2, FS_UNION
<1>4. Cardinality(UNION blocks) \in Nat
  BY <1>3, FS_CardinalityType
<1>5. QED
  BY <1>3, <1>4 DEF Total

\* More terms, a larger total.
LEMMA TotalMonotone ==
    ASSUME NEW D, NEW r \in [D -> Nat],
           NEW S \in SUBSET D, IsFiniteSet(S), NEW T \in SUBSET S
    PROVE  Total(r, T) <= Total(r, S)
<1> DEFINE big == UNION { {x} \X (1..r[x]) : x \in S }
           small == UNION { {x} \X (1..r[x]) : x \in T }
<1>1. IsFiniteSet(big)
  BY TotalType
<1>2. small \in SUBSET big
  OBVIOUS
<1>3. Cardinality(small) <= Cardinality(big)
  BY <1>1, <1>2, FS_Subset
<1>4. QED
  BY <1>3 DEF Total

\* A total depends only on the amounts it adds.
LEMMA TotalCongruent ==
    ASSUME NEW S, NEW r, NEW q, \A x \in S : r[x] = q[x]
    PROVE  Total(r, S) = Total(q, S)
<1>1. { {x} \X (1..r[x]) : x \in S } = { {x} \X (1..q[x]) : x \in S }
  OBVIOUS
<1>2. QED
  BY <1>1 DEF Total

\* One more term adds its amount.
LEMMA TotalAdd ==
    ASSUME NEW D, NEW r \in [D -> Nat],
           NEW S \in SUBSET D, IsFiniteSet(S), NEW x \in D, x \notin S
    PROVE  Total(r, S \cup {x}) = Total(r, S) + r[x]
<1> DEFINE old == UNION { {y} \X (1..r[y]) : y \in S }
           new == {x} \X (1..r[x])
<1>1. IsFiniteSet(old)
  BY TotalType
<1>2. r[x] \in Nat
  OBVIOUS
<1>3. IsFiniteSet(new) /\ Cardinality(new) = r[x]
  BY <1>2, BlockCardinality
<1>4. UNION { {y} \X (1..r[y]) : y \in S \cup {x} } = old \cup new
  OBVIOUS
<1>5. old \cap new = {}
  OBVIOUS
<1>6. Cardinality(old \cap new) = 0
  BY <1>5, FS_EmptySet
<1>7. Cardinality(old \cup new) = Cardinality(old) + Cardinality(new) - Cardinality(old \cap new)
  BY <1>1, <1>3, FS_Union
<1>8. Total(r, S) \in Nat /\ Total(r, S) = Cardinality(old)
  BY TotalType DEF Total
<1>9. Total(r, S \cup {x}) = Cardinality(old \cup new)
  BY <1>4 DEF Total
<1> HIDE DEF old, new
<1>10. QED
  BY <1>2, <1>3, <1>6, <1>7, <1>8, <1>9

-----------------------------------------------------------------------------
(***************************************************************************)
(* Lemmas about the sizing operators.                                      *)
(***************************************************************************)
\* The types of a trade intent's fields that the sizing reads.
LEMMA OrderFields ==
    ASSUME NEW i \in Intents
    PROVE  /\ Order[i].account \in Accounts
           /\ Order[i].symbol \in Symbols
           /\ Order[i].group \in Groups
           /\ Order[i].riskPerUnit \in Nat /\ Order[i].riskPerUnit > 0
           /\ Order[i].price \in Nat /\ Order[i].price > 0
           /\ Order[i].requested \in Nat
           /\ Order[i].budget \in Nat
           /\ Order[i].ttSpy \in BOOLEAN
BY OrderAssumption DEF TradeIntents, Percents

\* Every limit of the account and firm policies is a positive percentage.
LEMMA PolicyTypes ==
    /\ MaxPerTrade \in Nat /\ MaxOptionPerTrade \in Nat /\ MaxTotalOpen \in Nat
    /\ MaxNotional \in Nat
    /\ FirmTotalOpen \in Nat /\ FirmSymbolOpen \in Nat /\ FirmGroupOpen \in Nat
BY PolicyAssumption DEF Percents

\* The sums the limits are compared with are natural numbers.
LEMMA SumTypes ==
    ASSUME TypeOK
    PROVE  /\ IsFiniteSet(ActiveIntents)
           /\ FirmRisk \in Nat
           /\ \A a : AccountRisk(a) \in Nat
           /\ \A y : SymbolRisk(y) \in Nat
           /\ \A g : GroupRisk(g) \in Nat
           /\ \A a : Total(latest, FreshAccounts(a)) \in Nat
<1>1. risk \in [Intents -> Nat] /\ latest \in [Accounts -> Nat]
  BY DEF TypeOK
<1>2. ASSUME NEW S \in SUBSET Intents PROVE IsFiniteSet(S) /\ Total(risk, S) \in Nat
  <2>1. IsFiniteSet(S)
    BY FiniteSetsAssumption, FS_Subset
  <2>2. QED
    BY <1>1, <2>1, TotalType
<1>3. ASSUME NEW S \in SUBSET Accounts PROVE Total(latest, S) \in Nat
  <2>1. IsFiniteSet(S)
    BY FiniteSetsAssumption, FS_Subset
  <2>2. QED
    BY <1>1, <2>1, TotalType
<1>4. ActiveIntents \in SUBSET Intents
  BY DEF ActiveIntents
<1>5. /\ \A a : AccountIntents(a) \in SUBSET Intents
      /\ \A y : SymbolIntents(y) \in SUBSET Intents
      /\ \A g : GroupIntents(g) \in SUBSET Intents
  BY <1>4 DEF AccountIntents, SymbolIntents, GroupIntents
<1>6. \A a : FreshAccounts(a) \in SUBSET Accounts
  BY DEF FreshAccounts
<1>7. QED
  BY <1>2, <1>3, <1>4, <1>5, <1>6 DEF FirmRisk, AccountRisk, SymbolRisk, GroupRisk

\* The smaller of two numbers is at most either, and one of them.
LEMMA AtMostBounds ==
    ASSUME NEW x \in Int, NEW y \in Int
    PROVE  /\ AtMost(x, y) \in Int /\ AtMost(x, y) <= x /\ AtMost(x, y) <= y
           /\ (x \in Nat /\ y \in Nat => AtMost(x, y) \in Nat)
BY DEF AtMost

\* A whole quantity bought within a budget costs no more than the budget.
LEMMA AffordableBound ==
    ASSUME NEW budget \in Nat, NEW unit \in Nat, unit > 0
    PROVE  /\ Affordable(budget, unit) \in Nat
           /\ \A q \in Nat : q <= Affordable(budget, unit) => 100 * (q * unit) <= budget
<1> DEFINE d == 100 * unit
           m == budget \div d
<1>1. d \in Nat /\ d > 0
  OBVIOUS
<1>2. m \in Nat /\ m * d <= budget
  BY <1>1, SMTT(20)
<1>3. ASSUME NEW q \in Nat, q <= m PROVE 100 * (q * unit) <= budget
  <2>1. 100 * (q * unit) = q * d
    BY SMTT(20)
  <2> HIDE DEF d, m
  <2>2. q * d <= m * d
    BY <1>1, <1>2, <1>3, SMTT(20)
  <2>3. q * d \in Nat /\ m * d \in Nat
    BY <1>1, <1>2
  <2>4. QED
    BY <1>2, <2>1, <2>2, <2>3
<1>4. QED
  BY <1>2, <1>3 DEF Affordable

\* What fits in what is left of a ceiling keeps the sum within the ceiling.
LEMMA RoomLeft ==
    ASSUME NEW top \in Nat, NEW used \in Nat, NEW added \in Nat,
           added > 0, 100 * added <= Positive(top - 100 * used)
    PROVE  100 * (used + added) <= top
BY DEF Positive

\* What evaluate_and_reserve approves, added to the risk already active, stays
\* within the account limit and, when the firm layer is on, within its limits.
LEMMA SizingWithinLimits ==
    ASSUME TypeOK, NEW i \in Intents, NEW s \in Snapshots, ApprovedQuantity(i, s) > 0
    PROVE  LET o == Order[i]
               added == ApprovedQuantity(i, s) * o.riskPerUnit
               equity == FirmEquity(o.account, s)
           IN  /\ added \in Nat
               /\ 100 * (AccountRisk(o.account) + added) <= s.equity * MaxTotalOpen
               /\ FirmEnabled =>
                    /\ 100 * (FirmRisk + added) <= equity * FirmTotalOpen
                    /\ 100 * (SymbolRisk(o.symbol) + added) <= equity * FirmSymbolOpen
                    /\ 100 * (GroupRisk(o.group) + added) <= equity * FirmGroupOpen
<1> DEFINE o == Order[i]
           unit == o.riskPerUnit
           equity == FirmEquity(o.account, s)
           q == ApprovedQuantity(i, s)
           added == q * unit
           bought == AccountQuantity(i, s)
           R == AccountRisk(o.account)
           T == FirmRisk
           Y == SymbolRisk(o.symbol)
           G == GroupRisk(o.group)
           roomT == Positive(equity * FirmTotalOpen - 100 * T)
           roomY == Positive(equity * FirmSymbolOpen - 100 * Y)
           roomG == Positive(equity * FirmGroupOpen - 100 * G)
           roomA == Positive(PortfolioCeiling(i, s) - 100 * R)
<1>1. /\ o.account \in Accounts /\ unit \in Nat /\ unit > 0
      /\ o.price \in Nat /\ o.price > 0 /\ o.requested \in Nat
      /\ o.budget \in Nat
  BY OrderFields
<1>2. s.equity \in Nat
  BY TimeAssumption DEF Snapshots
<1>3. R \in Nat /\ T \in Nat /\ Y \in Nat /\ G \in Nat
  BY SumTypes
<1>4. equity \in Nat
  <2>1. Total(latest, FreshAccounts(o.account)) \in Nat
    BY SumTypes
  <2>2. QED
    BY <1>2, <2>1 DEF FirmEquity
<1>5. TradeCeiling(i, s) \in Nat
  <2>1. AtMost(o.budget, 1) \in Nat
    BY <1>1 DEF AtMost
  <2> DEFINE asset == IF o.class = "option" THEN MaxOptionPerTrade ELSE MaxPerTrade
             requested == IF o.ttSpy THEN AtMost(o.budget, 1) ELSE o.budget
  <2>2. asset \in Nat /\ requested \in Nat
    BY <1>1, <2>1, PolicyTypes
  <2> HIDE DEF asset, requested
  <2>3. AtMost(asset, requested) \in Nat
    BY <2>2, AtMostBounds
  <2>4. s.equity * AtMost(asset, requested) \in Nat
    BY <1>2, <2>3
  <2>5. QED
    BY <2>4 DEF TradeCeiling, asset, requested
<1>6. PortfolioCeiling(i, s) \in Nat /\ PortfolioCeiling(i, s) <= s.equity * MaxTotalOpen
  <2> DEFINE share == IF o.ttSpy THEN AtMost(MaxTotalOpen, 10) ELSE MaxTotalOpen
  <2>1. share \in Nat /\ share <= MaxTotalOpen
    <3>1. AtMost(MaxTotalOpen, 10) \in Nat /\ AtMost(MaxTotalOpen, 10) <= MaxTotalOpen
      BY PolicyTypes, AtMostBounds
    <3>2. QED
      BY <3>1, PolicyTypes
  <2> HIDE DEF share
  <2>2. s.equity * share \in Nat /\ s.equity * share <= s.equity * MaxTotalOpen
    BY <1>2, <2>1, PolicyTypes, SMTT(20)
  <2>3. QED
    BY <2>2 DEF PortfolioCeiling, share
<1>7. roomA \in Nat /\ roomT \in Nat /\ roomY \in Nat /\ roomG \in Nat
  <2>1. ASSUME NEW x \in Int PROVE Positive(x) \in Nat
    BY DEF Positive
  <2>2. /\ equity * FirmTotalOpen \in Nat /\ equity * FirmSymbolOpen \in Nat
        /\ equity * FirmGroupOpen \in Nat
    BY <1>4, PolicyTypes
  <2> HIDE DEF R, T, Y, G, equity
  <2>3. QED
    BY <1>3, <1>6, <2>1, <2>2
<1> HIDE DEF o, unit, equity, R, T, Y, G
<1>8. RiskBudget(i, s) \in Nat /\ RiskBudget(i, s) <= roomA
  <2> HIDE DEF roomA
  <2>1. RiskBudget(i, s) = AtMost(TradeCeiling(i, s), roomA)
    BY DEF RiskBudget, roomA, R, o
  <2>2. QED
    BY <1>5, <1>7, <2>1, AtMostBounds
<1>9. /\ bought \in Int
      /\ bought <= Affordable(RiskBudget(i, s), unit)
  <2>1. Affordable(RiskBudget(i, s), unit) \in Nat
    BY <1>1, <1>8, AffordableBound
  <2>2. NotionalQuantity(i, s) \in Nat
    <3>1. s.equity * MaxNotional \in Nat
      BY <1>2, PolicyTypes
    <3>2. Affordable(s.equity * MaxNotional, o.price) \in Nat
      BY <1>1, <3>1, AffordableBound
    <3>3. QED
      BY <1>1, <3>2 DEF NotionalQuantity, o
  <2> DEFINE inner == AtMost(Affordable(RiskBudget(i, s), unit), NotionalQuantity(i, s))
  <2>3. inner \in Int /\ inner <= Affordable(RiskBudget(i, s), unit)
    BY <2>1, <2>2, AtMostBounds
  <2>4. bought = AtMost(o.requested, inner)
    BY DEF AccountQuantity, o, unit
  <2> HIDE DEF inner, bought
  <2>5. bought \in Int /\ bought <= inner
    BY <1>1, <2>3, <2>4 DEF AtMost
  <2>6. QED
    BY <2>1, <2>3, <2>5
<1>10. FirmEnabled => FirmBudget(i, s) \in Nat
  <2>1. FirmBudget(i, s) = AtMost(roomT, AtMost(roomY, roomG))
    BY DEF FirmBudget, equity, T, Y, G, o
  <2> HIDE DEF roomT, roomY, roomG
  <2>2. QED
    BY <1>7, <2>1, AtMostBounds
<1>11. /\ q \in Nat /\ q > 0 /\ q <= bought
       /\ FirmEnabled => q <= Affordable(FirmBudget(i, s), unit)
  <2>1. CASE FirmEnabled
    <3>1. q = AtMost(bought, Affordable(FirmBudget(i, s), unit))
      BY <2>1 DEF ApprovedQuantity, unit, o
    <3>2. Affordable(FirmBudget(i, s), unit) \in Nat
      BY <1>1, <1>10, <2>1, AffordableBound
    <3>3. q > 0
      OBVIOUS
    <3> HIDE DEF q, bought
    <3>4. QED
      BY <1>9, <3>1, <3>2, <3>3, AtMostBounds
  <2>2. CASE ~ FirmEnabled
    <3>1. q = bought
      BY <2>2 DEF ApprovedQuantity
    <3>2. q > 0
      OBVIOUS
    <3> HIDE DEF q, bought
    <3>3. QED
      BY <1>9, <2>2, <3>1, <3>2
  <2>3. QED
    BY <2>1, <2>2
<1>12. added \in Nat /\ added > 0
  <2> HIDE DEF q
  <2>1. QED
    BY <1>1, <1>11, SMTT(20)
<1>13. 100 * (R + added) <= s.equity * MaxTotalOpen
  <2>1. 100 * added <= RiskBudget(i, s)
    <3> HIDE DEF q, bought
    <3>1. Affordable(RiskBudget(i, s), unit) \in Nat
      BY <1>1, <1>8, AffordableBound
    <3>2. q <= Affordable(RiskBudget(i, s), unit)
      BY <1>9, <1>11, <3>1
    <3>3. QED
      BY <1>1, <1>8, <1>11, <3>2, AffordableBound
  <2> HIDE DEF added
  <2>2. 100 * added <= roomA
    <3> HIDE DEF roomA
    <3>1. QED
      BY <1>7, <1>8, <1>12, <2>1
  <2>3. 100 * (R + added) <= PortfolioCeiling(i, s)
    BY <1>3, <1>6, <1>12, <2>2, RoomLeft
  <2>4. s.equity * MaxTotalOpen \in Nat
    BY <1>2, PolicyTypes
  <2>5. QED
    BY <1>3, <1>6, <1>12, <2>3, <2>4
<1>14. ASSUME FirmEnabled
       PROVE  /\ 100 * (T + added) <= equity * FirmTotalOpen
              /\ 100 * (Y + added) <= equity * FirmSymbolOpen
              /\ 100 * (G + added) <= equity * FirmGroupOpen
  <2>1. 100 * added <= FirmBudget(i, s)
    <3> HIDE DEF q
    <3>1. QED
      BY <1>1, <1>10, <1>11, <1>14, AffordableBound
  <2>2. FirmBudget(i, s) = AtMost(roomT, AtMost(roomY, roomG))
    BY DEF FirmBudget, equity, T, Y, G, o
  <2> HIDE DEF added
  <2>3. 100 * added <= roomT /\ 100 * added <= roomY /\ 100 * added <= roomG
    <3> HIDE DEF roomT, roomY, roomG
    <3>1. /\ AtMost(roomY, roomG) \in Int
          /\ AtMost(roomY, roomG) <= roomY /\ AtMost(roomY, roomG) <= roomG
      BY <1>7 DEF AtMost
    <3>2. FirmBudget(i, s) <= roomT /\ FirmBudget(i, s) <= AtMost(roomY, roomG)
      BY <1>7, <2>2, <3>1 DEF AtMost
    <3>3. FirmBudget(i, s) \in Int
      BY <1>10, <1>14
    <3>4. QED
      BY <1>7, <1>12, <2>1, <3>1, <3>2, <3>3
  <2>4. /\ equity * FirmTotalOpen \in Nat /\ equity * FirmSymbolOpen \in Nat
        /\ equity * FirmGroupOpen \in Nat
    BY <1>4, PolicyTypes
  <2> DEFINE topT == equity * FirmTotalOpen
             topY == equity * FirmSymbolOpen
             topG == equity * FirmGroupOpen
  <2>5. /\ 100 * added <= Positive(topT - 100 * T)
        /\ 100 * added <= Positive(topY - 100 * Y)
        /\ 100 * added <= Positive(topG - 100 * G)
    BY <2>3
  <2> HIDE DEF topT, topY, topG
  <2>6. 100 * (T + added) <= topT
    BY <1>3, <1>12, <2>4, <2>5, RoomLeft DEF topT
  <2>7. 100 * (Y + added) <= topY
    BY <1>3, <1>12, <2>4, <2>5, RoomLeft DEF topY
  <2>8. 100 * (G + added) <= topG
    BY <1>3, <1>12, <2>4, <2>5, RoomLeft DEF topG
  <2>9. QED
    BY <2>6, <2>7, <2>8 DEF topT, topY, topG
<1>15. QED
  BY <1>12, <1>13, <1>14 DEF o, unit, equity, R, T, Y, G

-----------------------------------------------------------------------------
(***************************************************************************)
(* The invariant and its preservation.                                     *)
(***************************************************************************)
Ceilings == AccountWithinCeiling /\ FirmWithinCeilings

\* A step that creates no reservation and changes no amount and no ceiling only
\* takes terms away from the sums.
LEMMA ShrinkKeepsCeilings ==
    ASSUME TypeOK, Ceilings, ActiveIntents' \subseteq ActiveIntents,
           risk' = risk, ceiling' = ceiling
    PROVE  Ceilings'
<1>1. risk \in [Intents -> Nat]
  BY DEF TypeOK
<1>2. ASSUME NEW S \in SUBSET Intents, NEW U \in SUBSET S, NEW top \in Nat,
             100 * Total(risk, S) <= top
      PROVE  100 * Total(risk, U) <= top
  <2>1. IsFiniteSet(S) /\ IsFiniteSet(U)
    BY FiniteSetsAssumption, FS_Subset
  <2>2. Total(risk, S) \in Nat /\ Total(risk, U) \in Nat
    BY <1>1, <2>1, TotalType
  <2>3. Total(risk, U) <= Total(risk, S)
    BY <1>1, <2>1, TotalMonotone
  <2>4. QED
    BY <1>2, <2>2, <2>3
<1>3. /\ ceiling.firm \in Nat
      /\ \A a \in Accounts : ceiling.account[a] \in Nat
      /\ \A y \in Symbols : ceiling.symbol[y] \in Nat
      /\ \A g \in Groups : ceiling.group[g] \in Nat
  BY DEF TypeOK
<1>4. ActiveIntents \in SUBSET Intents /\ ActiveIntents' \in SUBSET ActiveIntents
  BY DEF ActiveIntents
<1>5. AccountWithinCeiling'
  <2>1. ASSUME NEW a \in Accounts
        PROVE  100 * Total(risk, AccountIntents(a)') <= ceiling.account[a]
    <3>1. /\ AccountIntents(a) \in SUBSET Intents
          /\ AccountIntents(a)' \in SUBSET AccountIntents(a)
      BY <1>4 DEF AccountIntents
    <3>2. 100 * Total(risk, AccountIntents(a)) <= ceiling.account[a]
      BY DEF Ceilings, AccountWithinCeiling, AccountRisk
    <3>3. QED
      BY <1>2, <1>3, <3>1, <3>2
  <2>2. QED
    BY <2>1 DEF AccountWithinCeiling, AccountRisk
<1>6. FirmWithinCeilings'
  <2> SUFFICES ASSUME FirmEnabled
               PROVE  /\ 100 * FirmRisk' <= ceiling.firm
                      /\ \A y \in Symbols : 100 * SymbolRisk(y)' <= ceiling.symbol[y]
                      /\ \A g \in Groups : 100 * GroupRisk(g)' <= ceiling.group[g]
    BY DEF FirmWithinCeilings
  <2>1. 100 * FirmRisk' <= ceiling.firm
    <3>1. 100 * Total(risk, ActiveIntents) <= ceiling.firm
      BY DEF Ceilings, FirmWithinCeilings, FirmRisk
    <3>2. 100 * Total(risk, ActiveIntents') <= ceiling.firm
      BY <1>2, <1>3, <1>4, <3>1
    <3>3. QED
      BY <3>2 DEF FirmRisk
  <2>2. ASSUME NEW y \in Symbols PROVE 100 * SymbolRisk(y)' <= ceiling.symbol[y]
    <3>1. /\ SymbolIntents(y) \in SUBSET Intents
          /\ SymbolIntents(y)' \in SUBSET SymbolIntents(y)
      BY <1>4 DEF SymbolIntents
    <3>2. 100 * Total(risk, SymbolIntents(y)) <= ceiling.symbol[y]
      BY DEF Ceilings, FirmWithinCeilings, SymbolRisk
    <3>3. 100 * Total(risk, SymbolIntents(y)') <= ceiling.symbol[y]
      BY <1>2, <1>3, <3>1, <3>2
    <3>4. QED
      BY <3>3 DEF SymbolRisk
  <2>3. ASSUME NEW g \in Groups PROVE 100 * GroupRisk(g)' <= ceiling.group[g]
    <3>1. /\ GroupIntents(g) \in SUBSET Intents
          /\ GroupIntents(g)' \in SUBSET GroupIntents(g)
      BY <1>4 DEF GroupIntents
    <3>2. 100 * Total(risk, GroupIntents(g)) <= ceiling.group[g]
      BY DEF Ceilings, FirmWithinCeilings, GroupRisk
    <3>3. 100 * Total(risk, GroupIntents(g)') <= ceiling.group[g]
      BY <1>2, <1>3, <3>1, <3>2
    <3>4. QED
      BY <3>3 DEF GroupRisk
  <2>4. QED
    BY <2>1, <2>2, <2>3
<1>7. QED
  BY <1>5, <1>6 DEF Ceilings

\* The step that creates a reservation adds one term, sized to fit.
LEMMA ReserveKeepsCeilings ==
    ASSUME TypeOK, Ceilings, NEW i \in Intents, NEW s \in Snapshots,
           EvaluateAndReserve(i, s)
    PROVE  TypeOK' /\ Ceilings'
<1> DEFINE o == Order[i]
           added == ApprovedQuantity(i, s) * o.riskPerUnit
           equity == FirmEquity(o.account, s)
<1>1. /\ o.account \in Accounts /\ o.symbol \in Symbols /\ o.group \in Groups
  BY OrderFields
<1>2. /\ added \in Nat
      /\ 100 * (AccountRisk(o.account) + added) <= s.equity * MaxTotalOpen
      /\ FirmEnabled =>
           /\ 100 * (FirmRisk + added) <= equity * FirmTotalOpen
           /\ 100 * (SymbolRisk(o.symbol) + added) <= equity * FirmSymbolOpen
           /\ 100 * (GroupRisk(o.group) + added) <= equity * FirmGroupOpen
  BY SizingWithinLimits DEF EvaluateAndReserve
<1>3. /\ reservation[i] = "none"
      /\ reservation' = [reservation EXCEPT ![i] = "reserved"]
      /\ risk' = [risk EXCEPT ![i] = added]
      /\ latest' = latest /\ observedAt' = observedAt /\ now' = now
  BY DEF EvaluateAndReserve, equityRows
<1>4. ceiling' = [ceiling EXCEPT
                    !.account[o.account] = s.equity * MaxTotalOpen,
                    !.firm = equity * FirmTotalOpen,
                    !.symbol[o.symbol] = equity * FirmSymbolOpen,
                    !.group[o.group] = equity * FirmGroupOpen]
  BY DEF EvaluateAndReserve
<1>5. /\ s.equity * MaxTotalOpen \in Nat
      /\ equity * FirmTotalOpen \in Nat /\ equity * FirmSymbolOpen \in Nat
      /\ equity * FirmGroupOpen \in Nat
  <2>1. s.equity \in Nat
    BY TimeAssumption DEF Snapshots
  <2>2. equity \in Nat
    <3>1. Total(latest, FreshAccounts(o.account)) \in Nat
      BY SumTypes
    <3>2. QED
      BY <2>1, <3>1 DEF FirmEquity
  <2> HIDE DEF equity
  <2>3. QED
    BY <2>1, <2>2, PolicyTypes
<1> HIDE DEF o, added, equity
<1>6. TypeOK'
  <2>1. reservation' \in [Intents -> Ledger!ReservationStates]
    BY <1>3 DEF TypeOK, Ledger!ReservationStates, Ledger!ActiveStates
  <2>2. risk' \in [Intents -> Nat]
    BY <1>2, <1>3 DEF TypeOK
  <2>3. ceiling' \in [ account : [Accounts -> Nat], firm : Nat,
                       symbol : [Symbols -> Nat], group : [Groups -> Nat] ]
    BY <1>1, <1>4, <1>5 DEF TypeOK
  <2>4. QED
    BY <1>3, <2>1, <2>2, <2>3 DEF TypeOK
<1>7. /\ i \notin ActiveIntents
      /\ ActiveIntents' = ActiveIntents \cup {i}
  BY <1>3 DEF TypeOK, ActiveIntents, ActiveStates, Ledger!ActiveStates
<1>8. ASSUME NEW S \in SUBSET ActiveIntents
      PROVE  /\ Total(risk', S) = Total(risk, S)
             /\ Total(risk', S \cup {i}) = Total(risk, S) + added
  <2>1. IsFiniteSet(S) /\ S \in SUBSET Intents
    BY FiniteSetsAssumption, FS_Subset DEF ActiveIntents
  <2>2. i \notin S /\ \A x \in S : risk'[x] = risk[x]
    BY <1>3, <1>7, <2>1 DEF TypeOK
  <2>3. Total(risk', S) = Total(risk, S)
    BY <2>2, TotalCongruent
  <2>4. risk' \in [Intents -> Nat] /\ risk'[i] = added
    BY <1>3, <1>6 DEF TypeOK
  <2>5. Total(risk', S \cup {i}) = Total(risk', S) + risk'[i]
    BY <2>1, <2>2, <2>4, TotalAdd
  <2>6. QED
    BY <2>3, <2>4, <2>5
<1>9. AccountWithinCeiling'
  <2> SUFFICES ASSUME NEW a \in Accounts
               PROVE  100 * AccountRisk(a)' <= ceiling'.account[a]
    BY DEF AccountWithinCeiling
  <2>1. AccountIntents(a) \in SUBSET ActiveIntents
    BY DEF AccountIntents
  <2>2. CASE a = o.account
    <3>1. AccountIntents(a)' = AccountIntents(a) \cup {i}
      BY <1>7, <2>2 DEF AccountIntents, o
    <3>2. AccountRisk(a)' = AccountRisk(a) + added
      BY <1>8, <2>1, <3>1 DEF AccountRisk
    <3>3. ceiling'.account[a] = s.equity * MaxTotalOpen
      BY <1>1, <1>4, <2>2 DEF TypeOK
    <3>4. QED
      BY <1>2, <2>2, <3>2, <3>3
  <2>3. CASE a # o.account
    <3>1. AccountIntents(a)' = AccountIntents(a)
      BY <1>7, <2>3 DEF AccountIntents, o
    <3>2. AccountRisk(a)' = AccountRisk(a)
      BY <1>8, <2>1, <3>1 DEF AccountRisk
    <3>3. ceiling'.account[a] = ceiling.account[a]
      BY <1>1, <1>4, <2>3 DEF TypeOK
    <3>4. QED
      BY <3>2, <3>3 DEF Ceilings, AccountWithinCeiling
  <2>4. QED
    BY <2>2, <2>3
<1>10. FirmWithinCeilings'
  <2> SUFFICES ASSUME FirmEnabled
               PROVE  /\ 100 * FirmRisk' <= ceiling'.firm
                      /\ \A y \in Symbols : 100 * SymbolRisk(y)' <= ceiling'.symbol[y]
                      /\ \A g \in Groups : 100 * GroupRisk(g)' <= ceiling'.group[g]
    BY DEF FirmWithinCeilings
  <2>1. 100 * FirmRisk' <= ceiling'.firm
    <3>1. FirmRisk' = FirmRisk + added
      BY <1>7, <1>8 DEF FirmRisk
    <3>2. ceiling'.firm = equity * FirmTotalOpen
      BY <1>4 DEF TypeOK
    <3>3. QED
      BY <1>2, <3>1, <3>2
  <2>2. ASSUME NEW y \in Symbols PROVE 100 * SymbolRisk(y)' <= ceiling'.symbol[y]
    <3>1. SymbolIntents(y) \in SUBSET ActiveIntents
      BY DEF SymbolIntents
    <3>2. CASE y = o.symbol
      <4>1. SymbolIntents(y)' = SymbolIntents(y) \cup {i}
        BY <1>7, <3>2 DEF SymbolIntents, o
      <4>2. SymbolRisk(y)' = SymbolRisk(y) + added
        BY <1>8, <3>1, <4>1 DEF SymbolRisk
      <4>3. ceiling'.symbol[y] = equity * FirmSymbolOpen
        BY <1>1, <1>4, <3>2 DEF TypeOK
      <4>4. QED
        BY <1>2, <3>2, <4>2, <4>3
    <3>3. CASE y # o.symbol
      <4>1. SymbolIntents(y)' = SymbolIntents(y)
        BY <1>7, <3>3 DEF SymbolIntents, o
      <4>2. SymbolRisk(y)' = SymbolRisk(y)
        BY <1>8, <3>1, <4>1 DEF SymbolRisk
      <4>3. ceiling'.symbol[y] = ceiling.symbol[y]
        BY <1>1, <1>4, <3>3 DEF TypeOK
      <4>4. QED
        BY <4>2, <4>3 DEF Ceilings, FirmWithinCeilings
    <3>4. QED
      BY <3>2, <3>3
  <2>3. ASSUME NEW g \in Groups PROVE 100 * GroupRisk(g)' <= ceiling'.group[g]
    <3>1. GroupIntents(g) \in SUBSET ActiveIntents
      BY DEF GroupIntents
    <3>2. CASE g = o.group
      <4>1. GroupIntents(g)' = GroupIntents(g) \cup {i}
        BY <1>7, <3>2 DEF GroupIntents, o
      <4>2. GroupRisk(g)' = GroupRisk(g) + added
        BY <1>8, <3>1, <4>1 DEF GroupRisk
      <4>3. ceiling'.group[g] = equity * FirmGroupOpen
        BY <1>1, <1>4, <3>2 DEF TypeOK
      <4>4. QED
        BY <1>2, <3>2, <4>2, <4>3
    <3>3. CASE g # o.group
      <4>1. GroupIntents(g)' = GroupIntents(g)
        BY <1>7, <3>3 DEF GroupIntents, o
      <4>2. GroupRisk(g)' = GroupRisk(g)
        BY <1>8, <3>1, <4>1 DEF GroupRisk
      <4>3. ceiling'.group[g] = ceiling.group[g]
        BY <1>1, <1>4, <3>3 DEF TypeOK
      <4>4. QED
        BY <4>2, <4>3 DEF Ceilings, FirmWithinCeilings
    <3>4. QED
      BY <3>2, <3>3
  <2>4. QED
    BY <2>1, <2>2, <2>3
<1>11. QED
  BY <1>6, <1>9, <1>10 DEF Ceilings

\* The step that creates a reservation adds its amount to the firm's active risk.
LEMMA RiskAdded ==
    ASSUME TypeOK, NEW i \in Intents, NEW s \in Snapshots, EvaluateAndReserve(i, s)
    PROVE  FirmRisk' = FirmRisk + ApprovedQuantity(i, s) * Order[i].riskPerUnit
<1> DEFINE added == ApprovedQuantity(i, s) * Order[i].riskPerUnit
<1>1. added \in Nat
  BY SizingWithinLimits DEF EvaluateAndReserve
<1>2. /\ reservation[i] = "none"
      /\ reservation' = [reservation EXCEPT ![i] = "reserved"]
      /\ risk' = [risk EXCEPT ![i] = added]
  BY DEF EvaluateAndReserve
<1> HIDE DEF added
<1>3. /\ i \notin ActiveIntents
      /\ ActiveIntents' = ActiveIntents \cup {i}
  BY <1>2 DEF TypeOK, ActiveIntents, ActiveStates, Ledger!ActiveStates
<1>4. IsFiniteSet(ActiveIntents) /\ ActiveIntents \in SUBSET Intents
  BY FiniteSetsAssumption, FS_Subset DEF ActiveIntents
<1>5. risk' \in [Intents -> Nat] /\ risk'[i] = added
  BY <1>1, <1>2 DEF TypeOK
<1>6. Total(risk', ActiveIntents \cup {i}) = Total(risk', ActiveIntents) + risk'[i]
  BY <1>3, <1>4, <1>5, TotalAdd
<1>7. \A x \in ActiveIntents : risk'[x] = risk[x]
  BY <1>2, <1>3, <1>4 DEF TypeOK
<1>8. Total(risk', ActiveIntents) = Total(risk, ActiveIntents)
  BY <1>7, TotalCongruent
<1>9. QED
  BY <1>3, <1>5, <1>6, <1>8 DEF FirmRisk, added

\* Every other step leaves the amounts and the ceilings alone and reserves nothing.
LEMMA OtherSteps ==
    ASSUME TypeOK, Next,
           ~ \E i \in Intents, s \in Snapshots : EvaluateAndReserve(i, s)
    PROVE  /\ TypeOK'
           /\ risk' = risk /\ ceiling' = ceiling
           /\ ActiveIntents' \subseteq ActiveIntents
<1> USE DEF TypeOK, ActiveIntents, ActiveStates, Ledger!ActiveStates, Ledger!ReservationStates
<1>1. CASE Tick
  BY <1>1 DEF Tick, table, equityRows
<1>2. CASE \E a \in Accounts, equity \in Equities, at \in 0..now :
              ApplyAccountEquityState(a, equity, at)
  <2>1. PICK a \in Accounts, equity \in Equities, at \in 0..now :
              ApplyAccountEquityState(a, equity, at)
    BY <1>2
  <2>2. equity \in Nat /\ at \in Int
    BY TimeAssumption
  <2>3. QED
    BY <2>1, <2>2 DEF ApplyAccountEquityState, table
<1>3. CASE \E i \in Intents : MarkSubmitted(i)
  BY <1>3 DEF MarkSubmitted, equityRows
<1>4. CASE \E i \in Intents : Release(i)
  BY <1>4 DEF Release, equityRows
<1>5. ASSUME NEW a \in Accounts,
             NEW evidence \in [{i \in Intents : Order[i].account = a} -> Evidence],
             RecordOrderReconciliation(a, evidence)
      PROVE  /\ TypeOK'
             /\ risk' = risk /\ ceiling' = ceiling
             /\ ActiveIntents' \subseteq ActiveIntents
  <2>1. ASSUME NEW previous \in Ledger!ReservationStates, NEW e
        PROVE  /\ Reconciled(previous, e) \in Ledger!ReservationStates
               /\ previous \notin Ledger!ActiveStates => Reconciled(previous, e) = previous
    BY DEF Reconciled, Evidence
  <2>2. \A i \in Intents :
           /\ reservation'[i] \in Ledger!ReservationStates
           /\ reservation[i] \notin Ledger!ActiveStates => reservation'[i] = reservation[i]
    BY <1>5, <2>1 DEF RecordOrderReconciliation
  <2>3. reservation' \in [Intents -> Ledger!ReservationStates]
    BY <1>5, <2>2 DEF RecordOrderReconciliation
  <2>4. QED
    BY <1>5, <2>2, <2>3 DEF RecordOrderReconciliation, equityRows
<1>6. QED
  BY <1>1, <1>2, <1>3, <1>4, <1>5 DEF Next

\* An empty reservations table is within every ceiling.
LEMMA InitInvariant == Init => TypeOK /\ Ceilings
<1> SUFFICES ASSUME Init PROVE TypeOK /\ Ceilings
  OBVIOUS
<1>1. TypeOK
  BY DEF Init, TypeOK, Ledger!ReservationStates, Ledger!ActiveStates
<1>2. ActiveIntents = {}
  BY DEF Init, ActiveIntents, ActiveStates, Ledger!ActiveStates
<1>3. Total(risk, {}) = 0
  <2>1. UNION { {x} \X (1..risk[x]) : x \in {} } = {}
    OBVIOUS
  <2>2. QED
    BY <2>1, FS_EmptySet DEF Total
<1>4. /\ \A a : AccountIntents(a) = {}
      /\ \A y : SymbolIntents(y) = {}
      /\ \A g : GroupIntents(g) = {}
  BY <1>2 DEF AccountIntents, SymbolIntents, GroupIntents
<1>5. /\ FirmRisk = 0
      /\ \A a : AccountRisk(a) = 0
      /\ \A y : SymbolRisk(y) = 0
      /\ \A g : GroupRisk(g) = 0
  BY <1>2, <1>3, <1>4 DEF AccountRisk, FirmRisk, SymbolRisk, GroupRisk
<1>6. /\ ceiling.firm = 0
      /\ \A a \in Accounts : ceiling.account[a] = 0
      /\ \A y \in Symbols : ceiling.symbol[y] = 0
      /\ \A g \in Groups : ceiling.group[g] = 0
  BY DEF Init
<1>7. QED
  BY <1>1, <1>5, <1>6 DEF Ceilings, AccountWithinCeiling, FirmWithinCeilings

\* The inductive step: every transaction keeps the types and the ceilings.
LEMMA NextInvariant == TypeOK /\ Ceilings /\ [Next]_vars => TypeOK' /\ Ceilings'
<1> SUFFICES ASSUME TypeOK, Ceilings, [Next]_vars PROVE TypeOK' /\ Ceilings'
  OBVIOUS
<1>1. CASE \E i \in Intents, s \in Snapshots : EvaluateAndReserve(i, s)
  BY <1>1, ReserveKeepsCeilings
<1>2. CASE Next /\ ~ \E i \in Intents, s \in Snapshots : EvaluateAndReserve(i, s)
  BY <1>2, OtherSteps, ShrinkKeepsCeilings
<1>3. CASE UNCHANGED vars
  <2>1. TypeOK'
    BY <1>3 DEF vars, TypeOK
  <2>2. ActiveIntents' \subseteq ActiveIntents /\ risk' = risk /\ ceiling' = ceiling
    BY <1>3 DEF vars, ActiveIntents
  <2>3. QED
    BY <2>1, <2>2, ShrinkKeepsCeilings
<1>4. QED
  BY <1>1, <1>2, <1>3

\* Every reachable state is well typed: in particular no reserved amount is
\* negative, whatever the sizing computes (audit.py evaluate_and_reserve).
THEOREM TypeCorrect == Spec => []TypeOK
<1>1. QED
  BY InitInvariant, NextInvariant, PTL DEF Spec

\* No account's active risk ever exceeds the limit its latest approval was
\* sized with (risk.py RiskEngine.evaluate under BEGIN IMMEDIATE).
THEOREM AccountCeilingHolds == Spec => []AccountWithinCeiling
<1>1. Ceilings => AccountWithinCeiling
  BY DEF Ceilings
<1>2. QED
  BY <1>1, InitInvariant, NextInvariant, PTL DEF Spec

\* Several accounts, each within its own limit, never add up to more than the
\* firm limits (the firm layer of audit.py evaluate_and_reserve).
THEOREM FirmCeilingsHold == Spec => []FirmWithinCeilings
<1>1. Ceilings => FirmWithinCeilings
  BY DEF Ceilings
<1>2. QED
  BY <1>1, InitInvariant, NextInvariant, PTL DEF Spec

-----------------------------------------------------------------------------
(***************************************************************************)
(* Refinement of ReservationLedger.                                        *)
(***************************************************************************)
\* Every transaction moves reservations along the ledger, or not at all.
LEMMA StepImplementsLedger ==
    ASSUME TypeOK, [Next]_vars
    PROVE  [Ledger!Next]_reservation
<1> USE DEF TypeOK, ActiveStates, Ledger!ActiveStates, Ledger!ReservationStates
<1>1. ASSUME NEW i \in Intents, NEW new \in Ledger!ReservationStates,
             reservation' = [reservation EXCEPT ![i] = new],
             <<reservation[i], new>> \in Ledger!Moves
      PROVE  Ledger!Next
  BY <1>1 DEF Ledger!Next
<1>2. CASE \E i \in Intents, s \in Snapshots : EvaluateAndReserve(i, s)
  <2>1. PICK i \in Intents, s \in Snapshots : EvaluateAndReserve(i, s)
    BY <1>2
  <2>2. reservation[i] = "none" /\ reservation' = [reservation EXCEPT ![i] = "reserved"]
    BY <2>1 DEF EvaluateAndReserve
  <2>3. QED
    BY <1>1, <2>2 DEF Ledger!Moves
<1>3. CASE \E i \in Intents : MarkSubmitted(i)
  BY <1>1, <1>3 DEF MarkSubmitted, Ledger!Moves
<1>4. CASE \E i \in Intents : Release(i)
  BY <1>1, <1>4 DEF Release, Ledger!Moves
<1>5. ASSUME NEW a \in Accounts,
             NEW evidence \in [{i \in Intents : Order[i].account = a} -> Evidence],
             RecordOrderReconciliation(a, evidence)
      PROVE  Ledger!Next
  <2>1. ASSUME NEW previous \in Ledger!ReservationStates, NEW e
        PROVE  \/ Reconciled(previous, e) = previous
               \/ <<previous, Reconciled(previous, e)>> \in Ledger!Moves
    <3> DEFINE new == Reconciled(previous, e)
    <3>1. CASE previous \notin Ledger!ActiveStates \/ e = "missing"
      BY <3>1 DEF Reconciled, Evidence
    <3>2. CASE previous \in Ledger!ActiveStates /\ e = "live"
      BY <3>2 DEF Reconciled, Ledger!Moves
    <3>3. CASE previous \in Ledger!ActiveStates /\ e = "over"
      BY <3>3 DEF Reconciled, Ledger!Moves
    <3>4. CASE previous \in Ledger!ActiveStates /\ e = "flat"
      BY <3>4 DEF Reconciled, Ledger!Moves
    <3>5. CASE previous \in Ledger!ActiveStates /\ e \notin Evidence
      BY <3>5 DEF Reconciled, Evidence
    <3>6. QED
      BY <3>1, <3>2, <3>3, <3>4, <3>5 DEF Evidence
  <2>2. \A i \in Intents :
           \/ reservation'[i] = reservation[i]
           \/ <<reservation[i], reservation'[i]>> \in Ledger!Moves
    BY <1>5, <2>1 DEF RecordOrderReconciliation
  <2>3. reservation' \in [Intents -> Ledger!ReservationStates]
    BY <1>5, OtherSteps, <2>2 DEF RecordOrderReconciliation, Ledger!Moves
  <2>4. QED
    BY <2>2, <2>3 DEF Ledger!Next
<1>6. CASE UNCHANGED reservation
  BY <1>6
<1>7. QED
  BY <1>2, <1>3, <1>4, <1>5, <1>6
     DEF Next, Tick, ApplyAccountEquityState, table, vars

\* The authority implements the ledger: whatever order its transactions commit
\* in, no intent is reserved twice and no released reservation comes back.
THEOREM LedgerImplemented == Spec => ImplementsLedger
<1>1. Init => Ledger!Init
  BY DEF Init, Ledger!Init
<1>2. TypeOK /\ [Next]_vars => [Ledger!Next]_reservation
  BY StepImplementsLedger
<1>3. QED
  BY <1>1, <1>2, TypeCorrect, PTL DEF Spec, ImplementsLedger, Ledger!Spec

-----------------------------------------------------------------------------
(***************************************************************************)
(* What an account that is the only one freshly observed may carry.        *)
(***************************************************************************)
\* Both sides of a comparison times a natural number.
LEMMA TimesNatural ==
    ASSUME NEW x \in Nat, NEW y \in Nat, NEW z \in Nat, x <= y
    PROVE  x * z <= y * z
BY SMTT(20)

\* With no other account observed recently, the firm's equity is the account's own.
LEMMA LoneEquity ==
    ASSUME TypeOK, NEW a \in Accounts, NEW s \in Snapshots,
           \A b \in Accounts \ {a} :
              observedAt[b] = -1 \/ observedAt[b] + EquityMaxAge < now
    PROVE  FirmEquity(a, s) = s.equity
<1>1. FreshAccounts(a) = {}
  <2>1. \A b \in Accounts : observedAt[b] \in Int
    BY DEF TypeOK
  <2>2. EquityMaxAge \in Nat /\ now \in Nat
    BY TimeAssumption DEF TypeOK
  <2>3. QED
    BY <2>1, <2>2 DEF FreshAccounts
<1>2. Total(latest, {}) = 0
  <2>1. UNION { {x} \X (1..latest[x]) : x \in {} } = {}
    OBVIOUS
  <2>2. QED
    BY <2>1, FS_EmptySet DEF Total
<1>3. s.equity \in Nat
  BY TimeAssumption DEF Snapshots
<1>4. QED
  BY <1>1, <1>2, <1>3 DEF FirmEquity

\* The step that reserves counts the whole firm's risk against that equity.
LEMMA ReserveOnLoneEquity ==
    ASSUME TypeOK, FirmEnabled, NEW i \in Intents, NEW s \in Snapshots,
           EvaluateAndReserve(i, s),
           \A b \in Accounts \ {Order[i].account} :
              observedAt[b] = -1 \/ observedAt[b] + EquityMaxAge < now
    PROVE  100 * FirmRisk' * MaxTotalOpen
             <= ceiling'.account[Order[i].account] * FirmTotalOpen
<1> DEFINE a == Order[i].account
           added == ApprovedQuantity(i, s) * Order[i].riskPerUnit
           whole == FirmRisk + added
<1>1. a \in Accounts
  BY OrderFields
<1>2. FirmEquity(a, s) = s.equity
  BY <1>1, LoneEquity
<1>3. added \in Nat /\ 100 * whole <= s.equity * FirmTotalOpen
  <2>1. ApprovedQuantity(i, s) > 0
    BY DEF EvaluateAndReserve
  <2>2. added \in Nat /\ 100 * whole <= FirmEquity(a, s) * FirmTotalOpen
    BY <2>1, SizingWithinLimits
  <2>3. QED
    BY <1>2, <2>2
<1>4. FirmRisk' = whole
  BY RiskAdded
<1>5. ceiling'.account[a] = s.equity * MaxTotalOpen
  BY <1>1 DEF EvaluateAndReserve, TypeOK
<1>6. FirmRisk \in Nat /\ s.equity \in Nat
  BY SumTypes, TimeAssumption DEF Snapshots
<1>7. FirmTotalOpen \in Nat /\ MaxTotalOpen \in Nat
  BY PolicyTypes
<1> HIDE DEF added
<1>8. (100 * whole) * MaxTotalOpen <= (s.equity * FirmTotalOpen) * MaxTotalOpen
  <2>1. 100 * whole \in Nat /\ s.equity * FirmTotalOpen \in Nat
    BY <1>3, <1>6, <1>7
  <2> HIDE DEF whole
  <2>2. QED
    BY <1>3, <1>7, <2>1, TimesNatural
<1>9. (s.equity * FirmTotalOpen) * MaxTotalOpen = (s.equity * MaxTotalOpen) * FirmTotalOpen
  BY <1>6, <1>7, SMTT(20)
<1>10. QED
  BY <1>4, <1>5, <1>8, <1>9

\* Whatever order the accounts report and reserve in, an approval made while no
\* other account is freshly observed keeps the whole firm's active risk within
\* the firm share of that account's own equity (the cutoff of
\* audit.py evaluate_and_reserve).
THEOREM StaleEquityIgnored == Spec => StaleEquityAddsNoCapacity
<1> DEFINE Lone(a) == \A b \in Accounts \ {a} :
                         observedAt[b] = -1 \/ observedAt[b] + EquityMaxAge < now
           Step == \A i \in Intents :
                      LET a == Order[i].account
                      IN  /\ FirmEnabled
                          /\ reservation[i] = "none" /\ reservation'[i] = "reserved"
                          /\ Lone(a)
                          => 100 * FirmRisk' * MaxTotalOpen
                               <= ceiling'.account[a] * FirmTotalOpen
<1>1. TypeOK /\ [Next]_vars => [Step]_vars
  <2> SUFFICES ASSUME TypeOK, Next, NEW i \in Intents,
                      FirmEnabled,
                      reservation[i] = "none", reservation'[i] = "reserved",
                      Lone(Order[i].account)
               PROVE  100 * FirmRisk' * MaxTotalOpen
                        <= ceiling'.account[Order[i].account] * FirmTotalOpen
    OBVIOUS
  <2>1. i \in ActiveIntents' /\ i \notin ActiveIntents
    BY DEF ActiveIntents, ActiveStates, Ledger!ActiveStates
  <2>2. PICK j \in Intents, s \in Snapshots : EvaluateAndReserve(j, s)
    BY <2>1, OtherSteps
  <2>3. j = i
    BY <2>2 DEF EvaluateAndReserve, TypeOK
  <2>4. QED
    BY <2>2, <2>3, ReserveOnLoneEquity
<1>2. QED
  BY <1>1, TypeCorrect, PTL DEF Spec, StaleEquityAddsNoCapacity
=============================================================================
