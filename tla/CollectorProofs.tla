-------------------------- MODULE CollectorProofs --------------------------
(***************************************************************************)
(* What the components that collect data from the outside promise, for any *)
(* number of workers, packages and cycles: the bars decisions are made on, *)
(* the evidence of option packages, and the reports of the asset universe. *)
(***************************************************************************)
EXTENDS MarketBars, Universe, OptionEvidence, NumberLemmas

-----------------------------------------------------------------------------
(***************************************************************************)
(* MarketBars.  A bar that had ended when a fetch began does not change    *)
(* any more, so that it does not matter when a page is read.  The token    *)
(* of a fetch divides the bars it has read, all of them, from the rest.    *)
(***************************************************************************)
BarsTypes ==
    /\ barClock \in BarTimes /\ tape \in Versions
    /\ fetch \in [Workers -> [at : Nat, window : Nat, next : Nat, pages : Nat, got : Versions]]
    /\ usable \in [Workers -> [at : Nat, bars : Versions]]

\* The bars before the token are as the broker has them; of the others some may be.
ReadToToken ==
    \A w \in Workers :
        LET f == fetch[w]
        IN  /\ f.at <= barClock /\ f.window <= f.at /\ f.window <= f.next
            /\ \A t \in BarTimes :
                  t < f.at => /\ f.got[t] \in {0, tape[t]}
                              /\ t < f.next => f.got[t] = tape[t]

\* The inductive invariant of MarketBars.
BarsInv ==
    /\ BarsTypes
    /\ ReadToToken
    /\ \A w \in Workers : usable[w].at <= barClock
    /\ UsableBarsFinal

\* Nothing has been fetched.
LEMMA BarsInitInv == BarsInit => BarsInv
BY MarketBarsAssumption
   DEF BarsInit, BarsInv, BarsTypes, ReadToToken, UsableBarsFinal, NoFetch, NoBars, BarTimes,
       Versions, Only

\* Where the window of a fetch ends.
LEMMA WindowEndBound ==
    ASSUME BarsTypes, NEW w \in Workers
    PROVE  WindowEnd(w) \in Nat /\ WindowEnd(w) <= fetch[w].at
<1> DEFINE S == {fetch[w].window + WindowLength, fetch[w].at}
<1>1. S \in SUBSET Nat /\ S # {}
  BY MarketBarsAssumption DEF BarsTypes
<1>2. Min(S) \in S /\ \A x \in S : Min(S) <= x
  BY <1>1, LeastNatural
<1>3. QED
  BY <1>1, <1>2 DEF WindowEnd

\* A page that is not the last holds every bar due up to its own last one.
LEMMA PageFromTheFront ==
    ASSUME BarsTypes, NEW w \in Workers, PageOf(w) # Due(w)
    PROVE  /\ Max(PageOf(w)) \in Due(w)
           /\ \A t \in Due(w) : t <= Max(PageOf(w)) => t \in PageOf(w)
<1>1. /\ PageLimit \in Nat \ {0} /\ MaxBar \in Nat \ {0}
      /\ PageOf(w) \subseteq Due(w) /\ Due(w) \subseteq 1..MaxBar
  BY MarketBarsAssumption DEF PageOf, Due, BarTimes
<1>2. ASSUME NEW t \in Due(w)
      PROVE  /\ IsFiniteSet({u \in Due(w) : u < t})
             /\ Cardinality({u \in Due(w) : u < t}) \in Nat
  <2>1. IsFiniteSet(1..MaxBar)
    BY <1>1, FS_Interval
  <2>2. {u \in Due(w) : u < t} \in SUBSET (1..MaxBar)
    BY <1>1
  <2>3. IsFiniteSet({u \in Due(w) : u < t})
    BY <2>1, <2>2, FS_Subset
  <2>4. QED
    BY <2>3, FS_CardinalityType
<1>3. PageOf(w) # {}
  <2>1. Due(w) # {} /\ Due(w) \in SUBSET Nat
    BY <1>1
  <2>2. Min(Due(w)) \in Due(w) /\ \A u \in Due(w) : Min(Due(w)) <= u
    BY <2>1, LeastNatural
  <2>3. {u \in Due(w) : u < Min(Due(w))} = {}
    BY <1>1, <2>1, <2>2
  <2>4. Cardinality({u \in Due(w) : u < Min(Due(w))}) < PageLimit
    BY <1>1, <2>3, FS_EmptySet
  <2>5. QED
    BY <2>2, <2>4 DEF PageOf
<1>4. /\ Max(PageOf(w)) \in PageOf(w)
      /\ \A t \in PageOf(w) : t <= Max(PageOf(w))
  <2>1. PageOf(w) \in SUBSET (0..MaxBar)
    BY <1>1
  <2>2. QED
    BY <1>1, <1>3, <2>1, GreatestNatural
<1> DEFINE last == Max(PageOf(w))
<1>5. ASSUME NEW t \in Due(w), t <= last PROVE t \in PageOf(w)
  <2>1. last \in Due(w) /\ last \in Nat /\ t \in Nat
    BY <1>1, <1>4
  <2>2. {u \in Due(w) : u < t} \in SUBSET {u \in Due(w) : u < last}
    BY <1>1, <1>5, <2>1
  <2>3. Cardinality({u \in Due(w) : u < t}) <= Cardinality({u \in Due(w) : u < last})
    BY <1>2, <2>1, <2>2, FS_Subset
  <2>4. Cardinality({u \in Due(w) : u < last}) < PageLimit
    BY <1>4 DEF PageOf
  <2>5. Cardinality({u \in Due(w) : u < t}) < PageLimit
    BY <1>1, <1>2, <2>1, <2>3, <2>4
  <2>6. QED
    BY <2>5 DEF PageOf
<1>6. QED
  BY <1>1, <1>4, <1>5

\* The market goes on, and does not touch a bar that has ended.
LEMMA MarketStep ==
    ASSUME BarsInv, BarCloses \/ TradePrinted
    PROVE  BarsInv'
<1> USE MarketBarsAssumption DEF BarsInv
<1>1. /\ UNCHANGED <<fetch, usable>>
      /\ barClock' \in BarTimes /\ barClock <= barClock'
      /\ tape' \in Versions
      /\ \A t \in BarTimes : t # barClock => tape'[t] = tape[t]
  <2>1. CASE BarCloses
    BY <2>1 DEF BarCloses, BarsTypes, BarTimes
  <2>2. CASE TradePrinted
    <3>1. /\ barClock \in BarTimes /\ tape[barClock] \in 0..MaxVersion
          /\ tape' = [tape EXCEPT ![barClock] = tape[barClock] + 1]
          /\ tape[barClock] < MaxVersion
      BY <2>2 DEF TradePrinted, BarsTypes, Versions
    <3>2. tape[barClock] + 1 \in 0..MaxVersion
      BY <3>1
    <3>3. tape' \in Versions /\ \A t \in BarTimes : t # barClock => tape'[t] = tape[t]
      BY <3>1, <3>2 DEF BarsTypes, Versions
    <3>4. QED
      BY <2>2, <3>1, <3>3 DEF TradePrinted, BarTimes
  <2>3. QED
    BY <2>1, <2>2
<1>2. barClock \in Nat /\ \A t \in BarTimes : t \in Nat
  BY DEF BarsTypes, BarTimes
<1>3. \A w \in Workers : fetch[w].at \in Nat /\ usable[w].at \in Nat
  BY DEF BarsTypes
<1>4. BarsTypes'
  BY <1>1 DEF BarsTypes
<1>5. \A w \in Workers : \A t \in BarTimes :
         t < fetch[w].at \/ t < usable[w].at => tape'[t] = tape[t]
  BY <1>1, <1>2, <1>3 DEF ReadToToken
<1>6. ReadToToken'
  <2> SUFFICES ASSUME NEW w \in Workers
               PROVE  LET f == fetch[w]
                      IN  /\ f.at <= barClock' /\ f.window <= f.at /\ f.window <= f.next
                          /\ \A t \in BarTimes :
                                t < f.at => /\ f.got[t] \in {0, tape'[t]}
                                            /\ t < f.next => f.got[t] = tape'[t]
    BY <1>1 DEF ReadToToken
  <2>1. fetch[w].at <= barClock'
    BY <1>1, <1>2, <1>3, <1>4 DEF ReadToToken, BarsTypes, BarTimes
  <2>2. QED
    BY <1>5, <2>1 DEF ReadToToken
<1>7. \A w \in Workers : usable[w].at <= barClock'
  BY <1>1, <1>2, <1>3, <1>4 DEF BarsTypes, BarTimes
<1>8. UsableBarsFinal'
  <2> SUFFICES ASSUME NEW w \in Workers
               PROVE  usable[w].bars = Only(tape', {t \in BarTimes : t < usable[w].at})
    BY <1>1 DEF UsableBarsFinal
  <2>1. usable[w].bars = Only(tape, {t \in BarTimes : t < usable[w].at})
    BY DEF UsableBarsFinal
  <2>2. QED
    BY <1>5, <2>1 DEF Only
<1>9. QED
  BY <1>1, <1>4, <1>6, <1>7, <1>8

\* A page moves the token over the bars it holds.
LEMMA PageStep ==
    ASSUME BarsInv, NEW w \in Workers, FetchPage(w)
    PROVE  BarsInv'
<1> USE MarketBarsAssumption DEF BarsInv
<1> DEFINE f == fetch[w]
           g == fetch'[w]
<1>1. f \in [at : Nat, window : Nat, next : Nat, pages : Nat, got : Versions]
  BY DEF BarsTypes
<1>2. /\ UNCHANGED <<barClock, tape, storedBars, usable>>
      /\ fetch' = [fetch EXCEPT ![w] = g]
      /\ g.at = f.at /\ g.pages = f.pages + 1
      /\ g.got = [t \in BarTimes |-> IF t \in PageOf(w) THEN tape[t] ELSE f.got[t]]
      /\ g.next = IF PageOf(w) = Due(w) THEN WindowEnd(w) ELSE Max(PageOf(w)) + 1
      /\ g.window = IF PageOf(w) = Due(w) THEN WindowEnd(w) ELSE f.window
      /\ g = [at |-> g.at, window |-> g.window, next |-> g.next, pages |-> g.pages,
              got |-> g.got]
  BY <1>1 DEF FetchPage, BarsTypes
<1>3. WindowEnd(w) \in Nat /\ WindowEnd(w) <= f.at
  BY WindowEndBound
<1>4. \A t \in Due(w) : /\ t \in BarTimes /\ t \in Nat /\ f.next <= t /\ t <= WindowEnd(w)
                        /\ tape[t] > 0
  BY DEF Due, BarTimes
<1>5. PageOf(w) \subseteq Due(w)
  BY DEF PageOf
<1>6. PageOf(w) # Due(w) =>
        /\ Max(PageOf(w)) \in Due(w)
        /\ \A t \in Due(w) : t <= Max(PageOf(w)) => t \in PageOf(w)
  BY PageFromTheFront
<1>7. g.next \in Nat /\ g.window \in Nat /\ g.window <= g.at /\ g.window <= g.next
  <2>1. f.window <= f.at /\ f.window <= f.next
    BY DEF ReadToToken
  <2>2. CASE PageOf(w) = Due(w)
    BY <1>2, <1>3, <2>2
  <2>3. CASE PageOf(w) # Due(w)
    <3>1. Max(PageOf(w)) \in Nat /\ f.next <= Max(PageOf(w))
      BY <1>4, <1>6, <2>3
    <3>2. g.next = Max(PageOf(w)) + 1 /\ g.window = f.window
      BY <1>2, <2>3
    <3>3. QED
      BY <1>1, <1>2, <2>1, <3>1, <3>2
  <2>4. QED
    BY <2>2, <2>3
<1>8. g.got \in Versions
  <2>1. tape \in Versions /\ f.got \in Versions
    BY <1>1 DEF BarsTypes
  <2>2. QED
    BY <1>2, <2>1 DEF Versions
<1>9. ASSUME NEW t \in BarTimes, t < f.at
      PROVE  g.got[t] \in {0, tape[t]} /\ (t < g.next => g.got[t] = tape[t])
  <2>a. t \in Nat /\ tape[t] \in Nat
    BY DEF BarsTypes, BarTimes, Versions
  <2>b. f.got[t] \in {0, tape[t]} /\ (t < f.next => f.got[t] = tape[t])
    BY <1>9 DEF ReadToToken
  <2>1. /\ t \in Nat /\ tape[t] \in Nat
        /\ f.got[t] \in {0, tape[t]} /\ (t < f.next => f.got[t] = tape[t])
    BY <2>a, <2>b
  <2>2. g.got[t] = IF t \in PageOf(w) THEN tape[t] ELSE f.got[t]
    BY <1>2
  <2>3. t < g.next /\ ~ (t < f.next) /\ tape[t] > 0 => t \in PageOf(w)
    <3> HAVE t < g.next /\ ~ (t < f.next) /\ tape[t] > 0
    <3>1. CASE PageOf(w) = Due(w)
      BY <1>1, <1>2, <1>3, <2>1, <3>1 DEF Due
    <3>2. CASE PageOf(w) # Due(w)
      <4>1. Max(PageOf(w)) \in Nat /\ Max(PageOf(w)) <= WindowEnd(w)
        BY <1>4, <1>6, <3>2
      <4>2. t <= Max(PageOf(w))
        BY <1>2, <2>1, <3>2, <4>1
      <4>3. t \in Due(w)
        BY <1>1, <1>3, <2>1, <4>1, <4>2 DEF Due
      <4>4. QED
        BY <1>6, <3>2, <4>2, <4>3
    <3>3. QED
      BY <3>1, <3>2
  <2>4. QED
    BY <2>1, <2>2, <2>3
<1> HIDE DEF g
<1>10. BarsTypes'
  <2>1. g \in [at : Nat, window : Nat, next : Nat, pages : Nat, got : Versions]
    BY <1>1, <1>2, <1>7, <1>8
  <2>2. QED
    BY <1>2, <2>1 DEF BarsTypes
<1>11. ReadToToken'
  <2>1. \A v \in Workers : fetch'[v] = IF v = w THEN g ELSE fetch[v]
    BY <1>2 DEF BarsTypes
  <2>2. g.at <= barClock
    BY <1>2 DEF ReadToToken
  <2>3. QED
    BY <1>2, <1>7, <1>9, <2>1, <2>2 DEF ReadToToken
<1>12. QED
  BY <1>2, <1>10, <1>11 DEF UsableBarsFinal

\* A fetch begins, begins again, or is given up: nothing is read yet.
LEMMA FetchStartStep ==
    ASSUME BarsInv, NEW w \in Workers, BeginFetch(w) \/ RetryFetch(w) \/ FetchRaises(w)
    PROVE  BarsInv'
<1> USE MarketBarsAssumption DEF BarsInv
<1>1. PICK at \in Nat :
         /\ at <= barClock
         /\ fetch' = [fetch EXCEPT ![w] = BeginAt(at)]
         /\ UNCHANGED <<barClock, tape, storedBars, usable>>
  <2>1. CASE BeginFetch(w)
    <3>1. barClock \in Nat /\ barClock <= barClock
      BY DEF BarsTypes, BarTimes
    <3>2. QED
      BY <2>1, <3>1 DEF BeginFetch
  <2>2. CASE RetryFetch(w)
    BY <2>2 DEF RetryFetch, BarsTypes, ReadToToken
  <2>3. CASE FetchRaises(w)
    <3>1. NoFetch = BeginAt(0) /\ 0 <= barClock
      BY DEF NoFetch, BeginAt, BarsTypes, BarTimes
    <3>2. QED
      BY <2>3, <3>1 DEF FetchRaises
  <2>4. QED
    BY <2>1, <2>2, <2>3
<1>2. BeginAt(at) = [at |-> at, window |-> 0, next |-> 0, pages |-> 0, got |-> NoBars]
  BY DEF BeginAt, NoFetch
<1>3. NoBars \in Versions /\ \A t \in BarTimes : NoBars[t] = 0 /\ ~ (t < 0)
  BY DEF NoBars, Versions, BarTimes
<1>4. \A v \in Workers : fetch'[v] = IF v = w THEN BeginAt(at) ELSE fetch[v]
  BY <1>1 DEF BarsTypes
<1>5. BarsTypes'
  BY <1>1, <1>2, <1>3 DEF BarsTypes
<1>6. ReadToToken'
  BY <1>1, <1>2, <1>3, <1>4 DEF ReadToToken
<1>7. QED
  BY <1>1, <1>5, <1>6 DEF UsableBarsFinal

\* A fetch is stored only when its token has passed every bar that had ended.
LEMMA StoreStep ==
    ASSUME BarsInv, NEW w \in Workers, StoreBars(w)
    PROVE  BarsInv'
<1> USE MarketBarsAssumption DEF BarsInv
<1> DEFINE f == fetch[w]
           ended == {t \in BarTimes : Ended(w, t)}
<1>1. f \in [at : Nat, window : Nat, next : Nat, pages : Nat, got : Versions]
  BY DEF BarsTypes
<1>2. /\ UNCHANGED <<barClock, tape>>
      /\ fetch' = [fetch EXCEPT ![w] = NoFetch]
      /\ usable' = [usable EXCEPT ![w] = [at |-> f.at, bars |-> Only(f.got, ended)]]
      /\ ~ (f.window < f.at)
  BY DEF StoreBars, Fetching
<1>3. f.at <= f.next /\ f.at <= barClock
  BY <1>1, <1>2 DEF ReadToToken
<1>4. \A t \in BarTimes : t \in Nat /\ (t \in ended <=> t < f.at)
  BY <1>1 DEF Ended, BarTimes
<1>5. \A t \in BarTimes : t < f.at => f.got[t] = tape[t]
  BY <1>1, <1>3, <1>4 DEF ReadToToken
<1>6. Only(f.got, ended) = Only(tape, {t \in BarTimes : t < f.at})
  BY <1>4, <1>5 DEF Only
<1>7. Only(f.got, ended) \in Versions
  BY <1>1 DEF Only, Versions
<1>8. NoFetch \in [at : Nat, window : Nat, next : Nat, pages : Nat, got : Versions]
  BY DEF NoFetch, NoBars, Versions
<1>9. \A v \in Workers :
         /\ fetch'[v] = IF v = w THEN NoFetch ELSE fetch[v]
         /\ usable'[v] = IF v = w THEN [at |-> f.at, bars |-> Only(f.got, ended)] ELSE usable[v]
  BY <1>2 DEF BarsTypes
<1>10. BarsTypes'
  BY <1>1, <1>2, <1>7, <1>8 DEF BarsTypes
<1>11. ReadToToken'
  <2>0. barClock \in Nat
    BY DEF BarsTypes, BarTimes
  <2>1. barClock' = barClock /\ tape' = tape
    BY <1>2
  <2> HIDE DEF f, ended
  <2> SUFFICES ASSUME NEW v \in Workers
               PROVE  LET g == fetch'[v]
                      IN  /\ g.at <= barClock /\ g.window <= g.at /\ g.window <= g.next
                          /\ \A t \in BarTimes :
                                t < g.at => /\ g.got[t] \in {0, tape[t]}
                                            /\ t < g.next => g.got[t] = tape[t]
    BY <2>1 DEF ReadToToken
  <2>2. CASE v = w
    <3>1. fetch'[v] = NoFetch
      BY <1>9, <2>2
    <3>2. NoFetch.at = 0 /\ NoFetch.window = 0 /\ NoFetch.next = 0
      BY DEF NoFetch
    <3>3. QED
      BY <1>4, <2>0, <2>1, <3>1, <3>2
  <2>3. CASE v # w
    <3>1. fetch'[v] = fetch[v]
      BY <1>9, <2>3
    <3>2. QED
      BY <3>1 DEF ReadToToken
  <2>4. QED
    BY <2>2, <2>3
<1>12. UsableBarsFinal'
  <2>1. tape' = tape
    BY <1>2
  <2> HIDE DEF ended, f
  <2>2. SUFFICES ASSUME NEW v \in Workers
                 PROVE  (usable[v].bars = Only(tape, {t \in BarTimes : t < usable[v].at}))'
    BY DEF UsableBarsFinal
  <2>3. CASE v = w
    <3>1. usable'[v].bars = Only(f.got, ended) /\ usable'[v].at = f.at
      BY <1>9, <2>3
    <3>2. QED
      BY <1>6, <2>1, <3>1
  <2>4. CASE v # w
    <3>1. usable'[v] = usable[v]
      BY <1>9, <2>4
    <3>2. QED
      BY <2>1, <3>1 DEF UsableBarsFinal
  <2>5. QED
    BY <2>3, <2>4
<1> HIDE DEF ended
<1>13. QED
  BY <1>2, <1>3, <1>9, <1>10, <1>11, <1>12

\* It holds of every behaviour.
LEMMA BarsInvHolds == BarsSpec => []BarsInv
<1>1. BarsInv /\ [BarsNext]_barVars => BarsInv'
  <2>1. CASE UNCHANGED barVars
    BY <2>1 DEF barVars, BarsInv, BarsTypes, ReadToToken, UsableBarsFinal
  <2>2. QED
    BY <2>1, MarketStep, PageStep, FetchStartStep, StoreStep DEF BarsNext
<1>2. QED
  BY <1>1, BarsInitInv, PTL DEF BarsSpec

\* The table holds versions of bars, and no fetch reads more pages than it may.
StoredTypes == storedBars \in Versions /\ \A w \in Workers : fetch[w].pages <= MaxPages

\* Only StoreBars writes the table, and FetchPage counts.
LEMMA StoredStep ==
    ASSUME BarsTypes, StoredTypes, [BarsNext]_barVars
    PROVE  StoredTypes'
<1>1. ASSUME storedBars' = storedBars, \A w \in Workers : fetch'[w].pages <= MaxPages
      PROVE  StoredTypes'
  BY <1>1 DEF StoredTypes
<1>2. /\ NoFetch.pages = 0 /\ \A at \in Nat : BeginAt(at).pages = 0
      /\ 0 <= MaxPages /\ MaxPages \in Nat
  BY MarketBarsAssumption DEF NoFetch, BeginAt
<1>3. CASE UNCHANGED barVars \/ BarCloses \/ TradePrinted
  BY <1>1, <1>3 DEF barVars, BarCloses, TradePrinted, StoredTypes
<1>4. ASSUME NEW w \in Workers, BeginFetch(w) \/ RetryFetch(w) \/ FetchRaises(w)
      PROVE  StoredTypes'
  <2>1. barClock \in Nat /\ fetch[w].at \in Nat
    BY DEF BarsTypes, BarTimes
  <2>2. storedBars' = storedBars
        /\ \E f \in {NoFetch, BeginAt(barClock), BeginAt(fetch[w].at)} :
              fetch' = [fetch EXCEPT ![w] = f]
    BY <1>4 DEF BeginFetch, RetryFetch, FetchRaises
  <2>3. \A v \in Workers : fetch'[v].pages <= MaxPages
    BY <1>2, <2>1, <2>2 DEF BarsTypes, StoredTypes
  <2>4. QED
    BY <1>1, <2>2, <2>3
<1>5. ASSUME NEW w \in Workers, FetchPage(w) PROVE StoredTypes'
  <2>1. storedBars' = storedBars /\ fetch[w].pages < MaxPages /\ fetch[w].pages \in Nat
    BY <1>5 DEF FetchPage, BarsTypes
  <2>2. fetch'[w].pages = fetch[w].pages + 1
        /\ \A v \in Workers : v # w => fetch'[v] = fetch[v]
    BY <1>5 DEF FetchPage, BarsTypes
  <2>3. fetch'[w].pages <= MaxPages
    BY <1>2, <2>1, <2>2
  <2>4. QED
    BY <1>1, <2>1, <2>2, <2>3 DEF StoredTypes
<1>6. ASSUME NEW w \in Workers, StoreBars(w) PROVE StoredTypes'
  <2>1. fetch' = [fetch EXCEPT ![w] = NoFetch]
    BY <1>6 DEF StoreBars
  <2>2. \A v \in Workers : fetch'[v].pages <= MaxPages
    BY <1>2, <2>1 DEF BarsTypes, StoredTypes
  <2>3. PICK kept : storedBars' = [t \in BarTimes |-> IF t \in kept THEN fetch[w].got[t]
                                                     ELSE storedBars[t]]
    BY <1>6 DEF StoreBars
  <2>4. fetch[w].got \in Versions /\ storedBars \in Versions
    BY DEF BarsTypes, StoredTypes
  <2>5. storedBars' \in Versions
    BY <2>3, <2>4 DEF Versions
  <2>6. QED
    BY <2>2, <2>5 DEF StoredTypes
<1>7. QED
  BY <1>3, <1>4, <1>5, <1>6 DEF BarsNext

\* The bars are type correct, for any workers, pages, windows and trades: no fetch is
\* dated after the present or reads beyond its own time (market_data.py, audit.py).
THEOREM BarsTypeCorrect == BarsSpec => []BarsTypeOK
<1>1. BarsInit => StoredTypes
  BY MarketBarsAssumption DEF BarsInit, StoredTypes, NoFetch, NoBars, Versions
<1>2. BarsInv /\ StoredTypes => BarsTypeOK
  <2>1. SUFFICES ASSUME BarsInv, StoredTypes PROVE BarsTypeOK
    OBVIOUS
  <2>2. barClock \in Nat /\ MaxPages \in Nat
    BY <2>1, MarketBarsAssumption DEF BarsInv, BarsTypes, BarTimes
  <2>3. ASSUME NEW w \in Workers
        PROVE  /\ fetch[w].at \in 0..barClock /\ fetch[w].window \in 0..fetch[w].at
               /\ fetch[w].pages \in 0..MaxPages /\ fetch[w].got \in Versions
               /\ usable[w].at \in 0..barClock /\ usable[w].bars \in Versions
    <3>1. /\ fetch[w].at \in Nat /\ fetch[w].window \in Nat /\ fetch[w].pages \in Nat
          /\ fetch[w].got \in Versions /\ usable[w].at \in Nat /\ usable[w].bars \in Versions
      BY <2>1 DEF BarsInv, BarsTypes
    <3>2. /\ fetch[w].at <= barClock /\ fetch[w].window <= fetch[w].at
          /\ fetch[w].pages <= MaxPages /\ usable[w].at <= barClock
      BY <2>1 DEF BarsInv, ReadToToken, StoredTypes
    <3>3. QED
      BY <2>2, <3>1, <3>2
  <2>4. QED
    BY <2>1, <2>3 DEF BarsInv, BarsTypes, StoredTypes, BarsTypeOK
<1>3. BarsInv => BarsTypes
  BY DEF BarsInv
<1>4. QED
  BY <1>1, <1>2, <1>3, BarsInvHolds, StoredStep, PTL DEF BarsSpec

\* A cycle decides on the final version of every bar that had ended when it began,
\* on all of them and on no other, for every length of windows and pages, however
\* many workers fetch, fail and fetch again, and whatever trades are printed
\* meanwhile (market_data.py fetch_stock_bars, closed_bars).
THEOREM BarsStayFinal == BarsSpec => []UsableBarsFinal
<1>1. BarsInv => UsableBarsFinal
  BY DEF BarsInv
<1>2. QED
  BY <1>1, BarsInvHolds, PTL

-----------------------------------------------------------------------------
(***************************************************************************)
(* Universe.  Every symbol a screening has found large enough rests on     *)
(* evidence of its own, dated before the time of the cycle, and filings    *)
(* are only added; among the reports of a policy one is the newest.        *)
(***************************************************************************)
Screenings ==
    [at : Nat, policy : Nat, symbol : Nat, sized : SUBSET ToSet(Assets), secAvailable : BOOLEAN]

\* What a report keeps.
Rows == [policy : STRING, at : Nat, picked : SUBSET ToSet(Assets)]

\* The types of the universe.
UniverseTypes ==
    /\ date \in 1..MaxDate
    /\ filings \in [Unreferenced -> [1..MaxDate -> {"none", "large", "small"}]]
    /\ reports \in Seq(Rows)
    /\ screening \in [Screeners -> Screenings]

\* A cycle that is on its way is at a symbol of a policy, and began before now.
OnItsWay ==
    /\ \A c \in Screeners :
          /\ screening[c].at <= date
          /\ screening[c] # NoScreening =>
               screening[c].policy \in 1..Len(PolicyOrder) /\ screening[c].symbol >= 1
    /\ \A i \in DOMAIN reports : reports[i].at <= date

\* A reference or a filing of s itself that was recent at a time.
Evidenced(s, at) ==
    \/ /\ s \in DOMAIN References
       /\ References[s] \in at - MaxEvidenceAge..at
    \/ /\ s \in Unreferenced
       /\ \E d \in 1..at : filings[s][d] = "large" /\ d >= at - MaxEvidenceAge

\* What a screening has sized so far, and what a report has picked, rests on evidence.
SizedOnEvidence ==
    /\ \A c \in Screeners : \A s \in screening[c].sized : Evidenced(s, screening[c].at)
    /\ \A i \in DOMAIN reports : \A s \in reports[i].picked : Evidenced(s, reports[i].at)

\* The inductive invariant of Universe.
UniverseInv == UniverseTypes /\ OnItsWay /\ SizedOnEvidence

\* There is no report and no cycle.
LEMMA UniverseInitInv == UniverseInit => UniverseInv
BY UniverseAssumption
   DEF UniverseInit, UniverseInv, UniverseTypes, OnItsWay, SizedOnEvidence, Screenings,
       NoScreening

\* What a screening that begins a policy, or ends, looks like.
LEMMA ScreeningTypes ==
    /\ NoScreening \in Screenings /\ NoScreening.at = 0 /\ NoScreening.sized = {}
    /\ \A at, policy \in Nat :
          /\ PolicyStart(at, policy) \in Screenings
          /\ PolicyStart(at, policy).at = at /\ PolicyStart(at, policy).sized = {}
          /\ PolicyStart(at, policy).policy = policy /\ PolicyStart(at, policy).symbol = 1
BY DEF NoScreening, Screenings, PolicyStart

\* A report is a row of the table.
LEMMA RowTypes ==
    ASSUME UniverseTypes, NEW i \in DOMAIN reports
    PROVE  /\ i \in Nat /\ i > 0 /\ reports[i] \in Rows
           /\ reports[i].at \in Nat /\ reports[i].picked \subseteq ToSet(Assets)
<1>1. reports \in Seq(Rows)
  BY DEF UniverseTypes
<1> HIDE DEF Rows
<1>2. i \in Nat /\ i > 0 /\ reports[i] \in Rows
  BY <1>1
<1>3. QED
  BY <1>2 DEF Rows

\* The date and the filings move on: what was evidence stays evidence.
LEMMA FilingStep ==
    ASSUME UniverseInv, DatePasses \/ \E s \in Unreferenced : CompanyFiles(s)
    PROVE  UniverseInv'
<1> USE UniverseAssumption DEF UniverseInv
<1>1. CASE DatePasses
  <2>1. /\ date' = date + 1 /\ date' \in 1..MaxDate
        /\ UNCHANGED <<filings, reports, screening>>
    BY <1>1 DEF DatePasses, UniverseTypes
  <2>2. OnItsWay'
    <3>1. \A c \in Screeners : screening[c].at \in Nat
      BY DEF UniverseTypes, Screenings
    <3>2. \A i \in DOMAIN reports : reports[i].at \in Nat
      BY RowTypes
    <3>3. date \in Nat
      BY DEF UniverseTypes
    <3>4. QED
      BY <2>1, <3>1, <3>2, <3>3 DEF OnItsWay
  <2>3. QED
    BY <2>1, <2>2 DEF UniverseTypes, SizedOnEvidence, Evidenced
<1>2. CASE \E s \in Unreferenced : CompanyFiles(s)
  <2>1. PICK s \in Unreferenced, f \in {"large", "small"} :
           /\ filings[s][date] = "none"
           /\ filings' = [filings EXCEPT ![s][date] = f]
           /\ UNCHANGED <<date, reports, screening>>
    BY <1>2 DEF CompanyFiles
  <2>2. filings' \in [Unreferenced -> [1..MaxDate -> {"none", "large", "small"}]]
    BY <2>1 DEF UniverseTypes
  <2>3. \A u \in Unreferenced, d \in 1..MaxDate :
           filings[u][d] = "large" => filings'[u][d] = "large"
    <3> SUFFICES ASSUME NEW u \in Unreferenced, NEW d \in 1..MaxDate, filings[u][d] = "large"
                 PROVE  filings'[u][d] = "large"
      OBVIOUS
    <3>1. CASE u = s
      <4>1. filings'[u] = [filings[u] EXCEPT ![date] = f] /\ d # date
        BY <2>1, <3>1 DEF UniverseTypes
      <4>2. QED
        BY <4>1 DEF UniverseTypes
    <3>2. CASE u # s
      BY <2>1, <3>2 DEF UniverseTypes
    <3>3. QED
      BY <3>1, <3>2
  <2>4. \A u : \A at \in Nat : at <= date /\ Evidenced(u, at) => Evidenced(u, at)'
    <3>1. date \in Nat /\ date <= MaxDate /\ MaxDate \in Nat
      BY UniverseAssumption DEF UniverseTypes
    <3>2. SUFFICES ASSUME NEW u, NEW at \in Nat, at <= date, Evidenced(u, at)
                   PROVE  Evidenced(u, at)'
      OBVIOUS
    <3>3. CASE u \in DOMAIN References /\ References[u] \in at - MaxEvidenceAge..at
      BY <3>3 DEF Evidenced
    <3>4. CASE /\ u \in Unreferenced
               /\ \E d \in 1..at : filings[u][d] = "large" /\ d >= at - MaxEvidenceAge
      <4>1. PICK d \in 1..at : filings[u][d] = "large" /\ d >= at - MaxEvidenceAge
        BY <3>4
      <4>2. d \in 1..MaxDate
        BY <3>1, <3>2
      <4>3. filings'[u][d] = "large"
        BY <2>3, <3>4, <4>1, <4>2
      <4>4. QED
        BY <3>4, <4>1, <4>3 DEF Evidenced
    <3>5. QED
      BY <3>2, <3>3, <3>4 DEF Evidenced
  <2>5. SizedOnEvidence'
    <3>1. \A c \in Screeners : screening[c].at \in Nat /\ screening[c].at <= date
      BY DEF UniverseTypes, Screenings, OnItsWay
    <3>2. \A i \in DOMAIN reports : reports[i].at \in Nat /\ reports[i].at <= date
      BY RowTypes DEF OnItsWay
    <3>3. QED
      BY <2>1, <2>4, <3>1, <3>2 DEF SizedOnEvidence
  <2>6. QED
    BY <2>1, <2>2, <2>5 DEF UniverseTypes, OnItsWay
<1>3. QED
  BY <1>1, <1>2
\* A collection adds a symbol only on evidence of that symbol.
LEMMA CollectStep ==
    ASSUME UniverseInv, NEW c \in Screeners,
           CollectReference(c) \/ CollectFromSec(c) \/ SecOutage(c)
    PROVE  UniverseInv'
<1> USE UniverseAssumption DEF UniverseInv
<1> DEFINE old == screening[c]
           s == Assets[old.symbol]
<1>1. /\ old \in Screenings /\ Collecting(c) /\ old.symbol \in 1..Len(Assets)
      /\ s \in ToSet(Assets) /\ old.at \in Nat /\ old.at <= date /\ date \in Nat
      /\ UNCHANGED <<date, filings, reports>>
  <2>1. old \in Screenings /\ Collecting(c) /\ old.symbol >= 1 /\ old.at <= date
    BY DEF CollectReference, CollectFromSec, SecOutage, Collecting, UniverseTypes, OnItsWay
  <2>2. old.symbol \in 1..Len(Assets)
    BY <2>1 DEF Collecting, Screenings
  <2>3. old.at \in Nat /\ date \in Nat
    BY <2>1 DEF Screenings, UniverseTypes
  <2>4. Assets \in Seq(STRING) /\ s \in ToSet(Assets)
    BY <2>2 DEF ToSet
  <2>5. UNCHANGED <<date, filings, reports>>
    BY DEF CollectReference, CollectFromSec, SecOutage
  <2>6. QED
    BY <2>1, <2>2, <2>3, <2>4, <2>5
<1>2. PICK passes \in BOOLEAN, available \in BOOLEAN :
         Collect(c, passes, available) /\ (passes => Evidenced(s, old.at))
  <2>1. CASE CollectReference(c)
    <3>1. s \in DOMAIN References /\ References[s] \in Nat
      BY <2>1 DEF CollectReference
    <3>2. Fresh(References[s], old.at) => Evidenced(s, old.at)
      <4> HIDE DEF old, s
      <4>1. Fresh(References[s], old.at) =>
              References[s] \in old.at - MaxEvidenceAge..old.at
        BY <1>1, <3>1, UniverseAssumption DEF Fresh
      <4>2. QED
        BY <3>1, <4>1 DEF Evidenced
    <3>3. Fresh(References[s], old.at) \in BOOLEAN /\ old.secAvailable \in BOOLEAN
      BY <1>1 DEF Screenings, Fresh
    <3>4. QED
      BY <2>1, <3>2, <3>3 DEF CollectReference
  <2>2. CASE CollectFromSec(c)
    <3>1. s \in Unreferenced
      BY <1>1, <2>2 DEF CollectFromSec, Unreferenced
    <3>2. SecPasses(s, old.at) => Evidenced(s, old.at)
      <4> SUFFICES ASSUME SecPasses(s, old.at) PROVE Evidenced(s, old.at)
        OBVIOUS
      <4> DEFINE dates == {d \in 1..MaxDate : filings[s][d] # "none"}
      <4>1. LatestFiling(s) = IF dates = {} THEN 0 ELSE Max(dates)
        BY DEF LatestFiling
      <4>2. /\ LatestFiling(s) # 0
            /\ filings[s][LatestFiling(s)] = "large" /\ Fresh(LatestFiling(s), old.at)
        BY DEF SecPasses
      <4>3. dates \in SUBSET (0..MaxDate) /\ dates \subseteq 1..MaxDate
        OBVIOUS
      <4> HIDE DEF dates
      <4>4. LatestFiling(s) \in dates
        BY <4>1, <4>2, <4>3, GreatestNatural
      <4>5. LatestFiling(s) \in 1..MaxDate
        BY <4>3, <4>4
      <4> DEFINE d == LatestFiling(s)
      <4>6. d \in Nat /\ d >= 1
        BY <4>5, UniverseAssumption
      <4>7. 0 <= old.at - d /\ old.at - d <= MaxEvidenceAge /\ filings[s][d] = "large"
        BY <4>2 DEF Fresh
      <4> HIDE DEF d
      <4>8. d \in 1..old.at /\ d >= old.at - MaxEvidenceAge
        BY <1>1, <4>6, <4>7, UniverseAssumption
      <4>9. QED
        BY <3>1, <4>7, <4>8 DEF Evidenced
    <3>3. SecPasses(s, old.at) \in BOOLEAN
      BY DEF SecPasses
    <3>4. QED
      BY <2>2, <3>2, <3>3 DEF CollectFromSec
  <2>3. CASE SecOutage(c)
    <3>1. Collect(c, FALSE, FALSE)
      BY <2>3 DEF SecOutage, OutageEvidence, Collect
    <3>2. QED
      BY <3>1
  <2>4. QED
    BY <2>1, <2>2, <2>3
<1> DEFINE sized == IF passes THEN old.sized \cup {s} ELSE old.sized
           new == [old EXCEPT !.symbol = old.symbol + 1, !.sized = sized,
                              !.secAvailable = available]
<1>3. /\ new \in Screenings /\ new.at = old.at /\ new.policy = old.policy
      /\ new.symbol = old.symbol + 1 /\ new.sized = sized
      /\ screening' = [screening EXCEPT ![c] = new]
  <2>1. sized \in SUBSET ToSet(Assets)
    BY <1>1 DEF Screenings
  <2>2. screening' = [screening EXCEPT ![c] = new]
    BY <1>2 DEF Collect, UniverseTypes
  <2> HIDE DEF sized
  <2>3. old \in Screenings /\ old.symbol + 1 \in Nat
    <3>1. old.symbol \in Nat
      BY <1>1 DEF Screenings
    <3>2. QED
      BY <1>1, <3>1
  <2>4. /\ new.at = old.at /\ new.policy = old.policy
        /\ new.symbol = old.symbol + 1 /\ new.sized = sized
    BY <2>3 DEF Screenings
  <2>5. new \in Screenings
    BY <2>1, <2>3 DEF Screenings
  <2>6. QED
    BY <2>2, <2>4, <2>5
<1>4. \A b \in Screeners : screening'[b] = IF b = c THEN new ELSE screening[b]
  BY <1>3 DEF UniverseTypes
<1> HIDE DEF new
<1>5. UniverseTypes'
  BY <1>1, <1>3 DEF UniverseTypes
<1>6. OnItsWay'
  <2>1. old.policy \in 1..Len(PolicyOrder) /\ old.symbol + 1 >= 1
    BY <1>1 DEF OnItsWay, Collecting
  <2>2. QED
    BY <1>1, <1>3, <1>4, <2>1 DEF OnItsWay
<1>7. SizedOnEvidence'
  <2>1. \A u, at : Evidenced(u, at)' <=> Evidenced(u, at)
    BY <1>1 DEF Evidenced
  <2>2. \A u \in sized : Evidenced(u, old.at)
    BY <1>2 DEF SizedOnEvidence
  <2>3. QED
    BY <1>1, <1>3, <1>4, <2>1, <2>2 DEF SizedOnEvidence
<1>8. QED
  BY <1>5, <1>6, <1>7

\* A report holds what its screening found; the next policy begins with nothing.
LEMMA ReportStep ==
    ASSUME UniverseInv, NEW c \in Screeners,
           BeginScreening(c) \/ RecordReport(c) \/ ScreeningAborts(c)
    PROVE  UniverseInv'
<1> USE UniverseAssumption DEF UniverseInv
<1> DEFINE old == screening[c]
           new == screening'[c]
<1>1. /\ old \in Screenings /\ old.at \in Nat /\ old.at <= date /\ date \in Nat
      /\ old.policy \in Nat
      /\ UNCHANGED <<date, filings>>
      /\ Len(PolicyOrder) \in Nat /\ Len(PolicyOrder) >= 1
  BY DEF UniverseTypes, OnItsWay, Screenings, BeginScreening, RecordReport, ScreeningAborts
<1>2. /\ screening' = [screening EXCEPT ![c] = new]
      /\ new \in Screenings /\ new.at <= date /\ new.sized = {}
      /\ new # NoScreening => new.policy \in 1..Len(PolicyOrder) /\ new.symbol >= 1
  <2>1. CASE BeginScreening(c)
    BY <1>1, <2>1, ScreeningTypes DEF BeginScreening, UniverseTypes
  <2>2. CASE RecordReport(c)
    <3>1. old.policy \in 1..Len(PolicyOrder)
      BY <2>2 DEF RecordReport, OnItsWay
    <3>2. CASE old.policy = Len(PolicyOrder)
      BY <1>1, <2>2, <3>2, ScreeningTypes DEF RecordReport, UniverseTypes
    <3>3. CASE old.policy # Len(PolicyOrder)
      <4>1. new = PolicyStart(old.at, old.policy + 1)
            /\ screening' = [screening EXCEPT ![c] = new]
        BY <2>2, <3>3 DEF RecordReport, UniverseTypes
      <4> HIDE DEF new, old
      <4>2. old.policy + 1 \in 1..Len(PolicyOrder) /\ old.policy + 1 \in Nat
        BY <1>1, <3>1, <3>3
      <4>3. /\ new \in Screenings /\ new.at = old.at /\ new.sized = {}
            /\ new.policy = old.policy + 1 /\ new.symbol = 1
        BY <1>1, <4>1, <4>2, ScreeningTypes
      <4>4. QED
        BY <1>1, <4>1, <4>2, <4>3
    <3>4. QED
      BY <3>2, <3>3
  <2>3. CASE ScreeningAborts(c)
    BY <1>1, <2>3, ScreeningTypes DEF ScreeningAborts, UniverseTypes
  <2>4. QED
    BY <2>1, <2>2, <2>3
<1>3. /\ reports' \in Seq(Rows)
      /\ \A i \in DOMAIN reports' :
            \/ i \in DOMAIN reports /\ reports'[i] = reports[i]
            \/ reports'[i].at = old.at /\ reports'[i].picked \subseteq old.sized
  <2>1. CASE RecordReport(c)
    <3>1. PICK picked \in SUBSET old.sized :
             reports' = Append(reports, [policy |-> PolicyOrder[old.policy], at |-> old.at,
                                         picked |-> picked])
      BY <2>1 DEF RecordReport
    <3> DEFINE row == [policy |-> PolicyOrder[old.policy], at |-> old.at, picked |-> picked]
    <3>2. old.policy \in 1..Len(PolicyOrder)
      BY <2>1 DEF RecordReport, OnItsWay
    <3>3. PolicyOrder[old.policy] \in STRING
      BY <3>2
    <3>4. row \in Rows /\ row.at = old.at /\ row.picked = picked
      BY <1>1, <3>3 DEF Rows, Screenings
    <3> HIDE DEF row
    <3>5. reports \in Seq(Rows) /\ reports' = Append(reports, row)
      BY <3>1 DEF UniverseTypes, row
    <3>6. QED
      BY <3>4, <3>5
  <2>2. CASE BeginScreening(c) \/ ScreeningAborts(c)
    BY <2>2 DEF BeginScreening, ScreeningAborts, UniverseTypes
  <2>3. QED
    BY <2>1, <2>2
<1> HIDE DEF new
<1>4. \A b \in Screeners : screening'[b] = IF b = c THEN new ELSE screening[b]
  BY <1>2 DEF UniverseTypes
<1>5. UniverseTypes'
  BY <1>1, <1>2, <1>3 DEF UniverseTypes
<1>6. OnItsWay'
  BY <1>1, <1>2, <1>3, <1>4 DEF OnItsWay
<1>7. SizedOnEvidence'
  <2>1. \A u, at : Evidenced(u, at)' <=> Evidenced(u, at)
    BY <1>1 DEF Evidenced
  <2>2. \A u \in old.sized : Evidenced(u, old.at)
    BY DEF SizedOnEvidence
  <2>3. QED
    BY <1>2, <1>3, <1>4, <2>1, <2>2 DEF SizedOnEvidence
<1>8. QED
  BY <1>5, <1>6, <1>7

\* Every step of the universe keeps the invariant.
LEMMA UniverseNextInv == UniverseInv /\ [UniverseNext]_universeVars => UniverseInv'
<1>1. CASE UNCHANGED universeVars
  BY <1>1 DEF universeVars, UniverseInv, UniverseTypes, OnItsWay, SizedOnEvidence, Evidenced
<1>2. QED
  BY <1>1, FilingStep, CollectStep, ReportStep DEF UniverseNext

\* It holds of every behaviour.
LEMMA UniverseInvHolds == UniverseSpec => []UniverseInv
BY UniverseInitInv, UniverseNextInv, PTL DEF UniverseSpec

\* A report is of a policy of the program.
PoliciesKnown == \A i \in DOMAIN reports : reports[i].policy \in ToSet(PolicyOrder)

\* RecordReport names the policy the cycle is at.
LEMMA PoliciesStep ==
    ASSUME UniverseInv, PoliciesKnown, [UniverseNext]_universeVars
    PROVE  PoliciesKnown'
<1>1. CASE reports' = reports
  BY <1>1 DEF PoliciesKnown
<1>2. ASSUME NEW c \in Screeners, RecordReport(c) PROVE PoliciesKnown'
  <2>1. PICK picked \in SUBSET screening[c].sized :
           reports' = Append(reports, [policy |-> PolicyOrder[screening[c].policy],
                                       at |-> screening[c].at, picked |-> picked])
    BY <1>2 DEF RecordReport
  <2> DEFINE row == [policy |-> PolicyOrder[screening[c].policy], at |-> screening[c].at,
                     picked |-> picked]
  <2>2. screening[c].policy \in 1..Len(PolicyOrder)
    BY <1>2 DEF RecordReport, UniverseInv, OnItsWay
  <2>3. screening[c].policy \in DOMAIN PolicyOrder
    BY <2>2, UniverseAssumption
  <2>4. row.policy \in ToSet(PolicyOrder)
    BY <2>3 DEF ToSet
  <2> HIDE DEF row
  <2>5. reports \in Seq(Rows) /\ reports' = Append(reports, row)
    BY <2>1 DEF UniverseInv, UniverseTypes, row
  <2> HIDE DEF Rows
  <2>6. \A i \in DOMAIN reports' : (i \in DOMAIN reports /\ reports'[i] = reports[i]) \/ reports'[i] = row
    BY <2>5
  <2>7. QED
    BY <2>4, <2>6 DEF PoliciesKnown
<1>3. QED
  BY <1>1, <1>2 DEF UniverseNext, universeVars, DatePasses, CompanyFiles, BeginScreening,
                    CollectReference, CollectFromSec, SecOutage, ScreeningAborts

\* The universe is type correct, for any screeners, policies and assets: no cycle is dated
\* after the present, and a report is of a policy of the program and picks from its
\* candidates (asset_universe.py).
THEOREM UniverseTypeCorrect == UniverseSpec => []UniverseTypeOK
<1>1. UniverseInit => PoliciesKnown
  BY DEF UniverseInit, PoliciesKnown
<1>2. UniverseInv /\ PoliciesKnown => UniverseTypeOK
  <2>1. SUFFICES ASSUME UniverseInv, PoliciesKnown PROVE UniverseTypeOK
    OBVIOUS
  <2>2. ASSUME NEW c \in Screeners
        PROVE  screening[c].at <= date /\ screening[c].policy <= Len(PolicyOrder)
    <3>1. CASE screening[c] = NoScreening
      <4>1. screening[c].policy = 0 /\ Len(PolicyOrder) \in Nat
        BY <3>1, UniverseAssumption DEF NoScreening
      <4>2. QED
        BY <2>1, <4>1 DEF UniverseInv, OnItsWay
    <3>2. CASE screening[c] # NoScreening
      BY <2>1, <3>2, UniverseAssumption DEF UniverseInv, OnItsWay
    <3>3. QED
      BY <3>1, <3>2
  <2>3. \A i \in DOMAIN reports : reports[i].picked \subseteq ToSet(Assets)
    BY <2>1, RowTypes DEF UniverseInv
  <2>4. QED
    BY <2>1, <2>2, <2>3 DEF UniverseInv, UniverseTypes, PoliciesKnown, UniverseTypeOK
<1>3. QED
  BY <1>1, <1>2, UniverseInvHolds, PoliciesStep, PTL DEF UniverseSpec

\* Of the reports of a policy one is newer than all the others.
ReportsOf(policy) == {i \in DOMAIN reports : reports[i].policy = policy}

\* The report that is read for a policy is the newest of its reports.
NewestReports ==
    \A policy : LET i == ReportFor(policy)
                IN  i # 0 => /\ i \in ReportsOf(policy)
                             /\ \A j \in ReportsOf(policy) \ {i} : Newer(i, j)

\* CHOOSE finds it: times are bounded, and of equal times the first row wins.
LEMMA NewestExists ==
    ASSUME UniverseInv
    PROVE  NewestReports
<1> SUFFICES ASSUME NEW policy, ReportsOf(policy) # {}
             PROVE  \E i \in ReportsOf(policy) : \A j \in ReportsOf(policy) \ {i} : Newer(i, j)
  BY DEF NewestReports, ReportFor, ReportsOf
<1> DEFINE mine == ReportsOf(policy)
           times == {reports[i].at : i \in mine}
           latest == {i \in mine : reports[i].at = Max(times)}
<1>1. Len(reports) \in Nat /\ mine \subseteq 1..Len(reports) /\ date \in Nat
  BY DEF UniverseInv, UniverseTypes, ReportsOf
<1>2. \A i \in mine : reports[i].at \in 0..date
  BY <1>1, RowTypes DEF UniverseInv, OnItsWay, ReportsOf
<1>3. times \in SUBSET (0..date) /\ times # {}
  BY <1>2
<1>4. Max(times) \in times /\ \A t \in times : t <= Max(times)
  BY <1>1, <1>3, GreatestNatural
<1>5. latest \in SUBSET (0..Len(reports)) /\ latest # {}
  <2>1. PICK i \in mine : reports[i].at = Max(times)
    BY <1>4
  <2>2. latest # {} /\ latest \subseteq mine
    BY <2>1
  <2>3. mine \subseteq 0..Len(reports)
    BY <1>1
  <2> HIDE DEF times, mine, latest
  <2>4. QED
    BY <2>2, <2>3
<1>6. Min(latest) \in latest /\ \A i \in latest : Min(latest) <= i
  <2> HIDE DEF times, mine, latest
  <2>1. latest \subseteq Nat
    BY <1>1, <1>5
  <2>2. QED
    BY <1>5, <2>1, LeastNatural
<1>7. ASSUME NEW j \in mine \ {Min(latest)} PROVE Newer(Min(latest), j)
  <2>1. reports[Min(latest)].at = Max(times) /\ reports[j].at <= Max(times)
    BY <1>4, <1>6
  <2>2. reports[j].at \in Nat /\ Max(times) \in Nat /\ j \in Nat /\ Min(latest) \in Nat
    BY <1>1, <1>2, <1>4, <1>5, <1>6
  <2>3. reports[j].at = Max(times) => Min(latest) <= j
    BY <1>6
  <2>4. reports[Min(latest)].policy = reports[j].policy
    BY <1>6 DEF ReportsOf
  <2> HIDE DEF latest, times
  <2>5. QED
    BY <2>1, <2>2, <2>3, <2>4 DEF Newer
<1>8. QED
  BY <1>6, <1>7

\* A strategy on recommendations works on a symbol outside the watchlist only if a
\* dated reference or a filing of that very company was large and recent enough when
\* the report was evaluated, for any screeners, candidates, policies and page of
\* reports (universe.py run_cycle, company_size, recommendations_from_reports).
THEOREM AssignedByEvidence == UniverseSpec => []AssignedOnEvidence
<1>1. UniverseInv => AssignedOnEvidence
  <2> SUFFICES ASSUME UniverseInv, NEW k \in DOMAIN PolicyOrder,
                      NEW s \in Assigned(ReportFor(PolicyOrder[k])) \ Watchlist
               PROVE  Evidenced(s, reports[ReportFor(PolicyOrder[k])].at)
    BY DEF AssignedOnEvidence, Evidenced
  <2> DEFINE i == ReportFor(PolicyOrder[k])
  <2>1. i # 0 /\ s \in reports[i].picked
    BY DEF Assigned
  <2>2. i \in DOMAIN reports
    BY <2>1, NewestExists DEF NewestReports, ReportsOf
  <2>3. QED
    BY <2>1, <2>2 DEF UniverseInv, SizedOnEvidence
<1>2. QED
  BY <1>1, UniverseInitInv, UniverseNextInv, PTL DEF UniverseSpec

\* The lab never goes back to an older evaluation of a policy while it finds one,
\* whatever order the cycles write their reports in (recommendations_from_reports).
THEOREM ReportsMoveForward == UniverseSpec => NeverOlderReport
<1> DEFINE Step == Len(reports') > Len(reports) =>
                     \A k \in DOMAIN PolicyOrder :
                        LET i == ReportFor(PolicyOrder[k])
                            j == ReportFor(PolicyOrder[k])'
                        IN  i # 0 /\ j # 0 => reports'[j].at >= reports[i].at
<1>1. UniverseInv /\ UniverseInv' /\ NewestReports /\ NewestReports' /\ [UniverseNext]_universeVars
        => [Step]_reports
  <2> SUFFICES ASSUME UniverseInv, UniverseInv', NewestReports, NewestReports',
                      [UniverseNext]_universeVars,
                      Len(reports') > Len(reports),
                      NEW k \in DOMAIN PolicyOrder,
                      ReportFor(PolicyOrder[k]) # 0, ReportFor(PolicyOrder[k])' # 0
               PROVE  reports'[ReportFor(PolicyOrder[k])'].at
                        >= reports[ReportFor(PolicyOrder[k])].at
    OBVIOUS
  <2> DEFINE policy == PolicyOrder[k]
  <2> PICK i : i = ReportFor(policy)
    OBVIOUS
  <2> PICK j : j = ReportFor(policy)'
    OBVIOUS
  <2>1. i \in ReportsOf(policy)
    BY DEF NewestReports
  <2>2. j \in ReportsOf(policy)' /\ \A n \in ReportsOf(policy)' \ {j} : Newer(j, n)'
    BY DEF NewestReports
  <2>3. i \in DOMAIN reports' /\ reports'[i] = reports[i]
    <3>1. reports' # reports
      OBVIOUS
    <3>2. PICK c \in Screeners : RecordReport(c)
      BY <3>1 DEF UniverseNext, universeVars, DatePasses, CompanyFiles, BeginScreening,
                  CollectReference, CollectFromSec, SecOutage, ScreeningAborts
    <3>3. PICK row : reports' = Append(reports, row)
      BY <3>2 DEF RecordReport
    <3>4. reports \in Seq(Rows) /\ i \in 1..Len(reports)
      BY <2>1 DEF UniverseInv, UniverseTypes, ReportsOf
    <3>5. QED
      BY <3>3, <3>4
  <2>4. i \in ReportsOf(policy)'
    BY <2>1, <2>3 DEF ReportsOf
  <2>5. reports'[j].at \in Nat /\ reports[i].at \in Nat
    <3>1. reports \in Seq(Rows) /\ reports' \in Seq(Rows)
      BY DEF UniverseInv, UniverseTypes
    <3>2. i \in DOMAIN reports /\ j \in DOMAIN reports'
      BY <2>1, <2>2 DEF ReportsOf
    <3>3. reports[i] \in Rows /\ reports'[j] \in Rows
      BY <3>1, <3>2
    <3>4. QED
      BY <3>3 DEF Rows
  <2>6. CASE j = i
    BY <2>3, <2>5, <2>6
  <2>7. CASE j # i
    <3>1. Newer(j, i)'
      BY <2>2, <2>4, <2>7
    <3>2. reports'[j].at > reports'[i].at \/ reports'[j].at = reports'[i].at
      BY <3>1 DEF Newer
    <3>3. QED
      BY <2>3, <2>5, <3>2
  <2>8. QED
    BY <2>6, <2>7
<1>2. UniverseInv => NewestReports
  BY NewestExists
<1>3. QED
  BY <1>1, <1>2, UniverseInitInv, UniverseNextInv, PTL DEF UniverseSpec, NeverOlderReport
-----------------------------------------------------------------------------
(***************************************************************************)
(* OptionEvidence.  A closed trade stays closed, and a cycle that does not *)
(* know of the close began before it.  A policy exit found before the time *)
(* of its cycle rests on bars that do not change any more.                 *)
(***************************************************************************)
\* The rows of the evidence worker and what a cycle holds of them.
TradeRows == [state : {"none", "reviewed", "open", "closed"}, approved : Nat, closedAt : Nat]
EvidenceRows == [at : Nat, end : Nat, exit : Nat, quantity : Nat]
Rounds == [at : Nat, todo : SUBSET Packages, rows : UNION {[D -> TradeRows] : D \in SUBSET Packages}]

\* The types of the evidence worker.
EvidenceTypes ==
    /\ barTime \in 1..MaxBarTime
    /\ marks \in [Packages -> [1..MaxBarTime -> Marks]]
    /\ decided \in [Packages -> Nat]
    /\ observed \subseteq Packages
    /\ trades \in [Packages -> TradeRows]
    /\ evidence \in [Packages -> EvidenceRows]
    /\ round \in Rounds

\* Nothing is dated in the future, and no evidence after the cycle on its way.
NotInFuture ==
    /\ round.at <= barTime
    /\ \A p \in Packages :
          /\ evidence[p].at <= barTime /\ evidence[p].end <= barTime /\ evidence[p].exit <= barTime
          /\ round.todo # {} => evidence[p].at <= round.at

\* A package has been decided before it is observed, traded or evaluated.
DecidedFirst ==
    \A p \in Packages :
        trades[p] # NoTradeRow \/ p \in observed \/ p \in round.todo => decided[p] # 0

\* A close a cycle knows of is final; one it does not know of came after its begin.
ClosesKnown ==
    /\ \A p \in DOMAIN round.rows :
          round.rows[p].state = "closed" => trades[p] = round.rows[p]
    /\ \A p \in round.todo :
          trades[p].state = "closed" /\ p \notin crowded =>
            \/ p \in DOMAIN round.rows /\ round.rows[p].state = "closed"
            \/ round.at <= trades[p].closedAt

\* No evidence reaches beyond a close that is known, or was known in this cycle.
EvidenceWithinClose ==
    \A p \in Packages :
        /\ trades[p].state = "closed" /\ p \notin crowded =>
              evidence[p].end <= trades[p].closedAt /\ evidence[p].exit <= trades[p].closedAt
        /\ p \in round.todo /\ p \in DOMAIN round.rows /\ round.rows[p].state = "closed" =>
              evidence[p].exit <= round.rows[p].closedAt

\* The policy closes p at the bar b.
IsExit(p, b) == marks[p][b] # "gap" /\ (marks[p][b] = "limit" \/ b >= WindowFrom)

\* b is the first policy exit of p since its decision.
FirstExit(p, b) ==
    /\ decided[p] # 0 /\ decided[p] <= b /\ b <= MaxBarTime
    /\ IsExit(p, b)
    /\ \A c \in decided[p]..b - 1 : ~ IsExit(p, c)

\* An exit that the last observation could look back on is the first one.
ExitsFirst ==
    \A p \in Packages :
        evidence[p].exit # 0 /\ evidence[p].exit < evidence[p].at => FirstExit(p, evidence[p].exit)

\* The inductive invariant of OptionEvidence.
EvidenceInv ==
    /\ EvidenceTypes
    /\ NotInFuture
    /\ DecidedFirst
    /\ ClosesKnown
    /\ EvidenceWithinClose
    /\ ExitsFirst

\* Between cycles there is a time, no package to do and no row.
LEMMA NoRoundTypes ==
    NoRound \in Rounds /\ NoRound.at = 0 /\ NoRound.todo = {} /\ DOMAIN NoRound.rows = {}
<1> DEFINE empty == [p \in {} |-> NoTradeRow]
<1>1. empty \in [{} -> TradeRows] /\ DOMAIN empty = {}
  OBVIOUS
<1>2. empty \in UNION {[D -> TradeRows] : D \in SUBSET Packages}
  BY <1>1
<1>3. NoRound = [at |-> 0, todo |-> {}, rows |-> empty]
  BY DEF NoRound
<1> HIDE DEF empty
<1>4. QED
  BY <1>1, <1>2, <1>3 DEF Rounds

\* There are no packages and no evidence.
LEMMA EvidenceInitInv == EvidenceInit => EvidenceInv
<1> SUFFICES ASSUME EvidenceInit PROVE EvidenceInv
  OBVIOUS
<1> USE EvidenceAssumption DEF EvidenceInit
<1>1. NoRound \in Rounds /\ NoRound.at = 0 /\ NoRound.todo = {} /\ DOMAIN NoRound.rows = {}
  BY NoRoundTypes
<1>2. NoTradeRow \in TradeRows /\ NoTradeRow.state = "none"
  BY DEF NoTradeRow, TradeRows
<1>3. NoEvidence \in EvidenceRows /\ NoEvidence.at = 0 /\ NoEvidence.end = 0
      /\ NoEvidence.exit = 0
  BY DEF NoEvidence, EvidenceRows
<1>4. EvidenceTypes
  BY <1>1, <1>2, <1>3 DEF EvidenceTypes, Marks
<1>5. NotInFuture /\ DecidedFirst /\ ClosesKnown /\ EvidenceWithinClose /\ ExitsFirst
  BY <1>1, <1>2, <1>3 DEF NotInFuture, DecidedFirst, ClosesKnown, EvidenceWithinClose, ExitsFirst
<1>6. QED
  BY <1>4, <1>5 DEF EvidenceInv

\* The fields of a round, and of the rows it read.
LEMMA RoundTypes ==
    ASSUME EvidenceTypes
    PROVE  /\ round.at \in Nat /\ round.todo \subseteq Packages
           /\ DOMAIN round.rows \subseteq Packages
           /\ \A p \in DOMAIN round.rows : round.rows[p] \in TradeRows
BY DEF EvidenceTypes, Rounds

\* What an evaluation finds lies within the bars it asked for, and the exit is the first.
LEMMA PathBounds ==
    ASSUME EvidenceInv, NEW p \in round.todo
    PROVE  /\ EndOf(p) \in Nat /\ EndOf(p) <= round.at
           /\ PathEvidence(p) \in EvidenceRows
           /\ PathEvidence(p).at = round.at
           /\ PathEvidence(p).end <= EndOf(p) /\ PathEvidence(p).exit <= EndOf(p)
           /\ PathEvidence(p).exit # 0 => FirstExit(p, PathEvidence(p).exit)
           /\ \A b \in Nat : FirstExit(p, b) /\ b <= EndOf(p) => PathEvidence(p).exit = b
<1> USE EvidenceAssumption DEF EvidenceInv
<1>1. /\ p \in Packages /\ round.at \in Nat /\ round.at <= barTime
      /\ barTime \in Nat /\ barTime <= MaxBarTime /\ MaxBarTime \in Nat
      /\ decided[p] \in Nat /\ decided[p] # 0
      /\ WindowFrom \in Nat
  BY RoundTypes DEF EvidenceTypes, NotInFuture, DecidedFirst
<1>2. EndOf(p) \in Nat /\ EndOf(p) <= round.at
  <2>1. CASE p \in DOMAIN round.rows /\ round.rows[p].state = "closed"
    <3> DEFINE S == {round.at, round.rows[p].closedAt}
    <3>1. S \in SUBSET Nat /\ S # {}
      BY <1>1, <2>1, RoundTypes DEF TradeRows
    <3>2. Min(S) \in S /\ \A x \in S : Min(S) <= x
      BY <3>1, LeastNatural
    <3>3. QED
      BY <2>1, <3>1, <3>2 DEF EndOf
  <2>2. CASE ~ (p \in DOMAIN round.rows /\ round.rows[p].state = "closed")
    BY <1>1, <2>2 DEF EndOf
  <2>3. QED
    BY <2>1, <2>2
<1>3. /\ Points(p) \in SUBSET (0..EndOf(p)) /\ Points(p) \subseteq 1..MaxBarTime
      /\ \A b \in Nat : b \in Points(p) <=>
            decided[p] <= b /\ b <= EndOf(p) /\ marks[p][b] # "gap"
  BY <1>1, <1>2 DEF Points, BarsOf
<1>4. /\ PolicyExits(p) \subseteq Points(p)
      /\ \A b \in Nat : b \in PolicyExits(p) <=>
            decided[p] <= b /\ b <= EndOf(p) /\ IsExit(p, b)
  BY <1>3 DEF PolicyExits, Searched, IsExit
<1> DEFINE last == IF Points(p) = {} THEN 0 ELSE Max(Points(p))
           first == IF PolicyExits(p) = {} THEN 0 ELSE Min(PolicyExits(p))
<1>5. PathEvidence(p) = [at |-> round.at, end |-> last, exit |-> first, quantity |-> QuantityOf(p)]
  BY DEF PathEvidence
<1>6. last \in Nat /\ last <= EndOf(p)
  <2>1. CASE Points(p) # {}
    <3>1. Max(Points(p)) \in Points(p)
      BY <1>2, <1>3, <2>1, GreatestNatural
    <3>2. QED
      BY <1>2, <1>3, <2>1, <3>1
  <2>2. QED
    BY <1>2, <2>1
<1>7. PolicyExits(p) # {} =>
        Min(PolicyExits(p)) \in PolicyExits(p)
          /\ \A b \in PolicyExits(p) : Min(PolicyExits(p)) <= b
  <2>1. PolicyExits(p) \in SUBSET Nat
    BY <1>3, <1>4
  <2>2. QED
    BY <2>1, LeastNatural
<1>8. first \in Nat /\ first <= EndOf(p)
  BY <1>2, <1>3, <1>4, <1>7
<1>9. first # 0 => FirstExit(p, first)
  <2> SUFFICES ASSUME first # 0 PROVE FirstExit(p, first)
    OBVIOUS
  <2>1. first \in PolicyExits(p) /\ \A b \in PolicyExits(p) : first <= b
    BY <1>7
  <2>2. decided[p] <= first /\ first <= EndOf(p) /\ IsExit(p, first)
    BY <1>4, <1>8, <2>1
  <2> HIDE DEF first
  <2>3. \A c \in decided[p]..first - 1 : ~ IsExit(p, c)
    BY <1>1, <1>2, <1>4, <1>8, <2>1, <2>2
  <2>4. QED
    BY <1>1, <1>2, <1>8, <2>2, <2>3 DEF FirstExit
<1>10. ASSUME NEW b \in Nat, FirstExit(p, b), b <= EndOf(p) PROVE first = b
  <2>1. b \in PolicyExits(p)
    BY <1>4, <1>10 DEF FirstExit
  <2>2. first \in PolicyExits(p) /\ first <= b
    BY <1>7, <2>1
  <2>3. decided[p] <= first /\ IsExit(p, first)
    BY <1>4, <1>8, <2>2
  <2> HIDE DEF first
  <2>4. QED
    BY <1>1, <1>8, <1>10, <2>2, <2>3 DEF FirstExit
<1>11. QuantityOf(p) \in Nat
  BY RoundTypes DEF QuantityOf, TradeRows
<1> HIDE DEF first, last
<1>12. QED
  BY <1>1, <1>2, <1>5, <1>6, <1>8, <1>9, <1>10, <1>11 DEF EvidenceRows

\* Time passes.
LEMMA BarEndsInv == EvidenceInv /\ BarEnds => EvidenceInv'
<1> SUFFICES ASSUME EvidenceInv, BarEnds PROVE EvidenceInv'
  OBVIOUS
<1> USE EvidenceAssumption DEF EvidenceInv, BarEnds
<1>1. EvidenceTypes'
  BY DEF EvidenceTypes
<1>2. NotInFuture'
  <2>1. round.at \in Nat /\ barTime \in Nat
    BY RoundTypes DEF EvidenceTypes
  <2>2. \A p \in Packages : evidence[p] \in EvidenceRows
    BY DEF EvidenceTypes
  <2>3. QED
    BY <2>1, <2>2 DEF NotInFuture, EvidenceRows
<1>3. DecidedFirst' /\ ClosesKnown' /\ EvidenceWithinClose'
  BY DEF DecidedFirst, ClosesKnown, EvidenceWithinClose
<1>4. ExitsFirst'
  BY DEF ExitsFirst, FirstExit, IsExit
<1>5. QED
  BY <1>1, <1>2, <1>3, <1>4

\* Only the bar of the present changes: an exit before it stays the first.
LEMMA BarChangesInv ==
    ASSUME EvidenceInv, NEW p \in Packages, BarChanges(p)
    PROVE  EvidenceInv'
<1> USE EvidenceAssumption DEF EvidenceInv
<1> PICK k \in Marks : marks' = [marks EXCEPT ![p][barTime] = k]
  BY DEF BarChanges
<1>1. UNCHANGED <<barTime, decided, observed, trades, crowded, evidence, round>>
  BY DEF BarChanges
<1>2. EvidenceTypes'
  BY <1>1 DEF EvidenceTypes
<1>3. NotInFuture' /\ DecidedFirst' /\ ClosesKnown' /\ EvidenceWithinClose'
  BY <1>1 DEF NotInFuture, DecidedFirst, ClosesKnown, EvidenceWithinClose
<1>4. ASSUME NEW q \in Packages, evidence[q].exit # 0, evidence[q].exit < evidence[q].at
      PROVE  FirstExit(q, evidence[q].exit)'
  <2> PICK e : e = evidence[q].exit
    OBVIOUS
  <2>1. e \in Nat /\ e < barTime /\ barTime \in Nat /\ decided[q] \in Nat
    <3>1. evidence[q].at \in Nat /\ e \in Nat
      BY DEF EvidenceTypes, EvidenceRows
    <3>2. evidence[q].at <= barTime /\ barTime \in Nat
      BY DEF NotInFuture, EvidenceTypes
    <3>3. QED
      BY <1>4, <3>1, <3>2 DEF EvidenceTypes
  <2>2. FirstExit(q, e)
    BY <1>4 DEF ExitsFirst
  <2>3. \A b \in Nat : b <= e => marks'[q][b] = marks[q][b]
    BY <2>1 DEF EvidenceTypes
  <2>4. IsExit(q, e)'
    BY <2>1, <2>2, <2>3 DEF IsExit, FirstExit
  <2>5. \A c \in decided[q]..e - 1 : ~ IsExit(q, c)'
    BY <2>1, <2>2, <2>3 DEF IsExit, FirstExit
  <2>6. FirstExit(q, e)'
    BY <1>1, <2>2, <2>4, <2>5 DEF FirstExit
  <2>7. QED
    BY <1>1, <2>6
<1>5. ExitsFirst'
  BY <1>1, <1>4 DEF ExitsFirst
<1>6. QED
  BY <1>2, <1>3, <1>5

\* A package without a decision has no trade and no exit.
LEMMA DecideInv ==
    ASSUME EvidenceInv, NEW p \in Packages, DecidePackage(p)
    PROVE  EvidenceInv'
<1> USE EvidenceAssumption DEF EvidenceInv
<1>1. /\ UNCHANGED <<barTime, marks, crowded, evidence, round>>
      /\ decided[p] = 0 /\ decided' = [decided EXCEPT ![p] = barTime]
  BY DEF DecidePackage
<1>2. \/ observed' = observed \cup {p} /\ trades' = trades
      \/ trades' = [trades EXCEPT ![p].state = "reviewed"] /\ observed' = observed
  BY DEF DecidePackage
<1>3. trades[p].state = "none" /\ p \notin observed /\ p \notin round.todo
  BY <1>1 DEF DecidedFirst, NoTradeRow
<1>4. barTime \in Nat /\ barTime # 0
  BY DEF EvidenceTypes
<1>5. trades' \in [Packages -> TradeRows] /\ trades'[p].state # "closed"
      /\ \A q \in Packages \ {p} : trades'[q] = trades[q]
  <2>1. trades[p] \in TradeRows
    BY DEF EvidenceTypes
  <2>2. [trades[p] EXCEPT !.state = "reviewed"] \in TradeRows
    BY <2>1 DEF TradeRows
  <2>3. [trades[p] EXCEPT !.state = "reviewed"].state = "reviewed"
    BY <2>1 DEF TradeRows
  <2>4. trades \in [Packages -> TradeRows]
    BY DEF EvidenceTypes
  <2>5. CASE trades' = trades
    BY <1>3, <2>4, <2>5
  <2>6. CASE trades' = [trades EXCEPT ![p].state = "reviewed"]
    BY <2>2, <2>3, <2>4, <2>6
  <2>7. QED
    BY <1>2, <2>5, <2>6
<1>6. EvidenceTypes'
  BY <1>1, <1>2, <1>4, <1>5 DEF EvidenceTypes
<1>7. NotInFuture'
  BY <1>1 DEF NotInFuture
<1>8. DecidedFirst'
  BY <1>1, <1>2, <1>4, <1>5 DEF DecidedFirst, EvidenceTypes
<1>9. ClosesKnown'
  <2>1. \A q \in DOMAIN round.rows : round.rows[q].state = "closed" => q # p
    BY <1>3 DEF ClosesKnown
  <2>2. QED
    BY <1>1, <1>3, <1>5, <2>1, RoundTypes DEF ClosesKnown
<1>10. EvidenceWithinClose'
  BY <1>1, <1>5 DEF EvidenceWithinClose
<1>11. ExitsFirst'
  BY <1>1 DEF ExitsFirst, FirstExit, IsExit, EvidenceTypes
<1>12. QED
  BY <1>6, <1>7, <1>8, <1>9, <1>10, <1>11

\* A trade is opened or closed at present: its close is not before any evidence, nor
\* before the begin of the cycle on its way.
LEMMA TradeInv ==
    ASSUME EvidenceInv, NEW p \in Packages, ApprovePackage(p) \/ ClosePackage(p)
    PROVE  EvidenceInv'
<1> USE EvidenceAssumption DEF EvidenceInv
<1>1. UNCHANGED <<barTime, marks, decided, observed, crowded, evidence, round>>
  BY DEF ApprovePackage, ClosePackage
<1>2. trades[p].state # "closed" /\ decided[p] # 0
  BY DEF ApprovePackage, ClosePackage, DecidedFirst, NoTradeRow
<1>3. barTime \in Nat
  BY DEF EvidenceTypes
<1>4. /\ trades' \in [Packages -> TradeRows]
      /\ \A q \in Packages \ {p} : trades'[q] = trades[q]
      /\ trades'[p].state = "closed" => trades'[p].closedAt = barTime
  <2>1. trades[p] \in TradeRows
    BY DEF EvidenceTypes
  <2>2. CASE ApprovePackage(p)
    <3> PICK q \in Lots : trades' = [trades EXCEPT ![p].state = "open", ![p].approved = q]
      BY <2>2 DEF ApprovePackage
    <3>1. [trades[p] EXCEPT !.state = "open", !.approved = q] \in TradeRows
      BY <2>1 DEF TradeRows
    <3>2. QED
      BY <2>1, <3>1 DEF EvidenceTypes, TradeRows
  <2>3. CASE ClosePackage(p)
    <3>1. [trades[p] EXCEPT !.state = "closed", !.closedAt = barTime] \in TradeRows
      BY <1>3, <2>1 DEF TradeRows
    <3>2. QED
      BY <2>1, <2>3, <3>1 DEF EvidenceTypes, TradeRows, ClosePackage
  <2>4. QED
    BY <2>2, <2>3
<1>5. EvidenceTypes'
  BY <1>1, <1>4 DEF EvidenceTypes
<1>6. NotInFuture' /\ ExitsFirst'
  BY <1>1 DEF NotInFuture, ExitsFirst, FirstExit, IsExit
<1>7. DecidedFirst'
  BY <1>1, <1>2, <1>4 DEF DecidedFirst
<1>8. ClosesKnown'
  <2>1. \A q \in DOMAIN round.rows : round.rows[q].state = "closed" => q # p
    BY <1>2 DEF ClosesKnown
  <2>2. QED
    BY <1>1, <1>4, <2>1, RoundTypes DEF ClosesKnown, NotInFuture
<1>9. EvidenceWithinClose'
  BY <1>1, <1>4 DEF EvidenceWithinClose, NotInFuture
<1>10. QED
  BY <1>5, <1>6, <1>7, <1>8, <1>9

\* A row that left the page asks for less.
LEMMA CrowdOutInv ==
    ASSUME EvidenceInv, NEW p \in Packages, CrowdOut(p)
    PROVE  EvidenceInv'
<1>1. crowded' = crowded \cup {p}
      /\ UNCHANGED <<barTime, marks, decided, observed, trades, evidence, round>>
  BY DEF CrowdOut
<1>2. (EvidenceTypes /\ NotInFuture /\ DecidedFirst /\ ExitsFirst)'
  BY <1>1 DEF EvidenceInv, EvidenceTypes, NotInFuture, DecidedFirst, ExitsFirst, FirstExit, IsExit
<1>3. ClosesKnown' /\ EvidenceWithinClose'
  BY <1>1 DEF EvidenceInv, ClosesKnown, EvidenceWithinClose
<1>4. QED
  BY <1>2, <1>3 DEF EvidenceInv

\* A cycle reads the rows on the page: what it does not see closed is open.
LEMMA BeginRoundInv == EvidenceInv /\ BeginRound => EvidenceInv'
<1> SUFFICES ASSUME EvidenceInv, BeginRound PROVE EvidenceInv'
  OBVIOUS
<1> USE EvidenceAssumption DEF EvidenceInv
<1>1. UNCHANGED <<barTime, marks, decided, observed, trades, crowded, evidence>>
  BY DEF BeginRound
<1> PICK chosen \in SUBSET (observed \cup TradePage) :
      round' = [at |-> barTime, todo |-> chosen, rows |-> [p \in TradePage |-> trades[p]]]
  BY DEF BeginRound
<1> DEFINE page == [p \in TradePage |-> trades[p]]
<1>2. /\ TradePage \subseteq Packages
      /\ \A p \in TradePage : trades[p] \in TradeRows
      /\ \A p \in Packages : p \in TradePage <=> p \notin crowded /\ trades[p] # NoTradeRow
  BY DEF TradePage, EvidenceTypes
<1>3. page \in [TradePage -> TradeRows] /\ DOMAIN page = TradePage
      /\ \A p \in TradePage : page[p] = trades[p]
  BY <1>2
<1>4. chosen \subseteq Packages /\ \A p \in chosen : p \in observed \/ p \in TradePage
  <2>1. observed \subseteq Packages
    BY DEF EvidenceTypes
  <2>2. QED
    BY <1>2, <2>1
<1>5. round'.at = barTime /\ round'.todo = chosen /\ round'.rows = page
  OBVIOUS
<1>6. round' \in Rounds
  <2>1. barTime \in Nat
    BY DEF EvidenceTypes
  <2>2. page \in UNION {[D -> TradeRows] : D \in SUBSET Packages}
    BY <1>2, <1>3
  <2> HIDE DEF page
  <2>3. round' = [at |-> barTime, todo |-> chosen, rows |-> page]
    BY DEF page
  <2>4. QED
    BY <1>4, <2>1, <2>2, <2>3 DEF Rounds
<1> HIDE DEF page
<1>7. EvidenceTypes'
  BY <1>1, <1>6 DEF EvidenceTypes
<1>8. NotInFuture'
  BY <1>1, <1>5 DEF NotInFuture, EvidenceTypes
<1>9. DecidedFirst'
  BY <1>1, <1>2, <1>4, <1>5 DEF DecidedFirst
<1>10. ClosesKnown'
  <2>1. NoTradeRow.state = "none"
    BY DEF NoTradeRow
  <2>2. QED
    BY <1>1, <1>2, <1>3, <1>4, <1>5, <2>1 DEF ClosesKnown
<1>11. EvidenceWithinClose'
  BY <1>1, <1>2, <1>3, <1>5 DEF EvidenceWithinClose
<1>12. ExitsFirst'
  BY <1>1 DEF ExitsFirst, FirstExit, IsExit
<1>13. QED
  BY <1>7, <1>8, <1>9, <1>10, <1>11, <1>12

\* What the end of a package's turn, or of the cycle, does to the locals of the cycle.
RoundShrinks ==
    /\ round' \in Rounds
    /\ \/ round'.todo = {} /\ round'.at = 0 /\ DOMAIN round'.rows = {}
       \/ round'.at = round.at /\ round'.rows = round.rows /\ round'.todo \subseteq round.todo

\* Abandoning the cycle shrinks the round.
LEMMA AbandonShrinks == EvidenceTypes /\ round' = NoRound => RoundShrinks
BY NoRoundTypes DEF RoundShrinks

\* Going on to the next package does.
LEMMA TurnShrinks ==
    ASSUME EvidenceTypes, NEW p \in Packages,
           round' = IF round.todo = {p} THEN NoRound ELSE [round EXCEPT !.todo = @ \ {p}]
    PROVE  RoundShrinks /\ p \notin round'.todo
<1>1. CASE round.todo = {p}
  <2>1. round' = NoRound
    BY <1>1
  <2>2. QED
    BY <2>1, AbandonShrinks, NoRoundTypes
<1>2. CASE round.todo # {p}
  <2>1. round \in Rounds
    BY DEF EvidenceTypes
  <2>2. round' = [round EXCEPT !.todo = @ \ {p}]
    BY <1>2
  <2>3. round'.at = round.at /\ round'.rows = round.rows /\ round'.todo = round.todo \ {p}
    BY <2>1, <2>2 DEF Rounds
  <2>4. round' \in Rounds
    BY <2>1, <2>2 DEF Rounds
  <2>5. QED
    BY <2>3, <2>4 DEF RoundShrinks
<1>3. QED
  BY <1>1, <1>2

\* A cycle that gives up a package, or all of them, knows of no fewer closes of the rest.
LEMMA ShrinkInv ==
    ASSUME EvidenceInv, RoundShrinks,
           UNCHANGED <<barTime, marks, decided, observed, trades, crowded, evidence>>
    PROVE  EvidenceInv'
<1> USE DEF EvidenceInv
<1>1. EvidenceTypes'
  BY DEF EvidenceTypes, RoundShrinks
<1>2. round'.at \in Nat /\ round.at \in Nat /\ barTime \in Nat
  BY RoundTypes DEF RoundShrinks, Rounds, EvidenceTypes
<1>3. NotInFuture'
  BY <1>2 DEF NotInFuture, RoundShrinks
<1>4. DecidedFirst' /\ ClosesKnown' /\ EvidenceWithinClose'
  BY DEF DecidedFirst, ClosesKnown, EvidenceWithinClose, RoundShrinks
<1>5. ExitsFirst'
  BY DEF ExitsFirst, FirstExit, IsExit
<1>6. QED
  BY <1>1, <1>3, <1>4, <1>5

\* New evidence ends at a close the cycle knows of, and any other came after its begin.
LEMMA EvaluateInv ==
    ASSUME EvidenceInv, NEW p \in Packages, EvaluatePackage(p)
    PROVE  EvidenceInv'
<1> USE EvidenceAssumption DEF EvidenceInv
<1>1. /\ p \in round.todo /\ RoundShrinks /\ p \notin round'.todo
      /\ evidence' = [evidence EXCEPT ![p] = PathEvidence(p)]
      /\ UNCHANGED <<barTime, marks, decided, observed, trades, crowded>>
  BY TurnShrinks DEF EvaluatePackage, RecordEvidence
<1> PICK e \in EvidenceRows :
      /\ e = PathEvidence(p) /\ e.at = round.at
      /\ e.end <= EndOf(p) /\ e.exit <= EndOf(p)
      /\ e.exit # 0 => FirstExit(p, e.exit)
  BY <1>1, PathBounds
<1>2. e.at \in Nat /\ e.end \in Nat /\ e.exit \in Nat
      /\ EndOf(p) \in Nat /\ EndOf(p) <= round.at
      /\ round.at \in Nat /\ barTime \in Nat /\ round.at <= barTime
  <2>1. e.at \in Nat /\ e.end \in Nat /\ e.exit \in Nat
    BY DEF EvidenceRows
  <2>2. EndOf(p) \in Nat /\ EndOf(p) <= round.at
    BY <1>1, PathBounds
  <2>3. round.at \in Nat
    BY RoundTypes
  <2>4. barTime \in Nat /\ round.at <= barTime
    BY DEF NotInFuture, EvidenceTypes
  <2>5. QED
    BY <2>1, <2>2, <2>3, <2>4
<1>3. /\ evidence' \in [Packages -> EvidenceRows]
      /\ evidence'[p] = e /\ \A q \in Packages \ {p} : evidence'[q] = evidence[q]
  BY <1>1 DEF EvidenceTypes
<1>4. EvidenceTypes'
  BY <1>1, <1>3 DEF EvidenceTypes, RoundShrinks
<1>5. NotInFuture'
  <2>1. round'.at = 0 \/ round'.at = round.at
    BY <1>1 DEF RoundShrinks
  <2>2. round'.todo # {} => round'.at = round.at /\ round'.todo \subseteq round.todo
    BY <1>1 DEF RoundShrinks
  <2>3. round'.at <= barTime
    BY <1>2, <2>1
  <2>4. e.at <= barTime /\ e.end <= barTime /\ e.exit <= barTime /\ e.at <= round.at
    BY <1>2
  <2>5. QED
    BY <1>1, <1>3, <2>2, <2>3, <2>4 DEF NotInFuture
<1>6. DecidedFirst' /\ ClosesKnown'
  BY <1>1 DEF DecidedFirst, ClosesKnown, RoundShrinks
<1>7. EvidenceWithinClose'
  <2>1. ASSUME trades[p].state = "closed", p \notin crowded
        PROVE  e.end <= trades[p].closedAt /\ e.exit <= trades[p].closedAt
    <3>1. trades[p].closedAt \in Nat
      BY DEF EvidenceTypes, TradeRows
    <3>2. EndOf(p) <= trades[p].closedAt
      <4>1. CASE p \in DOMAIN round.rows /\ round.rows[p].state = "closed"
        <5> DEFINE S == {round.at, round.rows[p].closedAt}
        <5>1. round.rows[p] = trades[p]
          BY <4>1 DEF ClosesKnown
        <5>2. S \in SUBSET Nat /\ S # {}
          BY <1>2, <3>1, <5>1
        <5>3. Min(S) <= round.rows[p].closedAt
          BY <5>2, LeastNatural
        <5>4. QED
          BY <4>1, <5>1, <5>3 DEF EndOf
      <4>2. CASE ~ (p \in DOMAIN round.rows /\ round.rows[p].state = "closed")
        BY <1>1, <2>1, <4>2 DEF EndOf, ClosesKnown
      <4>3. QED
        BY <4>1, <4>2
    <3>3. QED
      BY <1>2, <3>1, <3>2
  <2>2. ASSUME NEW q \in Packages
        PROVE  trades[q].state = "closed" /\ q \notin crowded =>
                 evidence'[q].end <= trades[q].closedAt /\ evidence'[q].exit <= trades[q].closedAt
    BY <1>3, <2>1 DEF EvidenceWithinClose
  <2>3. ASSUME NEW q \in round'.todo, q \in DOMAIN round'.rows, round'.rows[q].state = "closed"
        PROVE  evidence'[q].exit <= round'.rows[q].closedAt
    <3>1. q # p /\ q \in round.todo /\ round'.rows = round.rows /\ q \in Packages
      BY <1>1, <2>3, RoundTypes DEF RoundShrinks
    <3>2. QED
      BY <1>3, <2>3, <3>1 DEF EvidenceWithinClose
  <2>4. QED
    BY <1>1, <2>2, <2>3 DEF EvidenceWithinClose
<1>8. ExitsFirst'
  BY <1>1, <1>3 DEF ExitsFirst, FirstExit, IsExit
<1>9. QED
  BY <1>4, <1>5, <1>6, <1>7, <1>8

\* Every step keeps the bounds and the exits.
LEMMA EvidenceNextInv == EvidenceInv /\ [EvidenceNext]_evidenceVars => EvidenceInv'
<1> SUFFICES ASSUME EvidenceInv, [EvidenceNext]_evidenceVars PROVE EvidenceInv'
  OBVIOUS
<1>1. CASE BarEnds
  BY <1>1, BarEndsInv
<1>2. CASE BeginRound
  BY <1>2, BeginRoundInv
<1>3. CASE RoundAborts
  BY <1>3, AbandonShrinks, ShrinkInv DEF RoundAborts, EvidenceInv
<1>4. ASSUME NEW p \in Packages, BarChanges(p) PROVE EvidenceInv'
  BY <1>4, BarChangesInv
<1>5. ASSUME NEW p \in Packages, DecidePackage(p) PROVE EvidenceInv'
  BY <1>5, DecideInv
<1>6. ASSUME NEW p \in Packages, ApprovePackage(p) \/ ClosePackage(p) PROVE EvidenceInv'
  BY <1>6, TradeInv
<1>7. ASSUME NEW p \in Packages, CrowdOut(p) PROVE EvidenceInv'
  BY <1>7, CrowdOutInv
<1>8. ASSUME NEW p \in Packages, EvaluatePackage(p) PROVE EvidenceInv'
  BY <1>8, EvaluateInv
<1>9. ASSUME NEW p \in Packages, PackageFails(p) PROVE EvidenceInv'
  BY <1>9, TurnShrinks, ShrinkInv DEF PackageFails, EvidenceInv
<1>10. CASE UNCHANGED evidenceVars
  BY <1>10 DEF evidenceVars, EvidenceInv, EvidenceTypes, NotInFuture, DecidedFirst, ClosesKnown,
                EvidenceWithinClose, ExitsFirst, FirstExit, IsExit
<1>11. QED
  BY <1>1, <1>2, <1>3, <1>4, <1>5, <1>6, <1>7, <1>8, <1>9, <1>10 DEF EvidenceNext

\* It holds of every behaviour.
LEMMA EvidenceInvHolds == EvidenceSpec => []EvidenceInv
BY EvidenceInitInv, EvidenceNextInv, PTL DEF EvidenceSpec

\* Quantities are approved ones, dates are past, and a cycle on its way has packages to do.
Approved == Lots \cup {0}
PastAndApproved ==
    /\ \A p \in Packages :
          /\ decided[p] <= barTime
          /\ trades[p].closedAt <= barTime /\ trades[p].approved \in Approved
          /\ evidence[p].quantity \in Approved \cup {1}
    /\ \A p \in DOMAIN round.rows : round.rows[p].approved \in Approved
RoundBusy == crowded \subseteq Packages /\ (round.todo = {} => round = NoRound)

\* A cycle ends with its last package.
LEMMA RoundBusyStep ==
    ASSUME EvidenceInv, RoundBusy, [EvidenceNext]_evidenceVars
    PROVE  RoundBusy'
<1>1. CASE UNCHANGED <<round, crowded>>
  BY <1>1 DEF RoundBusy
<1>2. CASE round' = NoRound /\ crowded' = crowded
  BY <1>2 DEF RoundBusy
<1>3. ASSUME NEW p \in Packages, CrowdOut(p) PROVE RoundBusy'
  BY <1>3 DEF CrowdOut, RoundBusy
<1>4. CASE BeginRound
  <2> DEFINE page == [p \in TradePage |-> trades[p]]
  <2>1. PICK chosen \in (SUBSET (observed \cup TradePage)) \ {{}} :
           round' = [at |-> barTime, todo |-> chosen, rows |-> page]
    BY <1>4 DEF BeginRound
  <2> HIDE DEF page
  <2>2. round'.todo = chosen /\ chosen # {}
    BY <2>1
  <2>3. QED
    BY <1>4, <2>2 DEF BeginRound, RoundBusy
<1>5. ASSUME NEW p \in Packages, EvaluatePackage(p) \/ PackageFails(p) PROVE RoundBusy'
  <2>1. /\ p \in round.todo /\ crowded' = crowded
        /\ round' = IF round.todo = {p} THEN NoRound ELSE [round EXCEPT !.todo = @ \ {p}]
    BY <1>5 DEF EvaluatePackage, PackageFails
  <2>2. CASE round.todo = {p}
    BY <1>2, <2>1, <2>2
  <2>3. CASE round.todo # {p}
    <3>1. round' = [round EXCEPT !.todo = @ \ {p}] /\ round \in Rounds
      BY <2>1, <2>3 DEF EvidenceInv, EvidenceTypes
    <3>2. round'.todo = round.todo \ {p}
      BY <3>1 DEF Rounds
    <3>3. QED
      BY <2>1, <2>3, <3>2 DEF RoundBusy
  <2>4. QED
    BY <2>2, <2>3
<1>6. QED
  BY <1>1, <1>2, <1>3, <1>4, <1>5
     DEF EvidenceNext, evidenceVars, BarEnds, BarChanges, DecidePackage, ApprovePackage,
         ClosePackage, RoundAborts

\* Only trades and the clock move what is dated, and an evaluation takes its quantity from
\* the row of its cycle.
LEMMA PastStep ==
    ASSUME EvidenceInv, PastAndApproved, [EvidenceNext]_evidenceVars
    PROVE  PastAndApproved'
<1> USE EvidenceAssumption
<1>1. /\ barTime \in Nat /\ Approved \subseteq Nat
      /\ \A p \in Packages :
            /\ decided[p] \in Nat /\ trades[p] \in TradeRows /\ evidence[p] \in EvidenceRows
            /\ trades[p].closedAt \in Nat
  BY DEF EvidenceInv, EvidenceTypes, TradeRows, Approved
<1>2. trades \in [Packages -> TradeRows] /\ evidence \in [Packages -> EvidenceRows]
      /\ decided \in [Packages -> Nat]
  BY DEF EvidenceInv, EvidenceTypes
<1>3. CASE UNCHANGED evidenceVars \/ (\E p \in Packages : BarChanges(p) \/ CrowdOut(p))
  BY <1>3 DEF evidenceVars, BarChanges, CrowdOut, PastAndApproved
<1>4. CASE BarEnds
  <2>1. /\ barTime' = barTime + 1
        /\ UNCHANGED <<decided, trades, evidence, round>>
    BY <1>4 DEF BarEnds
  <2>2. QED
    BY <1>1, <2>1 DEF PastAndApproved
<1>5. ASSUME NEW p \in Packages, DecidePackage(p) PROVE PastAndApproved'
  <2>1. /\ decided' = [decided EXCEPT ![p] = barTime]
        /\ UNCHANGED <<barTime, evidence, round>>
        /\ trades' = trades \/ trades' = [trades EXCEPT ![p].state = "reviewed"]
    BY <1>5 DEF DecidePackage
  <2>2. \A q \in Packages : trades'[q].closedAt = trades[q].closedAt
                            /\ trades'[q].approved = trades[q].approved
    <3>1. [trades[p] EXCEPT !.state = "reviewed"].closedAt = trades[p].closedAt
          /\ [trades[p] EXCEPT !.state = "reviewed"].approved = trades[p].approved
      BY <1>1 DEF TradeRows
    <3>2. QED
      BY <1>2, <2>1, <3>1
  <2>3. \A q \in Packages : decided'[q] <= barTime
    BY <1>1, <1>2, <2>1 DEF PastAndApproved
  <2>4. QED
    BY <2>1, <2>2, <2>3 DEF PastAndApproved
<1>6. ASSUME NEW p \in Packages, ApprovePackage(p) \/ ClosePackage(p) PROVE PastAndApproved'
  <2>1. UNCHANGED <<barTime, decided, evidence, round>>
    BY <1>6 DEF ApprovePackage, ClosePackage
  <2>2. \A q \in Packages : trades'[q].closedAt <= barTime /\ trades'[q].approved \in Approved
    <3>1. CASE ApprovePackage(p)
      <4> PICK l \in Lots : trades' = [trades EXCEPT ![p].state = "open", ![p].approved = l]
        BY <3>1 DEF ApprovePackage
      <4> DEFINE r == [trades[p] EXCEPT !.state = "open", !.approved = l]
      <4>1. r.closedAt = trades[p].closedAt /\ r.approved = l
        BY <1>1 DEF TradeRows
      <4>2. trades'[p] = r /\ \A q \in Packages : q # p => trades'[q] = trades[q]
        BY <1>2
      <4> HIDE DEF r
      <4>3. l \in Approved
        BY DEF Approved
      <4>4. \A q \in Packages : trades[q].closedAt <= barTime /\ trades[q].approved \in Approved
        BY DEF PastAndApproved
      <4>5. QED
        BY <4>1, <4>2, <4>3, <4>4
    <3>2. CASE ClosePackage(p)
      <4> DEFINE r == [trades[p] EXCEPT !.state = "closed", !.closedAt = barTime]
      <4>1. r.closedAt = barTime /\ r.approved = trades[p].approved
        BY <1>1 DEF TradeRows
      <4>2. trades'[p] = r /\ \A q \in Packages : q # p => trades'[q] = trades[q]
        BY <1>2, <3>2 DEF ClosePackage
      <4> HIDE DEF r
      <4>3. QED
        BY <1>1, <4>1, <4>2 DEF PastAndApproved
    <3>3. QED
      BY <1>6, <3>1, <3>2
  <2>3. QED
    BY <2>1, <2>2 DEF PastAndApproved
<1>7. CASE BeginRound
  <2>1. /\ UNCHANGED <<barTime, decided, trades, evidence>>
        /\ round'.rows = [p \in TradePage |-> trades[p]]
    BY <1>7 DEF BeginRound
  <2>2. TradePage \subseteq Packages
    BY DEF TradePage
  <2>3. QED
    BY <2>1, <2>2 DEF PastAndApproved
<1>8. ASSUME RoundShrinks, UNCHANGED <<barTime, decided, trades>>,
             \A p \in Packages : evidence'[p].quantity \in Approved \cup {1}
      PROVE  PastAndApproved'
  BY <1>8 DEF RoundShrinks, PastAndApproved
<1>9. CASE RoundAborts
  BY <1>8, <1>9, AbandonShrinks DEF RoundAborts, EvidenceInv, PastAndApproved
<1>10. ASSUME NEW p \in Packages, PackageFails(p) PROVE PastAndApproved'
  BY <1>8, <1>10, TurnShrinks DEF PackageFails, EvidenceInv, PastAndApproved
<1>11. ASSUME NEW p \in Packages, EvaluatePackage(p) PROVE PastAndApproved'
  <2>1. RoundShrinks /\ evidence' = [evidence EXCEPT ![p] = PathEvidence(p)]
        /\ UNCHANGED <<barTime, decided, trades>>
    BY <1>11, TurnShrinks DEF EvaluatePackage, RecordEvidence, EvidenceInv
  <2>2. PathEvidence(p).quantity = QuantityOf(p)
    BY DEF PathEvidence
  <2>3. QuantityOf(p) \in Approved \cup {1}
    BY DEF QuantityOf, PastAndApproved
  <2>4. \A q \in Packages : evidence'[q].quantity \in Approved \cup {1}
    BY <1>2, <2>1, <2>2, <2>3 DEF PastAndApproved
  <2>5. QED
    BY <1>8, <2>1, <2>4
<1>12. QED
  BY <1>3, <1>4, <1>5, <1>6, <1>7, <1>9, <1>10, <1>11 DEF EvidenceNext

\* The evidence worker is type correct, for any packages, lots and window: nothing it
\* stores is dated after the present, every quantity was approved or is the one lot of a
\* package without a trade, and a cycle on its way has a package left (option_evidence.py).
THEOREM EvidenceTypeCorrect == EvidenceSpec => []EvidenceTypeOK
<1>1. EvidenceInit => PastAndApproved /\ RoundBusy
  <2>1. SUFFICES ASSUME EvidenceInit PROVE PastAndApproved /\ RoundBusy
    OBVIOUS
  <2>2. NoTradeRow.closedAt = 0 /\ NoTradeRow.approved = 0 /\ NoEvidence.quantity = 0
        /\ DOMAIN NoRound.rows = {}
    BY NoRoundTypes DEF NoTradeRow, NoEvidence
  <2>3. QED
    BY <2>1, <2>2 DEF EvidenceInit, PastAndApproved, RoundBusy, Approved
<1>2. EvidenceInv /\ PastAndApproved /\ RoundBusy => EvidenceTypeOK
  <2>1. SUFFICES ASSUME EvidenceInv, PastAndApproved, RoundBusy PROVE EvidenceTypeOK
    OBVIOUS
  <2>2. barTime \in Nat /\ round.at \in Nat /\ round.todo \subseteq Packages
        /\ round.at <= barTime
    BY <2>1, RoundTypes DEF EvidenceInv, EvidenceTypes, NotInFuture
  <2>3. decided \in [Packages -> 0..barTime]
    BY <2>1, <2>2 DEF EvidenceInv, EvidenceTypes, PastAndApproved
  <2>4. trades \in [Packages -> [state : {"none", "reviewed", "open", "closed"},
                                 approved : Lots \cup {0}, closedAt : 0..barTime]]
    <3>1. trades \in [Packages -> TradeRows]
      BY <2>1 DEF EvidenceInv, EvidenceTypes
    <3>2. ASSUME NEW p \in Packages
          PROVE  trades[p] \in [state : {"none", "reviewed", "open", "closed"},
                                approved : Lots \cup {0}, closedAt : 0..barTime]
      <4>1. trades[p] \in TradeRows /\ trades[p].closedAt <= barTime
            /\ trades[p].approved \in Lots \cup {0}
        BY <2>1, <3>1 DEF PastAndApproved, Approved
      <4>2. QED
        BY <2>2, <4>1 DEF TradeRows
    <3>3. QED
      BY <3>1, <3>2
  <2>5. evidence \in [Packages -> [at : 0..barTime, end : 0..barTime, exit : 0..barTime,
                                   quantity : Lots \cup {0, 1}]]
    <3>1. evidence \in [Packages -> EvidenceRows]
      BY <2>1 DEF EvidenceInv, EvidenceTypes
    <3>2. ASSUME NEW p \in Packages
          PROVE  evidence[p] \in [at : 0..barTime, end : 0..barTime, exit : 0..barTime,
                                  quantity : Lots \cup {0, 1}]
      <4>1. /\ evidence[p] \in EvidenceRows /\ evidence[p].quantity \in Lots \cup {0, 1}
            /\ evidence[p].at <= barTime /\ evidence[p].end <= barTime
            /\ evidence[p].exit <= barTime
        BY <2>1, <3>1 DEF PastAndApproved, Approved, EvidenceInv, NotInFuture
      <4>2. QED
        BY <2>2, <4>1 DEF EvidenceRows
    <3>3. QED
      BY <3>1, <3>2
  <2>6. round = NoRound <=> round.todo = {}
    BY <2>1, NoRoundTypes DEF RoundBusy
  <2>7. round.at \in 0..barTime
    BY <2>2
  <2>8. QED
    BY <2>1, <2>2, <2>3, <2>4, <2>5, <2>6, <2>7
       DEF EvidenceInv, EvidenceTypes, RoundBusy, EvidenceTypeOK
<1>3. QED
  BY <1>1, <1>2, EvidenceInvHolds, RoundBusyStep, PastStep, PTL DEF EvidenceSpec

\* Evidence shown for a closed trade covers no bar after its close, for any packages,
\* quantities and window, whatever happens while a cycle is on its way (option_evidence.py
\* run_cycle).
THEOREM EvidenceEnds == EvidenceSpec => []EvidenceEndsAtClose
<1>1. EvidenceInv => EvidenceEndsAtClose
  BY DEF EvidenceInv, EvidenceWithinClose, EvidenceEndsAtClose
<1>2. QED
  BY <1>1, EvidenceInvHolds, PTL

\* A policy exit found on a finished bar is final: it is the first exit of the package,
\* the path searched next time still reaches it, and the bars up to it do not change
\* (option_evidence.py evaluate_option_package_path).
THEOREM ExitsStable == EvidenceSpec => PolicyExitStable
<1> DEFINE Step == \A p \in Packages :
                     evidence[p].exit # 0 /\ evidence[p].exit < evidence[p].at
                         => evidence'[p].exit = evidence[p].exit
<1>1. EvidenceInv /\ [EvidenceNext]_evidenceVars => [Step]_evidence
  <2> SUFFICES ASSUME EvidenceInv, [EvidenceNext]_evidenceVars, evidence' # evidence,
                      NEW p \in Packages, evidence[p].exit # 0, evidence[p].exit < evidence[p].at
               PROVE  evidence'[p].exit = evidence[p].exit
    OBVIOUS
  <2>1. PICK q \in Packages : EvaluatePackage(q)
    BY DEF EvidenceNext, evidenceVars, BarEnds, BarChanges, DecidePackage, ApprovePackage,
           ClosePackage, CrowdOut, BeginRound, PackageFails, RoundAborts
  <2>2. q \in round.todo /\ evidence' = [evidence EXCEPT ![q] = PathEvidence(q)]
    BY <2>1 DEF EvaluatePackage, RecordEvidence
  <2>3. evidence \in [Packages -> EvidenceRows]
    BY DEF EvidenceInv, EvidenceTypes
  <2>4. CASE q # p
    BY <2>2, <2>3, <2>4
  <2>5. CASE q = p
    <3> PICK e \in Nat : e = evidence[p].exit
      BY <2>3 DEF EvidenceRows
    <3>1. FirstExit(p, e)
      BY DEF EvidenceInv, ExitsFirst
    <3>2. e <= EndOf(p)
      <4>1. e < round.at /\ round.at \in Nat
        <5>1. evidence[p].at \in Nat /\ evidence[p].at <= round.at /\ round.at \in Nat
          BY <2>2, <2>3, <2>5, RoundTypes DEF EvidenceInv, NotInFuture, EvidenceRows
        <5>2. QED
          BY <5>1
      <4>2. CASE p \in DOMAIN round.rows /\ round.rows[p].state = "closed"
        <5> DEFINE S == {round.at, round.rows[p].closedAt}
        <5>1. round.rows[p].closedAt \in Nat /\ e <= round.rows[p].closedAt
          BY <2>2, <2>5, <4>2, RoundTypes DEF EvidenceInv, EvidenceWithinClose, TradeRows
        <5>2. S \in SUBSET Nat /\ S # {}
          BY <4>1, <5>1
        <5>3. Min(S) \in S
          BY <5>2, LeastNatural
        <5>4. QED
          BY <4>1, <4>2, <5>1, <5>3 DEF EndOf
      <4>3. CASE ~ (p \in DOMAIN round.rows /\ round.rows[p].state = "closed")
        BY <4>1, <4>3 DEF EndOf
      <4>4. QED
        BY <4>2, <4>3
    <3>3. PathEvidence(p).exit = e
      BY <2>2, <2>5, <3>1, <3>2, PathBounds
    <3>4. QED
      BY <2>2, <2>3, <2>5, <3>3
  <2>6. QED
    BY <2>4, <2>5
<1>2. QED
  BY <1>1, EvidenceInvHolds, PTL DEF EvidenceSpec, PolicyExitStable
=============================================================================
