------------------------------ MODULE OrderProofs ------------------------------
(***************************************************************************)
(* Two theorems about what an order may do.                                *)
(*                                                                         *)
(* EntrySizing: no entry is filled that was vetoed, not assessed, above    *)
(* what the strictest assessor allows or beyond the account's leverage,    *)
(* for any request, account, leverage and cost.  A veto leaves a reason    *)
(* (VetoesAreNoted); the group an assessor belongs to stays as strict as   *)
(* its answer, because min() and a product of percentages only go down     *)
(* (GroupsAreStrict); so the combined amount is cut as far (AmountIsCut),  *)
(* and the guard's room is the solution of the leverage inequality         *)
(* (RoomIsKept).                                                           *)
(*                                                                         *)
(* PaperMirror: no trade is sent to the broker twice, for any number of    *)
(* sessions, trades, lost answers and sessions that die.  Whoever has      *)
(* reserved a trade holds it alone (OneHolder) until the answer is         *)
(* written: the row says PENDING meanwhile, and a row once written is      *)
(* never "none" again, so that a trade whose holder died is looked at and  *)
(* left by everyone after.                                                 *)
(***************************************************************************)
EXTENDS EntrySizing, PaperMirror, SequenceTheorems, WellFoundedInduction, TLAPS

-----------------------------------------------------------------------------
(* EntrySizing: numbers *)

LEMMA LeastOf == ASSUME NEW T, T \subseteq Nat, T # {} PROVE \E x \in T : \A y \in T : x <= y
<1> DEFINE R == OpToRel(<, Nat)
<1>1. IsWellFoundedOn(R, Nat)
  BY NatLessThanWellFounded, Zenon
<1>2. \A a, b \in Nat : <<a, b>> \in R <=> a < b
  BY DEF OpToRel
<1> HIDE DEF R
<1>3. PICK x \in T : \A y \in T : ~(<<y, x>> \in R)
  BY <1>1, WFMin, Zenon
<1>4. ASSUME NEW y \in T PROVE x <= y
  <2>1. x \in Nat /\ y \in Nat
    OBVIOUS
  <2>2. ~(y < x)
    BY <1>2, <1>3, <2>1, Zenon
  <2> QED
    BY <2>1, <2>2
<1> QED
  BY <1>4

Percent == 0..100

LEMMA ScaledInRange ==
  ASSUME NEW score, NEW steps, NEW otherwise, NEW S, otherwise \in S,
         DOMAIN steps \subseteq Nat, NEW multipliers \in [DOMAIN steps -> S]
  PROVE  Scaled(score, steps, multipliers, otherwise) \in S
<1> DEFINE reached == {i \in DOMAIN steps : score >= steps[i]}
<1>1. CASE reached = {}
  BY <1>1 DEF Scaled
<1>2. CASE reached # {}
  <2>1. PICK m \in reached : \A y \in reached : m <= y
    BY <1>2, LeastOf
  <2>2. Min(reached) \in reached
    BY <2>1, Zenon DEF Min
  <2> HIDE DEF reached
  <2>3. multipliers[Min(reached)] \in S
    BY <2>2 DEF reached
  <2> QED
    BY <1>2, <2>3 DEF Scaled, reached
<1> QED
  BY <1>1, <1>2

LEMMA Threefold ==
  ASSUME NEW score, NEW a, NEW b, NEW c, NEW S, NEW x \in S, NEW y \in S, NEW z \in S, NEW o \in S
  PROVE  Scaled(score, <<a, b, c>>, <<x, y, z>>, o) \in S
<1>1. DOMAIN <<a, b, c>> = 1..3 /\ <<x, y, z>> \in [1..3 -> S]
  OBVIOUS
<1> QED
  BY <1>1, ScaledInRange

LEMMA Twofold ==
  ASSUME NEW score, NEW a, NEW b, NEW S, NEW x \in S, NEW y \in S, NEW o \in S
  PROVE  Scaled(score, <<a, b>>, <<x, y>>, o) \in S
<1>1. DOMAIN <<a, b>> = 1..2 /\ <<x, y>> \in [1..2 -> S]
  OBVIOUS
<1> QED
  BY <1>1, ScaledInRange

(* a percentage of an amount *)
LEMMA CutIsLess ==
  ASSUME NEW n \in Nat, NEW p \in Percent
  PROVE  Cut(n, p) \in Nat /\ Cut(n, p) <= n /\ 100 * Cut(n, p) <= n * p
<1>1. p \in Nat /\ p <= 100
  BY DEF Percent
<1>2. n * p \in Nat
  BY <1>1
<1>3. n * p <= n * 100
  <2>1. PICK d \in Nat : p + d = 100
    <3>1. 100 - p \in Nat /\ p + (100 - p) = 100
      BY <1>1
    <3> QED
      BY <3>1
  <2>2. n * p + n * d = n * (p + d) /\ n * d >= 0
    BY <1>1, <2>1
  <2> QED
    BY <1>2, <2>1, <2>2
<1> DEFINE m == n * p
<1>4. m \in Nat /\ m <= 100 * n
  BY <1>2, <1>3
<1> HIDE DEF m
<1>5. m \div 100 \in Nat /\ 100 * (m \div 100) <= m /\ m \div 100 <= n
  BY <1>4
<1> QED
  BY <1>5 DEF Cut, m

LEMMA LargerFactor == ASSUME NEW n \in Nat, NEW a \in Nat, NEW b \in Nat, a <= b PROVE n * a <= n * b
<1>1. PICK d \in Nat : a + d = b
  <2>1. b - a \in Nat /\ a + (b - a) = b
    OBVIOUS
  <2> QED
    BY <2>1
<1>2. n * b = n * a + n * d /\ n * d >= 0
  BY <1>1
<1> QED
  BY <1>2

LEMMA DivIsLess ==
  ASSUME NEW a \in Nat, NEW d \in Nat \ {0}
  PROVE  a \div d \in Nat /\ (a \div d) * d <= a
OBVIOUS

-----------------------------------------------------------------------------
(* every answer is a record of three percentages *)

InRange(x) == x.portfolio \in Percent /\ x.alpha \in Percent /\ x.factor \in Percent

LEMMA Shapes ==
  ASSUME NEW m \in Percent, NEW v
  PROVE  InRange(OfPortfolio(m, v)) /\ InRange(OfAlpha(m, v)) /\ InRange(OfFactor(m, v))
BY DEF InRange, OfPortfolio, OfAlpha, OfFactor, Neutral, Percent

LEMMA SmallNumbers ==
  /\ \A n \in {0, 20, 25, 40, 50, 55, 60, 65, 70, 75, 78, 80, 82, 85, 86, 90, 98, 100} : n \in Percent
  /\ Percent \subseteq Int
  /\ \A x, y \in Percent : Lower(x, y) \in Percent /\ Higher(x, y) \in Percent
<1>1. \A n \in {0, 20, 25, 40, 50, 55, 60, 65, 70, 75, 78, 80, 82, 85, 86, 90, 98, 100} : n \in Percent
  BY DEF Percent
<1>2. Percent \subseteq Int
  BY DEF Percent
<1>3. ASSUME NEW x \in Percent, NEW y \in Percent
      PROVE  Lower(x, y) \in {x, y} /\ Higher(x, y) \in {x, y}
  BY DEF Lower, Higher
<1> QED
  BY <1>1, <1>2, <1>3

LEMMA CutInRange == ASSUME NEW n \in Percent, NEW p \in Percent PROVE Cut(n, p) \in Percent
<1>1. n \in Nat /\ n <= 100
  BY DEF Percent
<1>2. Cut(n, p) \in Nat /\ Cut(n, p) <= n
  BY <1>1, CutIsLess
<1> QED
  BY <1>1, <1>2 DEF Percent

LEMMA PretradeInRange == \A x \in PretradeAnswers : InRange(x)
<1>1. ASSUME NEW risk, NEW news, NEW strategy
      PROVE  ExternalRisk(risk, news, strategy) \in Percent
  <2> DEFINE market == Scaled(risk, <<72, 52, 32>>, <<55, 70, 85>>, 100)
  <2>1. market \in {55, 70, 85, 100}
    <3> DEFINE S == {55, 70, 85, 100}
    <3>1. 55 \in S /\ 70 \in S /\ 85 \in S /\ 100 \in S
      OBVIOUS
    <3> HIDE DEF S
    <3>2. market \in S
      BY <3>1, Threefold
    <3> QED
      BY <3>2 DEF S
  <2>2. Higher(market - 10, 50) \in Percent /\ Higher(market - 5, 50) \in Percent
        /\ market \in Percent
    <3>1. Higher(market - 10, 50) \in {50, 60, 75, 90} /\ Higher(market - 5, 50) \in {50, 65, 80, 95}
      BY <2>1 DEF Higher
    <3> QED
      BY <2>1, <3>1 DEF Percent
  <2> HIDE DEF market
  <2>3. ExternalRisk(risk, news, strategy) \in {Higher(market - 10, 50), Higher(market - 5, 50), market}
    BY DEF ExternalRisk, market
  <2> QED
    BY <2>2, <2>3
<1>2. ASSUME NEW strategy, NEW trend, NEW vol PROVE RegimeAllocation(strategy, trend, vol) \in Percent
  BY SmallNumbers, ZenonT(30) DEF RegimeAllocation
<1>3. ASSUME NEW relative \in {-1, 0, 100}, NEW correlation
      PROVE  BatchMultiplier(relative, correlation) \in Percent
  <2> DEFINE base == IF relative < 0 THEN 25 ELSE 40 + Cut(60, relative)
             s == Scaled(correlation, <<90, 75>>, <<50, 75>>, 100)
  <2>1. base \in {25, 40, 100}
    <3>1. (60 * 0) \div 100 = 0 /\ (60 * 100) \div 100 = 60
      OBVIOUS
    <3> QED
      BY <3>1 DEF Cut
  <2>2. s \in Percent
    <3>1. 50 \in Percent /\ 75 \in Percent /\ 100 \in Percent
      BY DEF Percent
    <3> QED
      BY <3>1, Twofold
  <2> HIDE DEF base, s
  <2>3. base \in Percent
    BY <2>1, SmallNumbers
  <2>4. Cut(base, s) \in Percent
    BY <2>2, <2>3, CutInRange
  <2>5. BatchMultiplier(relative, correlation) = Higher(20, Cut(base, s))
    BY DEF BatchMultiplier, base, s
  <2>6. 20 \in Percent
    BY DEF Percent
  <2>7. Higher(20, Cut(base, s)) \in Percent
    BY <2>4, <2>6 DEF Higher
  <2> QED
    BY <2>5, <2>7
<1>4. ASSUME NEW score, NEW e \in Percent, NEW g \in Percent, NEW b \in Percent
      PROVE  InRange(PretradeRow(score, e, g, b))
  <2>1. Scaled(score, <<60, 30>>, <<50, 75>>, 100) \in Percent
    <3>1. 50 \in Percent /\ 75 \in Percent /\ 100 \in Percent
      BY DEF Percent
    <3> QED
      BY <3>1, Twofold
  <2>2. Lower(Lower(Scaled(score, <<60, 30>>, <<50, 75>>, 100), e), Lower(g, b)) \in Percent
    BY <2>1, SmallNumbers
  <2>3. InRange(OfPortfolio(Lower(Lower(Scaled(score, <<60, 30>>, <<50, 75>>, 100), e), Lower(g, b)),
                            IF score >= 60 THEN "BLOCK" ELSE "none"))
    BY <2>2, Shapes
  <2> QED
    BY <2>3 DEF PretradeRow
<1>5. SUFFICES ASSUME NEW score \in {0, 30, 60}, NEW risk \in {0, 32, 52, 72}, NEW news \in {0, 60},
                      NEW strategy \in Strategies,
                      NEW trend \in {"up", "down", "sideways", "unknown"}, NEW vol \in BOOLEAN,
                      NEW relative \in {-1, 0, 100}, NEW correlation \in {0, 75, 90}
               PROVE  InRange(PretradeRow(score, ExternalRisk(risk, news, strategy),
                                          RegimeAllocation(strategy, trend, vol),
                                          BatchMultiplier(relative, correlation)))
  BY SMTT(60) DEF PretradeAnswers
<1> DEFINE e == ExternalRisk(risk, news, strategy)
           g == RegimeAllocation(strategy, trend, vol)
           b == BatchMultiplier(relative, correlation)
<1>6. e \in Percent
  BY <1>1
<1>7. g \in Percent
  BY <1>2
<1>8. b \in Percent
  BY <1>3
<1> HIDE DEF e, g, b
<1>9. InRange(PretradeRow(score, e, g, b))
  BY <1>4, <1>6, <1>7, <1>8
<1> QED
  BY <1>9 DEF e, g, b

LEMMA GlobalInRange == \A x \in GlobalAnswers : InRange(x)
<1>1. ASSUME NEW s PROVE InRange(OfPortfolio(Scaled(s, <<75, 55, 30>>, <<40, 65, 85>>, 100), "none"))
  <2>1. 40 \in Percent /\ 65 \in Percent /\ 85 \in Percent /\ 100 \in Percent
    BY SmallNumbers
  <2>2. Scaled(s, <<75, 55, 30>>, <<40, 65, 85>>, 100) \in Percent
    BY <2>1, Threefold
  <2> QED
    BY <2>2, Shapes
<1> QED
  BY <1>1 DEF GlobalAnswers

LEMMA EvInRange == \A x \in EvAnswers : InRange(x)
<1>1. ASSUME NEW r, NEW w, NEW s PROVE InRange(TradeEv(r, w, s))
  <2>1. Scaled(s, <<45, 25, 10>>, <<100, 90, 80>>, 70) \in Percent
        /\ Scaled(r, <<50, 25, 10>>, <<100, 90, 80>>, 70) \in Percent
    <3>1. 100 \in Percent /\ 90 \in Percent /\ 80 \in Percent /\ 70 \in Percent
      BY SmallNumbers
    <3> QED
      BY <3>1, Threefold
  <2> QED
    BY <2>1, SmallNumbers DEF TradeEv, InRange
<1> QED
  BY <1>1 DEF EvAnswers

LEMMA HealthInRange ==
  (\A x \in StrategyAnswers : InRange(x)) /\ (\A x \in SymbolAnswers : InRange(x))
<1>1. ASSUME NEW n, NEW v, NEW l, NEW s, NEW p, NEW w \in {75, 80}
      PROVE  InRange(HealthRow(n, v, l, s, p, w))
  <2>1. InRange(OfAlpha(100, "none")) /\ InRange(OfAlpha(25, "PAUSE")) /\ InRange(OfAlpha(w, "none"))
        /\ InRange(OfAlpha(50, "SHADOW_ONLY"))
    BY SmallNumbers, Shapes
  <2> QED
    BY <2>1 DEF HealthRow
<1> QED
  BY <1>1 DEF StrategyAnswers, SymbolAnswers

LEMMA LiveInRange == \A x \in LiveAnswers : InRange(x)
<1>1. ASSUME NEW n \in {0, 5, 12, 30}, NEW s, NEW v PROVE InRange(LiveDeviation(n, s, v))
  <2> DEFINE suggested == Scaled(s, <<65, 40, 20>>, <<40, 65, 85>>, 100)
  <2>1. suggested \in {40, 65, 85, 100}
    <3> DEFINE S == {40, 65, 85, 100}
    <3>1. 40 \in S /\ 65 \in S /\ 85 \in S /\ 100 \in S
      OBVIOUS
    <3> HIDE DEF S
    <3>2. suggested \in S
      BY <3>1, Threefold
    <3> QED
      BY <3>2 DEF S
  <2>2. ForwardWeight(n) \in Percent
    <3>1. (65 * (12 - 5)) \div 25 = 18
      OBVIOUS
    <3>2. (65 * (5 - 5)) \div 25 = 0
      OBVIOUS
    <3>3. ForwardWeight(n) \in {0, 25, 43, 90}
      BY <3>1, <3>2 DEF ForwardWeight
    <3> QED
      BY <3>3 DEF Percent
  <2> HIDE DEF suggested
  <2>3. 100 - suggested \in Percent
    BY <2>1 DEF Percent
  <2>4. Cut(ForwardWeight(n), 100 - suggested) \in Percent
    BY <2>2, <2>3, CutInRange
  <2>5. 100 - Cut(ForwardWeight(n), 100 - suggested) \in Percent
    BY <2>4 DEF Percent
  <2>6. InRange(OfAlpha(25, "QUARANTINED"))
        /\ InRange(OfAlpha(100 - Cut(ForwardWeight(n), 100 - suggested), "none"))
    BY <2>5, SmallNumbers, Shapes
  <2> QED
    BY <2>6 DEF LiveDeviation, suggested
<1> QED
  BY <1>1 DEF LiveAnswers

LEMMA FactorsInRange ==
  /\ \A x \in MetaAnswers : InRange(x)
  /\ \A x \in QualityAnswers : InRange(x)
  /\ \A x \in ContextAnswers : InRange(x)
<1>1. ASSUME NEW s, NEW v PROVE InRange(OfFactor(Scaled(s, <<60, 50>>, <<100, 85>>, 60), v))
  <2>1. 60 \in Percent /\ 85 \in Percent /\ 100 \in Percent
    BY SmallNumbers
  <2>2. Scaled(s, <<60, 50>>, <<100, 85>>, 60) \in Percent
    BY <2>1, Twofold
  <2> QED
    BY <2>2, Shapes
<1>2. ASSUME NEW d \in {40, 85, 100}, NEW s
      PROVE  InRange(OfFactor(Lower(d, Scaled(s, <<80, 60, 40>>, <<40, 60, 85>>, 100)), "none"))
  <2>1. Scaled(s, <<80, 60, 40>>, <<40, 60, 85>>, 100) \in Percent
    BY Threefold, SmallNumbers
  <2>2. Lower(d, Scaled(s, <<80, 60, 40>>, <<40, 60, 85>>, 100)) \in Percent
    BY <2>1, SmallNumbers, ZenonT(30)
  <2> QED
    BY <2>2, Shapes
<1>3. ASSUME NEW s PROVE InRange(OfFactor(Scaled(s, <<70, 50, 30>>, <<55, 70, 85>>, 100), "none"))
  <2>1. 55 \in Percent /\ 70 \in Percent /\ 85 \in Percent /\ 100 \in Percent
    BY SmallNumbers
  <2>2. Scaled(s, <<70, 50, 30>>, <<55, 70, 85>>, 100) \in Percent
    BY <2>1, Threefold
  <2> QED
    BY <2>2, Shapes
<1> QED
  BY <1>1, <1>2, <1>3 DEF MetaAnswers, QualityAnswers, ContextAnswers

LEMMA AnswersInRange == ASSUME NEW a \in Layers, NEW x \in Answers[a] PROVE InRange(x)
BY PretradeInRange, GlobalInRange, EvInRange, HealthInRange, LiveInRange, FactorsInRange
DEF Layers, Assessors, Answers

-----------------------------------------------------------------------------
(* The steps after the assessors *)

Late == {"combine", "guard", "finalize", "fill", "filled", "cancelled"}

LEMMA LayersAre ==
  Layers = {"pretrade", "global", "ev", "strategy", "symbol", "live", "meta", "quality", "context"}
<1>1. DOMAIN Assessors = 1..9
  BY DEF Assessors
<1> QED
  BY <1>1 DEF Layers, Assessors

LEMMA Following == ASSUME NEW a \in Layers PROVE FollowedBy(a) \in Layers \union {"combine"}
<1> DEFINE i == CHOOSE j \in DOMAIN Assessors : Assessors[j] = a
<1>1. CASE i + 1 \in DOMAIN Assessors
  <2>1. Assessors[i + 1] \in Layers
    BY <1>1 DEF Layers
  <2> QED
    BY <1>1, <2>1 DEF FollowedBy
<1>2. CASE i + 1 \notin DOMAIN Assessors
  BY <1>2 DEF FollowedBy
<1> QED
  BY <1>1, <1>2

LEMMA MinOfFour ==
  ASSUME NEW a \in Percent, NEW b \in Percent, NEW c \in Percent, NEW d \in Percent
  PROVE  Min({a, b, c, d}) \in {a, b, c, d}
<1> DEFINE T == {a, b, c, d}
<1>1. T \subseteq Nat /\ T # {}
  BY DEF Percent
<1>2. PICK m \in T : \A y \in T : m <= y
  BY <1>1, LeastOf
<1> QED
  BY <1>2, Zenon DEF Min

(* one group of the entry is no more than the least that was answered *)
Strictest(e, least) == e.portfolio <= least \/ e.alpha <= least \/ e.factor <= least

LEMMA LeastIsInAGroup ==
  ASSUME NEW e, NEW f, NEW x, NEW least \in Percent,
         InRange(e), InRange(x), Strictest(e, least),
         f.portfolio = Lower(e.portfolio, x.portfolio), f.alpha = Lower(e.alpha, x.alpha),
         f.factor = Cut(e.factor, x.factor)
  PROVE  /\ InRange(f) /\ Min({least, x.portfolio, x.alpha, x.factor}) \in Percent
         /\ Strictest(f, Min({least, x.portfolio, x.alpha, x.factor}))
<1> DEFINE l == Min({least, x.portfolio, x.alpha, x.factor})
           k == Cut(e.factor, x.factor)
<1>1. /\ e.portfolio \in Percent /\ e.alpha \in Percent /\ e.factor \in Percent
      /\ x.portfolio \in Percent /\ x.alpha \in Percent /\ x.factor \in Percent
  BY DEF InRange
<1>2. l \in {least, x.portfolio, x.alpha, x.factor}
  BY <1>1, MinOfFour
<1>3. k \in Percent
  BY <1>1, CutInRange
<1>4. k <= e.factor /\ k <= x.factor
  <2>1. e.factor \in Nat /\ e.factor <= 100 /\ x.factor \in Nat
    BY <1>1 DEF Percent
  <2>2. k \in Nat /\ k <= e.factor /\ 100 * k <= e.factor * x.factor
    BY <1>1, <2>1, CutIsLess
  <2>3. x.factor * e.factor <= x.factor * 100
    BY <2>1, LargerFactor
  <2>4. e.factor * x.factor = x.factor * e.factor
    BY <2>1
  <2> HIDE DEF k
  <2> QED
    BY <2>1, <2>2, <2>3, <2>4
<1>5. f.portfolio \in Percent /\ f.portfolio <= e.portfolio /\ f.portfolio <= x.portfolio
  BY <1>1, SMTT(30) DEF Lower, Percent
<1>6. f.alpha \in Percent /\ f.alpha <= e.alpha /\ f.alpha <= x.alpha
  BY <1>1, SMTT(30) DEF Lower, Percent
<1> HIDE DEF k, l
<1>7. f.factor \in Percent /\ f.factor <= e.factor /\ f.factor <= x.factor
  BY <1>3, <1>4 DEF k
<1>8. l \in Percent
  BY <1>1, <1>2
<1>9. Strictest(f, l)
  <2>1. ASSUME l = least PROVE Strictest(f, l)
    <3>1. /\ e.portfolio \in Nat /\ e.alpha \in Nat /\ e.factor \in Nat /\ least \in Nat
          /\ f.portfolio \in Nat /\ f.alpha \in Nat /\ f.factor \in Nat
      BY <1>1, <1>5, <1>6, <1>7 DEF Percent
    <3>2. e.portfolio <= least \/ e.alpha <= least \/ e.factor <= least
      BY DEF Strictest
    <3>3. f.portfolio <= least \/ f.alpha <= least \/ f.factor <= least
      BY <1>5, <1>6, <1>7, <3>1, <3>2
    <3> QED
      BY <2>1, <3>3 DEF Strictest
  <2>2. ASSUME l # least PROVE Strictest(f, l)
    BY <1>2, <1>5, <1>6, <1>7, <2>2 DEF Strictest
  <2> QED
    BY <2>1, <2>2
<1>10. InRange(f)
  BY <1>5, <1>6, <1>7 DEF InRange
<1> QED
  BY <1>8, <1>9, <1>10 DEF l

LEMMA CombinedIsBounded ==
  ASSUME NEW e, InRange(e), NEW least \in Percent, Strictest(e, least), NEW n \in Nat
  PROVE  /\ Cut(Cut(Cut(n, e.portfolio), e.alpha), e.factor) \in Nat
         /\ 100 * Cut(Cut(Cut(n, e.portfolio), e.alpha), e.factor) <= n * least
<1> DEFINE p == e.portfolio
           a == e.alpha
           f == e.factor
           x == Cut(n, p)
           y == Cut(x, a)
           z == Cut(y, f)
<1>1. p \in Percent /\ a \in Percent /\ f \in Percent
  BY DEF InRange
<1>2. x \in Nat /\ x <= n /\ 100 * x <= n * p
  BY <1>1, CutIsLess
<1>3. y \in Nat /\ y <= x /\ 100 * y <= x * a
  BY <1>1, <1>2, CutIsLess
<1>4. z \in Nat /\ z <= y /\ 100 * z <= y * f
  BY <1>1, <1>3, CutIsLess
<1>5. p <= least \/ a <= least \/ f <= least
  BY DEF Strictest
<1> HIDE DEF p, a, f, x, y, z
<1>6. p \in Nat /\ a \in Nat /\ f \in Nat /\ least \in Nat
  BY <1>1 DEF Percent
<1>7. ASSUME p <= least PROVE 100 * z <= n * least
  <2>1. n * p <= n * least
    BY <1>6, <1>7, LargerFactor
  <2>2. n * p \in Nat /\ n * least \in Nat
    BY <1>6
  <2> QED
    BY <1>2, <1>3, <1>4, <2>1, <2>2
<1>8. ASSUME a <= least PROVE 100 * z <= n * least
  <2>1. x * a <= x * least
    BY <1>2, <1>6, <1>8, LargerFactor
  <2>2. least * x <= least * n
    BY <1>2, <1>6, LargerFactor
  <2>3. x * least = least * x /\ n * least = least * n
    BY <1>2, <1>6
  <2>4. x * a \in Nat /\ x * least \in Nat /\ n * least \in Nat
    BY <1>2, <1>6
  <2> QED
    BY <1>3, <1>4, <2>1, <2>2, <2>3, <2>4
<1>9. ASSUME f <= least PROVE 100 * z <= n * least
  <2>1. y * f <= y * least
    BY <1>3, <1>6, <1>9, LargerFactor
  <2>2. y <= n
    BY <1>2, <1>3
  <2>3. least * y <= least * n
    BY <1>3, <1>6, <2>2, LargerFactor
  <2>4. y * least = least * y /\ n * least = least * n
    BY <1>3, <1>6
  <2>5. y * f \in Nat /\ y * least \in Nat /\ n * least \in Nat
    BY <1>3, <1>6
  <2> QED
    BY <1>4, <2>1, <2>3, <2>4, <2>5
<1>10. z \in Nat /\ 100 * z <= n * least
  BY <1>4, <1>5, <1>7, <1>8, <1>9
<1> QED
  BY <1>10 DEF p, a, f, x, y, z

LEMMA RoomIsWithinTarget ==
  ASSUME SizingAssumption, account \in Accounts, NEW n \in Nat, n > 0, n <= CostAwareRoom
  PROVE  WithinTarget(n)
<1> DEFINE q == account.equity
           g == account.gross
           d == 10 * Rate + Target
           numer == Target * q - 10 * g
           s == Rate + 1
<1>1. q \in Nat /\ g \in Nat /\ Rate \in Nat /\ Rate > 0 /\ Target \in Nat /\ Leverage \in Nat
  BY DEF SizingAssumption
<1>2. LegacyRoom \in Int
  BY <1>1 DEF LegacyRoom, Higher
<1>3. ~(q = 0 \/ Target = 0 \/ numer < 0)
  BY DEF CostAwareRoom
<1>4. Target * q \in Nat /\ numer \in Nat /\ d \in Nat /\ d > 0 /\ s \in Nat
  BY <1>1, <1>3
<1>5. numer * s \in Nat
  BY <1>4
<1>6. (numer * s) \div d \in Nat /\ ((numer * s) \div d) * d <= numer * s
  BY <1>4, <1>5, DivIsLess
<1>7. CostAwareRoom = Lower(LegacyRoom, (numer * s) \div d)
  BY <1>3 DEF CostAwareRoom
<1> DEFINE room == (numer * s) \div d
<1> HIDE DEF room
<1>8. n <= room
  BY <1>2, <1>6, <1>7 DEF Lower, room
<1>9. n * d <= numer * s
  <2>1. room \in Nat /\ room * d <= numer * s
    BY <1>6 DEF room
  <2> HIDE DEF d, numer, s
  <2>2. d * n <= d * room
    BY <1>4, <1>8, <2>1, LargerFactor
  <2>3. d * n = n * d /\ d * room = room * d /\ d * n \in Nat /\ d * room \in Nat
    BY <1>4, <2>1
  <2> QED
    BY <1>5, <2>1, <2>2, <2>3
<1>10. n * d = 10 * (n * Rate) + Target * n
  BY <1>1
<1>11. numer * s = Target * (q * s) - 10 * (g * s)
  BY <1>1
<1>12. 10 * (n * Rate) + Target * n <= Target * (q * s) - 10 * (g * s)
  BY <1>9, <1>10, <1>11
<1> DEFINE G == g * s
           M == n * Rate
           E == q * s
<1>13. G \in Nat /\ M \in Nat /\ E \in Nat
  BY <1>1
<1>14. 10 * M + Target * n <= Target * E - 10 * G
  BY <1>12
<1> HIDE DEF G, M, E
<1>15. Target * (E - n) = Target * E - Target * n
  BY <1>1, <1>13
<1>16. Target * E \in Nat /\ Target * n \in Nat
  BY <1>1, <1>13
<1>17. 10 * (G + M) <= Target * (E - n)
  BY <1>13, <1>14, <1>15, <1>16
<1> QED
  BY <1>17 DEF WithinTarget, G, M, E

LEMMA LessIsWithinTarget ==
  ASSUME SizingAssumption, account \in Accounts, NEW n \in Nat, NEW m \in Nat, m <= n,
         WithinTarget(n)
  PROVE  WithinTarget(m)
<1> DEFINE E == account.equity * (Rate + 1)
           G == account.gross * (Rate + 1)
<1>1. E \in Nat /\ G \in Nat /\ Rate \in Nat /\ Target \in Nat
  BY DEF SizingAssumption
<1>2. 10 * (G + n * Rate) <= Target * (E - n)
  BY DEF WithinTarget
<1> HIDE DEF E, G
<1>3. Rate * m <= Rate * n /\ Target * m <= Target * n
  BY <1>1, LargerFactor
<1>4. Rate * m = m * Rate /\ Rate * n = n * Rate
  BY <1>1
<1>5. /\ Target * (E - n) = Target * E - Target * n
      /\ Target * (E - m) = Target * E - Target * m
  BY <1>1
<1>6. m * Rate \in Nat /\ n * Rate \in Nat /\ Target * m \in Nat /\ Target * n \in Nat
      /\ Target * E \in Nat
  BY <1>1
<1>7. 10 * (G + m * Rate) <= Target * (E - m)
  BY <1>1, <1>2, <1>3, <1>4, <1>5, <1>6
<1> QED
  BY <1>7 DEF WithinTarget, E, G

-----------------------------------------------------------------------------
(* The invariant *)

VetoesAreNoted == asked.veto = "yes" => entry.reasons # {}

GroupsAreStrict == layer \in Layers \union {"combine"} => Strictest(entry, asked.least)

AmountIsCut ==
  layer \in {"guard", "finalize"} /\ entry.reasons = {} => 100 * entry.amount <= request * asked.least

RoomIsKept ==
  layer = "finalize" /\ entry.reasons = {} /\ entry.amount > 0 => WithinTarget(entry.amount)

Admissible ==
  /\ asked.veto = "no" /\ entry.allowed = "yes"
  /\ 100 * entry.amount <= request * asked.least
  /\ WithinTarget(entry.amount)

OnlyAdmitted ==
  /\ layer \in {"fill", "filled"} /\ entry.amount > 0 => Admissible
  /\ layer = "filled" => entry.amount > 0

SizingInv ==
  /\ SizingTypeOK
  /\ VetoesAreNoted
  /\ GroupsAreStrict
  /\ AmountIsCut
  /\ RoomIsKept
  /\ OnlyAdmitted

Entries == [portfolio : 0..100, alpha : 0..100, factor : 0..100,
            reasons : SUBSET {"error", "blocked"}, amount : Nat, allowed : {"yes", "no"}]
Histories == [least : 0..100, veto : {"yes", "no"}]

LEMMA SizingInvInit == SizingInit => SizingInv
<1> SUFFICES ASSUME SizingInit PROVE SizingInv
  OBVIOUS
<1>1. request \in Nat /\ request \in Requests /\ account \in Accounts
  BY SizingAssumption DEF SizingInit, SizingAssumption
<1>2. Assessors[1] = "pretrade"
  BY DEF Assessors
<1>3. layer = (IF request = 0 THEN "finalize" ELSE "pretrade")
  BY <1>2 DEF SizingInit
<1>4. /\ entry = [portfolio |-> 100, alpha |-> 100, factor |-> 100, reasons |-> {},
                  amount |-> request, allowed |-> "no"]
      /\ asked = [least |-> 100, veto |-> "no"]
  BY DEF SizingInit, NoEntry
<1>5. entry \in Entries /\ asked \in Histories
  BY <1>1, <1>4 DEF Entries, Histories
<1>6. SizingTypeOK
  BY <1>1, <1>3, <1>5, LayersAre DEF SizingTypeOK, Entries, Histories
<1>7. VetoesAreNoted /\ GroupsAreStrict
  BY <1>4 DEF VetoesAreNoted, GroupsAreStrict, Strictest
<1>8. AmountIsCut /\ RoomIsKept
  BY <1>1, <1>3, <1>4 DEF AmountIsCut, RoomIsKept
<1>9. OnlyAdmitted
  BY <1>3 DEF OnlyAdmitted
<1> QED
  BY <1>6, <1>7, <1>8, <1>9 DEF SizingInv

LEMMA AnswersKeep ==
  ASSUME SizingInv, NEW a \in Layers, NEW x \in Answers[a], AssessorAnswers(a, x)
  PROVE  SizingInv'
<1>1. InRange(x)
  BY AnswersInRange
<1>2. entry \in Entries /\ asked \in Histories /\ account \in Accounts /\ request \in Requests
  BY DEF SizingInv, SizingTypeOK, Entries, Histories
<1>3. layer = a /\ Strictest(entry, asked.least) /\ InRange(entry) /\ asked.least \in Percent
  BY <1>2 DEF AssessorAnswers, SizingInv, GroupsAreStrict, InRange, Entries, Histories, Percent
<1> DEFINE rs == IF x.verdict = "none" THEN entry.reasons ELSE entry.reasons \union {"blocked"}
           l == Min({asked.least, x.portfolio, x.alpha, x.factor})
           vt == IF x.verdict = "none" THEN asked.veto ELSE "yes"
           pf == Lower(entry.portfolio, x.portfolio)
           al == Lower(entry.alpha, x.alpha)
           ft == Cut(entry.factor, x.factor)
<1>4. entry' = [portfolio |-> pf, alpha |-> al, factor |-> ft, reasons |-> rs,
                amount |-> entry.amount, allowed |-> entry.allowed]
  BY <1>2 DEF AssessorAnswers, Entries
<1>5. asked' = [least |-> l, veto |-> vt] /\ layer' = FollowedBy(a)
      /\ account' = account /\ request' = request
  BY DEF AssessorAnswers
<1> HIDE DEF rs, l, vt, pf, al, ft
<1>6. entry'.portfolio = pf /\ entry'.alpha = al /\ entry'.factor = ft
  BY <1>4
<1>7. InRange(entry') /\ l \in Percent /\ Strictest(entry', l)
  <2>1. /\ entry'.portfolio = Lower(entry.portfolio, x.portfolio)
        /\ entry'.alpha = Lower(entry.alpha, x.alpha)
        /\ entry'.factor = Cut(entry.factor, x.factor)
    BY <1>6 DEF pf, al, ft
  <2> QED
    BY <1>1, <1>3, <2>1, LeastIsInAGroup DEF l
<1>8. rs \in SUBSET {"error", "blocked"} /\ vt \in {"yes", "no"} /\ (vt = "yes" => rs # {})
  BY <1>2 DEF rs, vt, Entries, Histories, SizingInv, VetoesAreNoted
<1>9. entry' \in Entries /\ asked' \in Histories
  <2>1. pf \in 0..100 /\ al \in 0..100 /\ ft \in 0..100 /\ l \in 0..100
    BY <1>6, <1>7 DEF InRange, Percent
  <2>2. entry.amount \in Nat /\ entry.allowed \in {"yes", "no"}
    BY <1>2 DEF Entries
  <2> QED
    BY <1>4, <1>5, <1>8, <2>1, <2>2 DEF Entries, Histories
<1>10. layer' \in Layers \union {"combine"}
  BY <1>5, Following
<1>11. SizingTypeOK'
  BY <1>2, <1>5, <1>9, <1>10 DEF SizingTypeOK, Entries, Histories
<1>12. VetoesAreNoted'
  BY <1>4, <1>5, <1>8 DEF VetoesAreNoted
<1>13. GroupsAreStrict'
  BY <1>5, <1>7 DEF GroupsAreStrict
<1>14. layer' \notin {"guard", "finalize", "fill", "filled"}
  BY <1>10, LayersAre
<1>15. AmountIsCut' /\ RoomIsKept' /\ OnlyAdmitted'
  BY <1>14 DEF AmountIsCut, RoomIsKept, OnlyAdmitted
<1> QED
  BY <1>11, <1>12, <1>13, <1>15 DEF SizingInv

LEMMA RaisesKeep ==
  ASSUME SizingInv, NEW a \in Layers, AssessorRaises(a)
  PROVE  SizingInv'
<1>1. entry \in Entries /\ asked \in Histories /\ account \in Accounts /\ request \in Requests
  BY DEF SizingInv, SizingTypeOK, Entries, Histories
<1>2. layer = a /\ Strictest(entry, asked.least)
  BY DEF AssessorRaises, SizingInv, GroupsAreStrict
<1>3. /\ account' = account /\ request' = request
      /\ asked' = [least |-> asked.least, veto |-> "yes"]
  BY <1>1 DEF AssessorRaises, Histories
<1>4. PICK n \in Nat : entry' = [portfolio |-> entry.portfolio, alpha |-> entry.alpha,
                                 factor |-> entry.factor,
                                 reasons |-> entry.reasons \union {"error"},
                                 amount |-> n, allowed |-> entry.allowed]
  <2>1. entry.amount \in Nat /\ 0 \in Nat
    BY <1>1 DEF Entries
  <2>2. CASE a \in Unguarded
    BY <1>1, <2>1, <2>2 DEF AssessorRaises, Entries
  <2>3. CASE a \notin Unguarded
    BY <1>1, <2>1, <2>3 DEF AssessorRaises, Entries
  <2> QED
    BY <2>2, <2>3
<1>5. layer' \in Layers \union {"combine", "finalize"}
  BY Following DEF AssessorRaises
<1>6. entry'.reasons # {}
  BY <1>4
<1>7. entry' \in Entries /\ asked' \in Histories
  BY <1>1, <1>3, <1>4 DEF Entries, Histories
<1>8. SizingTypeOK'
  BY <1>1, <1>3, <1>5, <1>7 DEF SizingTypeOK, Entries, Histories
<1>9. VetoesAreNoted' /\ AmountIsCut' /\ RoomIsKept'
  BY <1>6 DEF VetoesAreNoted, AmountIsCut, RoomIsKept
<1>10. GroupsAreStrict'
  BY <1>2, <1>3, <1>4 DEF GroupsAreStrict, Strictest
<1>11. OnlyAdmitted'
  BY <1>5, LayersAre DEF OnlyAdmitted
<1> QED
  BY <1>8, <1>9, <1>10, <1>11 DEF SizingInv

LEMMA CombineKeeps == ASSUME SizingInv, Combine PROVE SizingInv'
<1>1. entry \in Entries /\ asked \in Histories /\ account \in Accounts /\ request \in Requests
  BY DEF SizingInv, SizingTypeOK, Entries, Histories
<1>2. Strictest(entry, asked.least) /\ InRange(entry) /\ asked.least \in Percent
  BY <1>1 DEF Combine, SizingInv, GroupsAreStrict, InRange, Entries, Histories, Percent
<1> DEFINE n == Cut(Cut(Cut(request, entry.portfolio), entry.alpha), entry.factor)
<1>3. /\ entry' = [portfolio |-> entry.portfolio, alpha |-> entry.alpha,
                   factor |-> entry.factor, reasons |-> entry.reasons,
                   amount |-> n, allowed |-> entry.allowed]
      /\ layer' = "guard" /\ account' = account /\ request' = request /\ asked' = asked
  BY <1>1 DEF Combine, Entries
<1>4. request \in Nat
  BY <1>1, SizingAssumption DEF SizingAssumption
<1>5. n \in Nat /\ 100 * n <= request * asked.least
  BY <1>2, <1>4, CombinedIsBounded
<1> HIDE DEF n
<1>6. entry' \in Entries
  BY <1>1, <1>3, <1>5 DEF Entries
<1>7. SizingTypeOK'
  BY <1>1, <1>3, <1>6 DEF SizingTypeOK, Entries, Histories
<1>8. VetoesAreNoted'
  BY <1>3 DEF VetoesAreNoted, SizingInv
<1>9. GroupsAreStrict' /\ RoomIsKept' /\ OnlyAdmitted'
  BY <1>3, LayersAre DEF GroupsAreStrict, RoomIsKept, OnlyAdmitted
<1>10. AmountIsCut'
  BY <1>3, <1>5 DEF AmountIsCut
<1> QED
  BY <1>7, <1>8, <1>9, <1>10 DEF SizingInv

LEMMA RoomIsANumber == ASSUME SizingAssumption, account \in Accounts PROVE CostAwareRoom \in Nat
<1> DEFINE numer == Target * account.equity - 10 * account.gross
           d == 10 * Rate + Target
           s == Rate + 1
<1>1. account.equity \in Nat /\ account.gross \in Nat /\ Rate \in Nat \ {0} /\ Target \in Nat
      /\ Leverage \in Nat
  BY DEF SizingAssumption
<1>2. LegacyRoom \in Nat
  BY <1>1 DEF LegacyRoom, Higher
<1>3. CASE account.equity = 0 \/ Target = 0 \/ numer < 0
  BY <1>3 DEF CostAwareRoom
<1>4. CASE ~(account.equity = 0 \/ Target = 0 \/ numer < 0)
  <2>1. numer \in Nat /\ s \in Nat /\ d \in Nat \ {0}
    BY <1>1, <1>4
  <2>2. CostAwareRoom = Lower(LegacyRoom, (numer * s) \div d)
    BY <1>4 DEF CostAwareRoom
  <2> HIDE DEF numer, s, d
  <2>3. numer * s \in Nat
    BY <2>1
  <2>4. (numer * s) \div d \in Nat
    BY <2>1, <2>3, DivIsLess
  <2> QED
    BY <1>2, <2>2, <2>4 DEF Lower
<1> QED
  BY <1>3, <1>4

LEMMA GuardKeeps == ASSUME SizingInv, LeverageGuard PROVE SizingInv'
<1>1. entry \in Entries /\ asked \in Histories /\ account \in Accounts /\ request \in Requests
  BY DEF SizingInv, SizingTypeOK, Entries, Histories
<1> DEFINE n == Lower(entry.amount, CostAwareRoom)
<1>2. /\ entry' = [portfolio |-> entry.portfolio, alpha |-> entry.alpha,
                   factor |-> entry.factor, reasons |-> entry.reasons,
                   amount |-> n, allowed |-> entry.allowed]
      /\ layer' = "finalize" /\ account' = account /\ request' = request /\ asked' = asked
  BY <1>1 DEF LeverageGuard, Entries
<1>3. entry.amount \in Nat /\ CostAwareRoom \in Nat
  BY <1>1, SizingAssumption, RoomIsANumber DEF Entries
<1>4. n \in Nat /\ n <= entry.amount /\ n <= CostAwareRoom
  BY <1>3 DEF Lower
<1> HIDE DEF n
<1>5. entry' \in Entries
  BY <1>1, <1>2, <1>4 DEF Entries
<1>6. SizingTypeOK'
  BY <1>1, <1>2, <1>5 DEF SizingTypeOK, Entries, Histories
<1>7. VetoesAreNoted'
  BY <1>2 DEF VetoesAreNoted, SizingInv
<1>8. GroupsAreStrict' /\ OnlyAdmitted'
  BY <1>2, LayersAre DEF GroupsAreStrict, OnlyAdmitted
<1>9. ASSUME entry.reasons = {} PROVE 100 * n <= request * asked.least
  <2>1. 100 * entry.amount <= request * asked.least
    BY <1>9 DEF LeverageGuard, SizingInv, AmountIsCut
  <2>2. request \in Nat /\ asked.least \in Nat
    BY <1>1, SizingAssumption DEF SizingAssumption, Histories
  <2>3. request * asked.least \in Nat
    BY <2>2
  <2> QED
    BY <1>3, <1>4, <2>1, <2>3
<1>10. AmountIsCut'
  BY <1>2, <1>9 DEF AmountIsCut
<1>11. ASSUME n > 0 PROVE WithinTarget(n)
  BY <1>1, <1>4, <1>11, SizingAssumption, RoomIsWithinTarget
<1>12. RoomIsKept'
  BY <1>2, <1>11 DEF RoomIsKept, WithinTarget
<1> QED
  BY <1>6, <1>7, <1>8, <1>10, <1>12 DEF SizingInv

LEMMA GuardRaisesKeeps == ASSUME SizingInv, GuardRaises PROVE SizingInv'
<1>1. entry \in Entries /\ asked \in Histories /\ account \in Accounts /\ request \in Requests
  BY DEF SizingInv, SizingTypeOK, Entries, Histories
<1>2. /\ entry' = [portfolio |-> entry.portfolio, alpha |-> entry.alpha,
                   factor |-> entry.factor, reasons |-> entry.reasons \union {"error"},
                   amount |-> entry.amount, allowed |-> entry.allowed]
      /\ asked' = [least |-> asked.least, veto |-> "yes"]
      /\ layer' = "finalize" /\ account' = account /\ request' = request
  BY <1>1 DEF GuardRaises, Entries, Histories
<1>3. entry' \in Entries /\ asked' \in Histories
  BY <1>1, <1>2 DEF Entries, Histories
<1>4. SizingTypeOK'
  BY <1>1, <1>2, <1>3 DEF SizingTypeOK, Entries, Histories
<1>5. entry'.reasons # {}
  BY <1>2
<1>6. VetoesAreNoted' /\ AmountIsCut' /\ RoomIsKept'
  BY <1>5 DEF VetoesAreNoted, AmountIsCut, RoomIsKept
<1>7. GroupsAreStrict' /\ OnlyAdmitted'
  BY <1>2, LayersAre DEF GroupsAreStrict, OnlyAdmitted
<1> QED
  BY <1>4, <1>6, <1>7 DEF SizingInv

LEMMA FinalizeKeeps == ASSUME SizingInv, FinalizeEntry PROVE SizingInv'
<1>1. entry \in Entries /\ asked \in Histories /\ account \in Accounts /\ request \in Requests
  BY DEF SizingInv, SizingTypeOK, Entries, Histories
<1>2. layer = "finalize" /\ layer' = "fill" /\ account' = account /\ request' = request
      /\ asked' = asked
  BY DEF FinalizeEntry
<1>3. CASE Admitted(entry)
  <2>1. entry' = [portfolio |-> entry.portfolio, alpha |-> entry.alpha,
                  factor |-> entry.factor, reasons |-> entry.reasons,
                  amount |-> entry.amount, allowed |-> "yes"]
    BY <1>1, <1>3 DEF FinalizeEntry, Entries
  <2>2. entry.reasons = {} /\ entry.amount > 0
    BY <1>3 DEF Admitted
  <2>3. asked.veto = "no"
    BY <1>1, <2>2 DEF SizingInv, VetoesAreNoted, Histories
  <2>4. 100 * entry.amount <= request * asked.least /\ WithinTarget(entry.amount)
    BY <1>2, <2>2 DEF SizingInv, AmountIsCut, RoomIsKept
  <2>5. Admissible'
    BY <1>2, <2>1, <2>3, <2>4 DEF Admissible, WithinTarget
  <2>6. entry' \in Entries
    BY <1>1, <2>1 DEF Entries
  <2>7. SizingTypeOK'
    BY <1>1, <1>2, <2>6 DEF SizingTypeOK, Entries, Histories
  <2>8. VetoesAreNoted'
    BY <1>2, <2>3 DEF VetoesAreNoted
  <2>9. GroupsAreStrict' /\ AmountIsCut' /\ RoomIsKept'
    BY <1>2, LayersAre DEF GroupsAreStrict, AmountIsCut, RoomIsKept
  <2>10. OnlyAdmitted'
    BY <1>2, <2>5 DEF OnlyAdmitted
  <2> QED
    BY <2>7, <2>8, <2>9, <2>10 DEF SizingInv
<1>4. CASE ~Admitted(entry)
  <2>1. entry' = [portfolio |-> entry.portfolio, alpha |-> entry.alpha,
                  factor |-> entry.factor, reasons |-> entry.reasons,
                  amount |-> 0, allowed |-> entry.allowed]
    BY <1>1, <1>4 DEF FinalizeEntry, Entries
  <2>2. entry' \in Entries
    BY <1>1, <2>1 DEF Entries
  <2>3. SizingTypeOK'
    BY <1>1, <1>2, <2>2 DEF SizingTypeOK, Entries, Histories
  <2>4. VetoesAreNoted'
    BY <1>2, <2>1 DEF VetoesAreNoted, SizingInv
  <2>5. GroupsAreStrict' /\ AmountIsCut' /\ RoomIsKept'
    BY <1>2, LayersAre DEF GroupsAreStrict, AmountIsCut, RoomIsKept
  <2>6. OnlyAdmitted'
    BY <1>2, <2>1 DEF OnlyAdmitted
  <2> QED
    BY <2>3, <2>4, <2>5, <2>6 DEF SizingInv
<1> QED
  BY <1>3, <1>4

LEMMA FillKeeps == ASSUME SizingInv, FillBuy PROVE SizingInv'
<1>1. entry \in Entries /\ asked \in Histories /\ account \in Accounts /\ request \in Requests
  BY DEF SizingInv, SizingTypeOK, Entries, Histories
<1> DEFINE n == Lower(entry.amount, LegacyRoom)
<1>2. /\ entry' = [portfolio |-> entry.portfolio, alpha |-> entry.alpha,
                   factor |-> entry.factor, reasons |-> entry.reasons,
                   amount |-> n, allowed |-> entry.allowed]
      /\ layer = "fill" /\ n > 0
      /\ layer' = "filled" /\ account' = account /\ request' = request /\ asked' = asked
  BY <1>1 DEF FillBuy, Entries
<1>3. entry.amount \in Nat /\ LegacyRoom \in Int
  <2>1. account.equity \in Nat /\ account.gross \in Nat /\ Leverage \in Nat
    BY <1>1, SizingAssumption DEF SizingAssumption
  <2>2. LegacyRoom \in Int
    BY <2>1 DEF LegacyRoom, Higher
  <2> QED
    BY <1>1, <2>2 DEF Entries
<1>4. n \in Nat /\ n <= entry.amount
  BY <1>2, <1>3 DEF Lower
<1>5. entry.amount > 0
  BY <1>2, <1>3, <1>4
<1>6. Admissible
  BY <1>2, <1>5 DEF SizingInv, OnlyAdmitted
<1> HIDE DEF n
<1>7. WithinTarget(n)
  BY <1>1, <1>3, <1>4, <1>6, SizingAssumption, LessIsWithinTarget DEF Admissible
<1>8. 100 * n <= request * asked.least
  <2>1. 100 * entry.amount <= request * asked.least
    BY <1>6 DEF Admissible
  <2>2. request \in Nat /\ asked.least \in Nat
    BY <1>1, SizingAssumption DEF SizingAssumption, Histories
  <2>3. request * asked.least \in Nat
    BY <2>2
  <2> QED
    BY <1>3, <1>4, <2>1, <2>3
<1>9. Admissible'
  BY <1>2, <1>6, <1>7, <1>8 DEF Admissible, WithinTarget
<1>10. entry' \in Entries
  BY <1>1, <1>2, <1>4 DEF Entries
<1>11. SizingTypeOK'
  BY <1>1, <1>2, <1>10 DEF SizingTypeOK, Entries, Histories
<1>12. VetoesAreNoted'
  BY <1>2 DEF VetoesAreNoted, SizingInv
<1>13. GroupsAreStrict' /\ AmountIsCut' /\ RoomIsKept'
  BY <1>2, LayersAre DEF GroupsAreStrict, AmountIsCut, RoomIsKept
<1>14. OnlyAdmitted'
  BY <1>2, <1>9 DEF OnlyAdmitted
<1> QED
  BY <1>11, <1>12, <1>13, <1>14 DEF SizingInv

LEMMA CancelKeeps == ASSUME SizingInv, CancelBuy PROVE SizingInv'
<1>1. layer' = "cancelled" /\ account' = account /\ request' = request /\ entry' = entry
      /\ asked' = asked
  BY DEF CancelBuy
<1>2. SizingTypeOK'
  BY <1>1 DEF SizingInv, SizingTypeOK
<1>3. VetoesAreNoted'
  BY <1>1 DEF SizingInv, VetoesAreNoted
<1>4. GroupsAreStrict' /\ AmountIsCut' /\ RoomIsKept' /\ OnlyAdmitted'
  BY <1>1, LayersAre DEF GroupsAreStrict, AmountIsCut, RoomIsKept, OnlyAdmitted
<1> QED
  BY <1>2, <1>3, <1>4 DEF SizingInv

LEMMA SizingInvNext == SizingInv /\ [SizingNext]_sizingVars => SizingInv'
<1> SUFFICES ASSUME SizingInv, [SizingNext]_sizingVars PROVE SizingInv'
  OBVIOUS
<1>1. CASE \E a \in Layers : \E x \in Answers[a] : AssessorAnswers(a, x)
  BY <1>1, AnswersKeep
<1>2. CASE \E a \in Layers : AssessorRaises(a)
  BY <1>2, RaisesKeep
<1>3. CASE Combine
  BY <1>3, CombineKeeps
<1>4. CASE LeverageGuard
  BY <1>4, GuardKeeps
<1>5. CASE GuardRaises
  BY <1>5, GuardRaisesKeeps
<1>6. CASE FinalizeEntry
  BY <1>6, FinalizeKeeps
<1>7. CASE FillBuy
  BY <1>7, FillKeeps
<1>8. CASE CancelBuy
  BY <1>8, CancelKeeps
<1>9. CASE UNCHANGED sizingVars
  BY <1>9 DEF sizingVars, SizingInv, SizingTypeOK, VetoesAreNoted, GroupsAreStrict, AmountIsCut,
              RoomIsKept, OnlyAdmitted, Admissible, WithinTarget
<1> QED
  BY <1>1, <1>2, <1>3, <1>4, <1>5, <1>6, <1>7, <1>8, <1>9 DEF SizingNext

LEMMA SizingInvHolds == SizingSpec => []SizingInv
BY SizingInvInit, SizingInvNext, PTL DEF SizingSpec

(* Every multiplier is a percentage and every amount a number, whatever    *)
(* the assessors answer (risk_sizing.active_entry_sizing).                 *)
THEOREM SizingTypeCorrect == SizingSpec => []SizingTypeOK
<1>1. SizingInv => SizingTypeOK
  BY DEF SizingInv
<1> QED
  BY <1>1, SizingInvHolds, PTL

(* For every requested amount, account and leverage, an entry that is      *)
(* filled was assessed by all, vetoed by none, is no more than the         *)
(* strictest of them allows, and leaves the account within its leverage    *)
(* once the costs are paid (entry_gate.py, leverage_guard.py).             *)
THEOREM FilledEntriesAreSafe == SizingSpec => []EntriesFailClosed
<1>1. SizingInv => EntriesFailClosed
  BY DEF SizingInv, OnlyAdmitted, Admissible, EntriesFailClosed
<1> QED
  BY <1>1, SizingInvHolds, PTL

-----------------------------------------------------------------------------
(* PaperMirror *)

Holds(x) == session[x].at \in {"send", "finish"}

AtARow ==
  \A x \in Sessions : session[x].at \in {"reserve", "send", "finish"} => session[x].rows # <<>>

HolderIsPending ==
  \A x \in Sessions : Holds(x) =>
    /\ event[Current(x)] = "PENDING"
    /\ session[x].at = "send" => requests[Current(x)] = 0
    /\ session[x].at = "finish" =>
         /\ session[x].answer # "none"
         /\ session[x].answer # "ERROR" => requests[Current(x)] = 1

OneHolder ==
  \A x, y \in Sessions : Holds(x) /\ Holds(y) /\ Current(x) = Current(y) => x = y

MirrorInv == MirrorTypeOK /\ AtARow /\ HolderIsPending /\ OneHolder /\ OneRequestPerTrade

Places == {"idle", "look", "reserve", "send", "finish"}
MirrorAnswers == {"none", "SUBMITTED", "SKIPPED_NO_POSITION", "ERROR"}
SessionRecords == [at : Places, rows : Seq(Trades), answer : MirrorAnswers]

LEMMA MirrorInvInit == MirrorInit => MirrorInv
<1> SUFFICES ASSUME MirrorInit PROVE MirrorInv
  OBVIOUS
<1> USE MirrorAssumption DEF MirrorAssumption, MirrorInit, Away
<1>1. <<>> \in Seq(Trades)
  OBVIOUS
<1>2. MirrorTypeOK
  BY <1>1 DEF MirrorTypeOK
<1>3. AtARow /\ HolderIsPending /\ OneHolder /\ OneRequestPerTrade
  BY DEF AtARow, HolderIsPending, OneHolder, Holds, OneRequestPerTrade, Trades
<1> QED
  BY <1>2, <1>3 DEF MirrorInv

(* the row a busy session is at, and the rows after it *)
LEMMA CurrentIsATrade ==
  ASSUME MirrorTypeOK, NEW x \in Sessions, session[x].rows # <<>>
  PROVE  Current(x) \in Trades /\ Tail(session[x].rows) \in Seq(Trades)
<1>1. session[x].rows \in Seq(Trades)
  BY DEF MirrorTypeOK
<1> QED
  BY <1>1 DEF Current

(* what a step of one session leaves of the others *)
LEMMA StepOfOne ==
  ASSUME MirrorTypeOK, NEW x \in Sessions, NEW rec \in SessionRecords, Step(x, rec)
  PROVE  /\ session' \in [Sessions -> SessionRecords]
         /\ session'[x] = rec
         /\ \A y \in Sessions : y # x => session'[y] = session[y]
BY DEF MirrorTypeOK, Step, SessionRecords, Places, MirrorAnswers

(* a step of one session that holds nothing afterwards, and that changes   *)
(* no request and no row of an event but its own                           *)
LEMMA LetsGo ==
  ASSUME MirrorInv, NEW x \in Sessions, NEW rec \in SessionRecords, Step(x, rec),
         rec.at \in {"idle", "look", "reserve"},
         rec.at = "reserve" => rec.rows # <<>>,
         UNCHANGED <<event, requests>>
  PROVE  /\ session' \in [Sessions -> SessionRecords]
         /\ AtARow' /\ HolderIsPending' /\ OneHolder' /\ OneRequestPerTrade'
<1> USE DEF MirrorInv
<1>1. /\ session' \in [Sessions -> SessionRecords]
      /\ session'[x] = rec
      /\ \A y \in Sessions : y # x => session'[y] = session[y]
  BY StepOfOne
<1>2. AtARow'
  BY <1>1 DEF AtARow
<1>3. HolderIsPending'
  BY <1>1 DEF HolderIsPending, Holds, Current
<1>4. OneHolder'
  BY <1>1 DEF OneHolder, Holds, Current
<1>5. OneRequestPerTrade'
  BY DEF OneRequestPerTrade
<1> QED
  BY <1>1, <1>2, <1>3, <1>4, <1>5

(* what the market, the sleeve and the dashboard's buttons do *)
LEMMA BesideTheSessions ==
  ASSUME MirrorInv, UNCHANGED <<event, session, requests, paper, lost>>,
         traded' \in 0..MaxTrades, slot' \in {"none", "enabled", "disabled"}
  PROVE  MirrorInv'
BY DEF MirrorInv, MirrorTypeOK, AtARow, HolderIsPending, Holds, Current, OneHolder,
       OneRequestPerTrade

LEMMA SkipRecord ==
  ASSUME MirrorTypeOK, NEW x \in Sessions, session[x].rows # <<>>
  PROVE  [at |-> "look", rows |-> Tail(session[x].rows), answer |-> "none"] \in SessionRecords
BY CurrentIsATrade DEF SessionRecords, Places, MirrorAnswers

LEMMA StartMirrorKeeps == ASSUME MirrorInv, NEW x \in Sessions, StartMirror(x) PROVE MirrorInv'
<1> DEFINE rec == [at |-> "look", rows |-> [t \in 1..traded |-> t], answer |-> "none"]
<1>1. traded \in 0..MaxTrades /\ MaxTrades \in Nat
  BY MirrorAssumption DEF MirrorInv, MirrorTypeOK, MirrorAssumption
<1>2. traded \in Nat /\ \A t \in 1..traded : t \in Trades
  BY <1>1 DEF Trades
<1>3. [t \in 1..traded |-> t] \in Seq(Trades)
  BY <1>2
<1>4. rec \in SessionRecords
  BY <1>3 DEF SessionRecords, Places, MirrorAnswers
<1>5. Step(x, rec) /\ UNCHANGED <<event, requests>>
  BY DEF StartMirror
<1>6. rec.at = "look"
  OBVIOUS
<1> HIDE DEF rec
<1>7. session' \in [Sessions -> SessionRecords] /\ AtARow' /\ HolderIsPending' /\ OneHolder'
      /\ OneRequestPerTrade'
  BY <1>4, <1>5, <1>6, LetsGo
<1>8. MirrorTypeOK'
  BY <1>7 DEF MirrorInv, MirrorTypeOK, StartMirror, SessionRecords, Places, MirrorAnswers
<1> QED
  BY <1>7, <1>8 DEF MirrorInv

(* the steps of a session that write nothing of it but where it is *)
LEMMA OnlyMoves ==
  ASSUME MirrorInv, NEW x \in Sessions, NEW rec \in SessionRecords, Step(x, rec),
         rec.at \in {"idle", "look", "reserve"},
         rec.at = "reserve" => rec.rows # <<>>,
         UNCHANGED <<traded, slot, event, requests, paper>>, lost' \in 0..MaxLost
  PROVE  MirrorInv'
<1>1. session' \in [Sessions -> SessionRecords] /\ AtARow' /\ HolderIsPending' /\ OneHolder'
      /\ OneRequestPerTrade'
  BY LetsGo
<1>2. MirrorTypeOK'
  BY <1>1 DEF MirrorInv, MirrorTypeOK, SessionRecords, Places, MirrorAnswers
<1> QED
  BY <1>1, <1>2 DEF MirrorInv

LEMMA LostStays == ASSUME MirrorInv PROVE lost \in 0..MaxLost
BY DEF MirrorInv, MirrorTypeOK

LEMMA FindEventKeeps == ASSUME MirrorInv, NEW x \in Sessions, FindEvent(x) PROVE MirrorInv'
<1> USE DEF FindEvent
<1>1. MirrorTypeOK /\ session[x].rows # <<>>
  BY DEF MirrorInv
<1>2. UNCHANGED <<traded, slot, event, requests, paper>> /\ lost' \in 0..MaxLost
  BY LostStays
<1>3. CASE event[Current(x)] # "none"
  <2> DEFINE rec == [at |-> "look", rows |-> Tail(session[x].rows), answer |-> "none"]
  <2>1. rec \in SessionRecords /\ rec.at = "look"
    BY <1>1, SkipRecord
  <2>2. Step(x, rec)
    BY <1>3 DEF Skip
  <2> HIDE DEF rec
  <2> QED
    BY <1>2, <2>1, <2>2, OnlyMoves
<1>4. CASE event[Current(x)] = "none"
  <2> DEFINE rec == [session[x] EXCEPT !.at = "reserve"]
  <2>1. session[x] \in SessionRecords
    BY <1>1 DEF MirrorTypeOK, SessionRecords, Places, MirrorAnswers
  <2>2. rec \in SessionRecords /\ rec.at = "reserve" /\ rec.rows # <<>>
    BY <1>1, <2>1 DEF SessionRecords, Places
  <2>3. Step(x, rec)
    BY <1>4
  <2> HIDE DEF rec
  <2> QED
    BY <1>2, <2>2, <2>3, OnlyMoves
<1> QED
  BY <1>3, <1>4

LEMMA EndMirrorKeeps == ASSUME MirrorInv, NEW x \in Sessions, EndMirror(x) PROVE MirrorInv'
<1>1. Away \in SessionRecords /\ Away.at = "idle"
  BY DEF Away, SessionRecords, Places, MirrorAnswers
<1>2. UNCHANGED <<traded, slot, event, requests, paper>> /\ lost' \in 0..MaxLost /\ Step(x, Away)
  BY LostStays DEF EndMirror
<1> QED
  BY <1>1, <1>2, OnlyMoves

LEMMA SessionDiesKeeps == ASSUME MirrorInv, NEW x \in Sessions, SessionDies(x) PROVE MirrorInv'
<1>1. Away \in SessionRecords /\ Away.at = "idle"
  BY DEF Away, SessionRecords, Places, MirrorAnswers
<1>2. UNCHANGED <<traded, slot, event, requests, paper>> /\ Step(x, Away)
  BY DEF SessionDies
<1>3. lost' \in 0..MaxLost
  BY LostStays, MirrorAssumption DEF SessionDies, MirrorAssumption
<1> QED
  BY <1>1, <1>2, <1>3, OnlyMoves

LEMMA ReserveEventKeeps == ASSUME MirrorInv, NEW x \in Sessions, ReserveEvent(x) PROVE MirrorInv'
<1> USE DEF ReserveEvent
<1>1. MirrorTypeOK /\ session[x].rows # <<>> /\ session[x].at = "reserve"
  BY DEF MirrorInv, AtARow
<1>2. session[x] \in SessionRecords
  BY <1>1 DEF MirrorTypeOK, SessionRecords, Places, MirrorAnswers
<1>3. CASE event[Current(x)] # "none"
  <2> DEFINE rec == [at |-> "look", rows |-> Tail(session[x].rows), answer |-> "none"]
  <2>1. rec \in SessionRecords /\ rec.at = "look"
    BY <1>1, SkipRecord
  <2>2. Step(x, rec) /\ UNCHANGED <<traded, slot, event, requests, paper>> /\ lost' \in 0..MaxLost
    BY <1>3, LostStays DEF Skip
  <2> HIDE DEF rec
  <2> QED
    BY <2>1, <2>2, OnlyMoves
<1>4. CASE event[Current(x)] = "none"
  <2> DEFINE rec == [session[x] EXCEPT !.at = "send"]
             c == Current(x)
  <2>1. c \in Trades
    BY <1>1, CurrentIsATrade
  <2>2. rec \in SessionRecords /\ rec.at = "send" /\ rec.rows = session[x].rows
    BY <1>2 DEF SessionRecords, Places
  <2>3. Step(x, rec) /\ event' = [event EXCEPT ![c] = "PENDING"]
        /\ UNCHANGED <<traded, slot, requests, paper, lost>>
    BY <1>4
  <2>4. event \in [Trades -> {"none", "PENDING", "SUBMITTED", "SKIPPED_NO_POSITION", "ERROR"}]
    BY <1>1 DEF MirrorTypeOK
  <2>5. event'[c] = "PENDING" /\ \A t \in Trades : t # c => event'[t] = event[t]
    BY <2>1, <2>3, <2>4
  <2>6. requests[c] = 0
    BY <1>4, <2>1 DEF MirrorInv, OneRequestPerTrade
  <2>7. \A y \in Sessions : Holds(y) => Current(y) # c /\ Current(y) \in Trades
    BY <1>1, <1>4, CurrentIsATrade DEF MirrorInv, HolderIsPending, Holds, AtARow
  <2> HIDE DEF rec
  <2>8. /\ session' \in [Sessions -> SessionRecords]
        /\ session'[x] = rec
        /\ \A y \in Sessions : y # x => session'[y] = session[y]
    BY <1>1, <2>2, <2>3, StepOfOne
  <2>9. Current(x)' = c /\ \A y \in Sessions : y # x => Current(y)' = Current(y)
    BY <2>2, <2>8 DEF Current
  <2>10. \A y \in Sessions : y # x => (Holds(y)' <=> Holds(y))
    BY <2>8 DEF Holds
  <2>11. MirrorTypeOK'
    BY <1>1, <2>3, <2>4, <2>8 DEF MirrorTypeOK, SessionRecords, Places, MirrorAnswers
  <2>12. AtARow'
    BY <1>1, <2>2, <2>8 DEF MirrorInv, AtARow
  <2>13. HolderIsPending'
    <3> SUFFICES ASSUME NEW y \in Sessions, Holds(y)'
                 PROVE  /\ event'[Current(y)'] = "PENDING"
                        /\ session'[y].at = "send" => requests'[Current(y)'] = 0
                        /\ session'[y].at = "finish" =>
                             /\ session'[y].answer # "none"
                             /\ session'[y].answer # "ERROR" => requests'[Current(y)'] = 1
      BY DEF HolderIsPending
    <3>1. CASE y = x
      BY <3>1, <2>2, <2>3, <2>5, <2>6, <2>8, <2>9
    <3>2. CASE y # x
      BY <3>2, <2>3, <2>5, <2>7, <2>8, <2>9, <2>10 DEF MirrorInv, HolderIsPending
    <3> QED
      BY <3>1, <3>2
  <2>14. OneHolder'
    BY <2>7, <2>9, <2>10 DEF MirrorInv, OneHolder
  <2>15. OneRequestPerTrade'
    BY <2>3, <2>5, <2>6 DEF MirrorInv, OneRequestPerTrade
  <2> QED
    BY <2>11, <2>12, <2>13, <2>14, <2>15 DEF MirrorInv
<1> QED
  BY <1>3, <1>4

(* what comes of the request, whether the broker has executed it or not *)
LEMMA HasAsked ==
  ASSUME MirrorInv, NEW x \in Sessions, session[x].at = "send",
         NEW answer \in MirrorAnswers \ {"none"},
         Step(x, [session[x] EXCEPT !.at = "finish", !.answer = answer]),
         UNCHANGED <<traded, slot, event>>, lost' \in 0..MaxLost,
         \/ Execute(Current(x))
         \/ answer = "ERROR" /\ UNCHANGED <<requests, paper>>
  PROVE  MirrorInv'
<1> DEFINE rec == [session[x] EXCEPT !.at = "finish", !.answer = answer]
           c == Current(x)
<1>1. MirrorTypeOK /\ session[x].rows # <<>> /\ Holds(x)
  BY DEF MirrorInv, AtARow, Holds
<1>2. session[x] \in SessionRecords
  BY <1>1 DEF MirrorTypeOK, SessionRecords, Places, MirrorAnswers
<1>3. c \in Trades
  BY <1>1, CurrentIsATrade
<1>4. rec \in SessionRecords /\ rec.at = "finish" /\ rec.rows = session[x].rows /\ rec.answer = answer
  BY <1>2 DEF SessionRecords, Places
<1>5. event[c] = "PENDING" /\ requests[c] = 0
  BY <1>1 DEF MirrorInv, HolderIsPending
<1>6. requests \in [Trades -> Nat] /\ paper \in Nat
  BY <1>1 DEF MirrorTypeOK
<1>7. /\ requests' \in [Trades -> Nat] /\ paper' \in Nat
      /\ requests'[c] \in {0, 1} /\ (answer # "ERROR" => requests'[c] = 1)
      /\ \A t \in Trades : t # c => requests'[t] = requests[t]
  <2>1. CASE Execute(c)
    BY <2>1, <1>3, <1>5, <1>6 DEF Execute
  <2>2. CASE answer = "ERROR" /\ UNCHANGED <<requests, paper>>
    BY <2>2, <1>3, <1>5, <1>6
  <2> QED
    BY <2>1, <2>2
<1>8. Step(x, rec)
  OBVIOUS
<1> HIDE DEF rec
<1>9. /\ session' \in [Sessions -> SessionRecords]
      /\ session'[x] = rec
      /\ \A y \in Sessions : y # x => session'[y] = session[y]
  BY <1>1, <1>4, <1>8, StepOfOne
<1>10. Current(x)' = c /\ \A y \in Sessions : y # x => Current(y)' = Current(y)
  BY <1>4, <1>9 DEF Current
<1>11. \A y \in Sessions : Holds(y)' <=> Holds(y)
  BY <1>1, <1>4, <1>9 DEF Holds
<1>12. \A y \in Sessions : y # x /\ Holds(y) => Current(y) # c /\ Current(y) \in Trades
  BY <1>1, CurrentIsATrade DEF MirrorInv, OneHolder, Holds, AtARow
<1>13. MirrorTypeOK'
  BY <1>1, <1>7, <1>9 DEF MirrorTypeOK, SessionRecords, Places, MirrorAnswers
<1>14. AtARow'
  BY <1>1, <1>4, <1>9 DEF MirrorInv, AtARow
<1>15. HolderIsPending'
  <2> SUFFICES ASSUME NEW y \in Sessions, Holds(y)'
               PROVE  /\ event'[Current(y)'] = "PENDING"
                      /\ session'[y].at = "send" => requests'[Current(y)'] = 0
                      /\ session'[y].at = "finish" =>
                           /\ session'[y].answer # "none"
                           /\ session'[y].answer # "ERROR" => requests'[Current(y)'] = 1
    BY DEF HolderIsPending
  <2>1. CASE y = x
    BY <2>1, <1>4, <1>5, <1>7, <1>9, <1>10
  <2>2. CASE y # x
    BY <2>2, <1>7, <1>9, <1>10, <1>11, <1>12 DEF MirrorInv, HolderIsPending
  <2> QED
    BY <2>1, <2>2
<1>16. OneHolder'
  BY <1>1, <1>10, <1>11 DEF MirrorInv, OneHolder
<1>17. OneRequestPerTrade'
  BY <1>5, <1>7 DEF MirrorInv, OneRequestPerTrade
<1> QED
  BY <1>13, <1>14, <1>15, <1>16, <1>17 DEF MirrorInv

LEMMA SendRequestKeeps == ASSUME MirrorInv, NEW x \in Sessions, SendRequest(x) PROVE MirrorInv'
<1>1. Answered(Current(x)) \in MirrorAnswers \ {"none"}
  BY DEF Answered, MirrorAnswers
<1> QED
  BY <1>1, HasAsked, LostStays DEF SendRequest

LEMMA RequestFailsKeeps ==
  ASSUME MirrorInv, NEW x \in Sessions, NEW executed \in BOOLEAN, RequestFails(x, executed)
  PROVE  MirrorInv'
<1>1. "ERROR" \in MirrorAnswers \ {"none"}
  BY DEF MirrorAnswers
<1>2. lost' \in 0..MaxLost
  BY LostStays, MirrorAssumption DEF RequestFails, MirrorAssumption
<1>3. session[x].at = "send" /\ UNCHANGED <<traded, slot, event>>
      /\ Step(x, [session[x] EXCEPT !.at = "finish", !.answer = "ERROR"])
  BY DEF RequestFails
<1>4. \/ Execute(Current(x))
      \/ "ERROR" = "ERROR" /\ UNCHANGED <<requests, paper>>
  BY DEF RequestFails
<1> QED
  BY <1>1, <1>2, <1>3, <1>4, HasAsked

LEMMA FinishEventKeeps == ASSUME MirrorInv, NEW x \in Sessions, FinishEvent(x) PROVE MirrorInv'
<1> DEFINE rec == [at |-> "look", rows |-> Tail(session[x].rows), answer |-> "none"]
           c == Current(x)
           a == session[x].answer
<1>1. MirrorTypeOK /\ session[x].rows # <<>> /\ Holds(x) /\ session[x].at = "finish"
  BY DEF MirrorInv, AtARow, Holds, FinishEvent
<1>2. c \in Trades /\ rec \in SessionRecords /\ rec.at = "look"
  BY <1>1, CurrentIsATrade, SkipRecord
<1>3. event[c] = "PENDING" /\ a # "none" /\ (a # "ERROR" => requests[c] = 1)
  BY <1>1 DEF MirrorInv, HolderIsPending
<1>4. a \in MirrorAnswers
  BY <1>1 DEF MirrorTypeOK, MirrorAnswers
<1>5. event \in [Trades -> {"none", "PENDING", "SUBMITTED", "SKIPPED_NO_POSITION", "ERROR"}]
  BY <1>1 DEF MirrorTypeOK
<1>6. Step(x, rec) /\ event' = [event EXCEPT ![c] = a]
      /\ UNCHANGED <<traded, slot, requests, paper, lost>>
  BY DEF FinishEvent, Skip
<1>7. /\ event' \in [Trades -> {"none", "PENDING", "SUBMITTED", "SKIPPED_NO_POSITION", "ERROR"}]
      /\ event'[c] = a /\ \A t \in Trades : t # c => event'[t] = event[t]
  BY <1>2, <1>3, <1>4, <1>5, <1>6 DEF MirrorAnswers
<1> HIDE DEF rec
<1>8. /\ session' \in [Sessions -> SessionRecords]
      /\ session'[x] = rec
      /\ \A y \in Sessions : y # x => session'[y] = session[y]
  BY <1>1, <1>2, <1>6, StepOfOne
<1>9. ~Holds(x)' /\ \A y \in Sessions : y # x => (Holds(y)' <=> Holds(y))
  BY <1>2, <1>8 DEF Holds
<1>10. \A y \in Sessions : y # x => Current(y)' = Current(y)
  BY <1>8 DEF Current
<1>11. \A y \in Sessions : y # x /\ Holds(y) => Current(y) # c /\ Current(y) \in Trades
  BY <1>1, CurrentIsATrade DEF MirrorInv, OneHolder, Holds, AtARow
<1>12. MirrorTypeOK'
  BY <1>1, <1>6, <1>7, <1>8 DEF MirrorTypeOK, SessionRecords, Places, MirrorAnswers
<1>13. AtARow'
  BY <1>2, <1>8 DEF MirrorInv, AtARow
<1>14. HolderIsPending'
  BY <1>6, <1>7, <1>8, <1>9, <1>10, <1>11 DEF MirrorInv, HolderIsPending
<1>15. OneHolder'
  BY <1>9, <1>10 DEF MirrorInv, OneHolder
<1>16. OneRequestPerTrade'
  BY <1>3, <1>6, <1>7 DEF MirrorInv, OneRequestPerTrade
<1> QED
  BY <1>12, <1>13, <1>14, <1>15, <1>16 DEF MirrorInv

LEMMA MirrorInvNext == MirrorInv /\ [MirrorNext]_mirrorVars => MirrorInv'
<1> SUFFICES ASSUME MirrorInv, [MirrorNext]_mirrorVars PROVE MirrorInv'
  OBVIOUS
<1>1. traded \in 0..MaxTrades /\ slot \in {"none", "enabled", "disabled"} /\ MaxTrades \in Nat
  BY MirrorAssumption DEF MirrorInv, MirrorTypeOK, MirrorAssumption
<1>2. CASE SleeveTrades
  BY <1>1, <1>2, BesideTheSessions DEF SleeveTrades
<1>3. CASE AddSlot
  BY <1>1, <1>3, BesideTheSessions DEF AddSlot
<1>4. CASE DisableSlot
  BY <1>1, <1>4, BesideTheSessions DEF DisableSlot
<1>5. ASSUME NEW x \in Sessions,
             \/ StartMirror(x) \/ FindEvent(x) \/ ReserveEvent(x) \/ SendRequest(x)
             \/ FinishEvent(x) \/ EndMirror(x) \/ SessionDies(x)
             \/ \E executed \in BOOLEAN : RequestFails(x, executed)
      PROVE  MirrorInv'
  BY <1>5, StartMirrorKeeps, FindEventKeeps, ReserveEventKeeps, SendRequestKeeps,
     FinishEventKeeps, EndMirrorKeeps, SessionDiesKeeps, RequestFailsKeeps
<1>6. CASE UNCHANGED mirrorVars
  BY <1>1, <1>6, BesideTheSessions DEF mirrorVars
<1> QED
  BY <1>2, <1>3, <1>4, <1>5, <1>6 DEF MirrorNext

LEMMA MirrorInvHolds == MirrorSpec => []MirrorInv
<1> QED
  BY MirrorInvInit, MirrorInvNext, PTL DEF MirrorSpec

(* Every variable keeps its type; the dashboard's sessions, the slot and   *)
(* the broker's account among them (paper_mirror.py).                      *)
THEOREM MirrorTypeCorrect == MirrorSpec => []MirrorTypeOK
<1>1. MirrorInv => MirrorTypeOK
  BY DEF MirrorInv
<1> QED
  BY <1>1, MirrorInvHolds, PTL

(* A trade reaches the broker once at most (AlpacaPaperMirror.run_once):   *)
(* whoever wrote the row sends, and nobody writes it again.                *)
THEOREM TradesAreSentOnce == MirrorSpec => []OneRequestPerTrade
<1>1. MirrorInv => OneRequestPerTrade
  BY DEF MirrorInv
<1> QED
  BY <1>1, MirrorInvHolds, PTL
=============================================================================
