---------------------------- MODULE LedgerProofs ----------------------------
(***************************************************************************)
(* The ledgers that wait for bars, for any number of days, runners, cuts   *)
(* and lost containers, any length of bar and any window.                  *)
(*                                                                         *)
(* DirectionLedger on MarketCache: the cache knows no bar that has not     *)
(* begun, and of what has begun nothing is missing up to its last row; so  *)
(* a reader's last bar never lies before one that was read earlier, not    *)
(* even in a new container, whose first answer goes back to the beginning  *)
(* (EvaluatedHaveClosed).                                                  *)
(*                                                                         *)
(* ForwardTest: two runners book the same candidate with nothing between   *)
(* them but INSERT OR IGNORE.  What a runner is about to write follows     *)
(* from what is booked whenever it read, because a bar's result follows    *)
(* from the bars before it (BookedInv), so no bar is booked with two       *)
(* results (BarsBookedAlike) and the cash is what the trades leave         *)
(* (CashIsItsTrades).                                                      *)
(*                                                                         *)
(* TcaStore: a sample stands for an event of the worker or for a crossing  *)
(* that has been paid for by a mark of its side (SampleInv).               *)
(*                                                                         *)
(* CryptoShadow: no order stands beside a position, so no fill replaces    *)
(* one and no position is closed twice (OneOfBoth); with the laws of the   *)
(* sum over the symbols, the account adds up (CapitalInv).  What was       *)
(* approved still fits when it is ordered, for until then no row grows,    *)
(* and a fill pays no more than its order reserved (LimitsInv).            *)
(*                                                                         *)
(* CryptoResearch: its rows and its plan name only bars that have closed,  *)
(* and a row's count differs from the bars it holds in order by no more    *)
(* than the interruptions (EvidenceInv).                                   *)
(***************************************************************************)
EXTENDS DirectionLedger, ForwardTest, TcaStore, CryptoShadow, CryptoResearch,
        FiniteSetTheorems, SequenceTheorems, WellFoundedInduction, TLAPS

-----------------------------------------------------------------------------
(* Numbers *)

LEMMA LeastOf == ASSUME NEW T, T \subseteq Nat, T # {} PROVE \E x \in T : \A y \in T : x <= y
<1> DEFINE R == OpToRel(<, Nat)
<1>1. IsWellFoundedOn(R, Nat)
  BY NatLessThanWellFounded, Zenon
<1>2. \A a, b \in Nat : <<a, b>> \in R <=> a < b
  BY DEF OpToRel
<1> HIDE DEF R
<1>3. PICK x \in T : \A y \in T : ~(<<y, x>> \in R)
  BY <1>1, WFMin, Zenon
<1>4. ASSUME NEW y \in T PROVE x <= y
  <2>1. x \in Nat /\ y \in Nat
    OBVIOUS
  <2>2. ~(y < x)
    BY <1>2, <1>3, <2>1, Zenon
  <2> QED
    BY <2>1, <2>2
<1> QED
  BY <1>4

LEMMA GreatestOf ==
  ASSUME NEW T, NEW m \in Nat, T \subseteq 0..m, T # {}
  PROVE  \E x \in T : \A y \in T : y <= x
<1> DEFINE U == {m - t : t \in T}
<1>1. U \subseteq Nat /\ U # {}
  <2>1. \A t \in T : m - t \in Nat
    OBVIOUS
  <2> QED
    BY <2>1
<1> HIDE DEF U
<1>2. PICK u \in U : \A v \in U : u <= v
  BY <1>1, LeastOf
<1>3. PICK x \in T : u = m - x
  BY DEF U
<1>4. \A y \in T : m - y \in U
  BY DEF U
<1>5. \A y \in T : y <= x
  BY <1>2, <1>3, <1>4
<1> QED
  BY <1>5

(* a bar that has begun is none after one that is still open *)
LEMMA BegunBefore ==
  ASSUME NEW L \in Nat \ {0}, NEW a \in Nat, NEW b \in Nat, NEW n \in Nat,
         (a - 1) * L <= n, n < b * L
  PROVE  a <= b
<1> SUFFICES ASSUME a > b PROVE FALSE
  OBVIOUS
<1>1. PICK d \in Nat : a = b + 1 + d
  <2>1. a - b - 1 \in Nat /\ a = b + 1 + (a - b - 1)
    OBVIOUS
  <2> QED
    BY <2>1
<1>2. (a - 1) * L = b * L + d * L
  BY <1>1
<1>3. d * L >= 0
  BY <1>1
<1> QED
  BY <1>2, <1>3

(* a bar that has closed has begun, and there is a number for it *)
LEMMA ClosedIsSmall ==
  ASSUME NEW L \in Nat \ {0}, NEW b \in Nat, NEW n \in Nat, b * L <= n
  PROVE  b <= n /\ (b - 1) * L <= n
<1>1. PICK k \in Nat : L = k + 1
  <2>1. L - 1 \in Nat /\ L = (L - 1) + 1
    OBVIOUS
  <2> QED
    BY <2>1
<1>2. b * L = b * k + b /\ b * k >= 0
  BY <1>1
<1>3. (b - 1) * L = b * L - L
  OBVIOUS
<1> QED
  BY <1>2, <1>3

-----------------------------------------------------------------------------
(* The sum of a function over a finite set (Functions.SumFunctionOnSet), a *)
(* fold over the parts of the set: it does not depend on the order in      *)
(* which the elements are taken out, nor on the function beside the set.   *)
(* The inductions are over the number of elements, each by its least       *)
(* counterexample                                                          *)

Chosen(T) == CHOOSE x \in T : TRUE

Sums(f, S, g) ==
  g = [T \in SUBSET S |-> IF T = {} THEN 0 ELSE f[Chosen(T)] + g[T \ {Chosen(T)}]]

LEMMA SumIs ==
  ASSUME NEW f, NEW S
  PROVE  SumFunctionOnSet(f, S) = (CHOOSE g : Sums(f, S, g))[S]
BY DEF SumFunctionOnSet, FoldFunctionOnSet, MapThenFoldSet, Sums, Chosen

(* the part of such a function that is about the sets of at most n elements *)
Small(S, n) == {T \in SUBSET S : Cardinality(T) <= n}

SumsSmall(f, S, n, g) ==
  /\ g \in [Small(S, n) -> Int]
  /\ \A T \in Small(S, n) : g[T] = IF T = {} THEN 0 ELSE f[Chosen(T)] + g[T \ {Chosen(T)}]

LEMMA ChosenIsIn == ASSUME NEW T, T # {} PROVE Chosen(T) \in T
BY DEF Chosen

LEMMA OneLess ==
  ASSUME NEW S, IsFiniteSet(S), NEW T \in SUBSET S, NEW x \in T
  PROVE  /\ IsFiniteSet(T) /\ IsFiniteSet(T \ {x}) /\ T \ {x} \in SUBSET S
         /\ Cardinality(T) \in Nat /\ Cardinality(T \ {x}) = Cardinality(T) - 1 /\ Cardinality(T \ {x}) \in Nat
<1>1. IsFiniteSet(T)
  BY FS_Subset
<1>2. IsFiniteSet(T \ {x}) /\ Cardinality(T \ {x}) = Cardinality(T) - 1
  BY <1>1, FS_RemoveElement
<1>3. Cardinality(T) \in Nat /\ Cardinality(T \ {x}) \in Nat
  BY <1>1, <1>2, FS_CardinalityType
<1> QED
  BY <1>1, <1>2, <1>3

LEMMA SumsSmallExist ==
  ASSUME NEW f, NEW S, IsFiniteSet(S), \A x \in S : f[x] \in Int, NEW n \in Nat
  PROVE  \E g : SumsSmall(f, S, n, g)
<1> DEFINE Bad == {m \in Nat : ~ \E g : SumsSmall(f, S, m, g)}
<1> SUFFICES ASSUME Bad # {} PROVE FALSE
  OBVIOUS
<1>1. PICK m \in Bad : \A y \in Bad : m <= y
  BY LeastOf
<1>2. m \in Nat /\ ~ \E g : SumsSmall(f, S, m, g)
  OBVIOUS
<1>3. CASE m = 0
  <2> DEFINE g == [T \in Small(S, 0) |-> 0]
  <2>1. \A T \in Small(S, 0) : T = {}
    <3> SUFFICES ASSUME NEW T \in Small(S, 0) PROVE T = {}
      OBVIOUS
    <3>1. IsFiniteSet(T) /\ Cardinality(T) <= 0
      BY FS_Subset DEF Small
    <3>2. Cardinality(T) = 0
      BY <3>1, FS_CardinalityType
    <3> QED  BY <3>1, <3>2, FS_EmptySet
  <2>2. SumsSmall(f, S, 0, g)
    BY <2>1 DEF SumsSmall
  <2> QED  BY <1>2, <1>3, <2>2
<1>4. CASE m # 0
  <2>1. m - 1 \in Nat
    BY <1>2, <1>4
  <2>2. PICK h : SumsSmall(f, S, m - 1, h)
    <3>1. m - 1 \notin Bad
      BY <1>1, <1>2
    <3> QED  BY <2>1, <3>1
  <2> DEFINE v(T) == IF T = {} THEN 0 ELSE f[Chosen(T)] + h[T \ {Chosen(T)}]
             g == [T \in Small(S, m) |-> v(T)]
  <2>3. ASSUME NEW T \in Small(S, m), T # {}
        PROVE  Chosen(T) \in S /\ T \ {Chosen(T)} \in Small(S, m - 1) /\ T \ {Chosen(T)} \in Small(S, m)
    <3>1. T \in SUBSET S /\ Cardinality(T) <= m /\ Chosen(T) \in T
      BY <2>3, ChosenIsIn DEF Small
    <3>c. PICK c \in T : c = Chosen(T)
      BY <3>1
    <3>2. T \ {c} \in SUBSET S /\ Cardinality(T) \in Nat /\ Cardinality(T \ {c}) = Cardinality(T) - 1
      BY <3>1, OneLess
    <3> QED  BY <1>2, <3>c, <3>1, <3>2 DEF Small
  <2>4. \A T \in Small(S, m) : v(T) \in Int
    <3> SUFFICES ASSUME NEW T \in Small(S, m) PROVE v(T) \in Int
      OBVIOUS
    <3>1. CASE T = {}
      BY <3>1
    <3>2. CASE T # {}
      <4>1. f[Chosen(T)] \in Int /\ h[T \ {Chosen(T)}] \in Int
        BY <2>2, <2>3, <3>2 DEF SumsSmall
      <4> QED  BY <3>2, <4>1
    <3> QED  BY <3>1, <3>2
  <2>5. \A T \in Small(S, m - 1) : h[T] = v(T) /\ T \in Small(S, m)
    BY <1>2, <2>2, FS_Subset, FS_CardinalityType DEF SumsSmall, Small
  <2>6. ASSUME NEW T \in Small(S, m), T # {} PROVE g[T \ {Chosen(T)}] = h[T \ {Chosen(T)}]
    BY <2>3, <2>5, <2>6
  <2>7. SumsSmall(f, S, m, g)
    <3>1. g \in [Small(S, m) -> Int]
      BY <2>4
    <3>2. ASSUME NEW T \in Small(S, m)
          PROVE  g[T] = IF T = {} THEN 0 ELSE f[Chosen(T)] + g[T \ {Chosen(T)}]
      <4>1. g[T] = v(T)
        OBVIOUS
      <4> HIDE DEF g
      <4> QED  BY <4>1, <2>6
    <3> QED  BY <3>1, <3>2 DEF SumsSmall
  <2> QED  BY <1>2, <2>7
<1> QED  BY <1>3, <1>4

LEMMA SumsExist ==
  ASSUME NEW f, NEW S, IsFiniteSet(S), \A x \in S : f[x] \in Int
  PROVE  \E g : Sums(f, S, g) /\ g \in [SUBSET S -> Int]
<1>1. Cardinality(S) \in Nat
  BY FS_CardinalityType
<1>2. PICK g : SumsSmall(f, S, Cardinality(S), g)
  BY <1>1, SumsSmallExist
<1>3. Small(S, Cardinality(S)) = SUBSET S
  BY FS_Subset DEF Small
<1>4. g \in [SUBSET S -> Int] /\ Sums(f, S, g)
  BY <1>2, <1>3 DEF SumsSmall, Sums
<1> QED  BY <1>4

LEMMA SumsAgree ==
  ASSUME NEW f, NEW h, NEW S, NEW R, NEW g, NEW k, Sums(f, S, g), Sums(h, R, k),
         NEW U, IsFiniteSet(U), U \subseteq S, U \subseteq R, \A x \in U : f[x] = h[x]
  PROVE  g[U] = k[U]
<1> DEFINE Bad == {n \in Nat : \E T \in SUBSET U : Cardinality(T) = n /\ g[T] # k[T]}
<1>1. Bad = {}
  <2> SUFFICES ASSUME Bad # {} PROVE FALSE
    OBVIOUS
  <2>1. PICK n \in Bad : \A y \in Bad : n <= y
    BY LeastOf
  <2>2. PICK T \in SUBSET U : Cardinality(T) = n /\ g[T] # k[T]
    OBVIOUS
  <2>3. T \in SUBSET S /\ T \in SUBSET R
    OBVIOUS
  <2>4. g[T] = (IF T = {} THEN 0 ELSE f[Chosen(T)] + g[T \ {Chosen(T)}])
    BY <2>3 DEF Sums
  <2>5. k[T] = (IF T = {} THEN 0 ELSE h[Chosen(T)] + k[T \ {Chosen(T)}])
    BY <2>3 DEF Sums
  <2>6. T # {}
    BY <2>2, <2>4, <2>5
  <2>7. Chosen(T) \in T
    BY <2>6, ChosenIsIn
  <2>c. PICK c \in T : c = Chosen(T)
    BY <2>7
  <2>n. n \in Nat
    OBVIOUS
  <2>m. n - 1 \in Nat => n - 1 \notin Bad
    <3> HIDE DEF Bad
    <3> QED  BY <2>1, <2>n
  <2>8. T \ {Chosen(T)} \in SUBSET U /\ Cardinality(T \ {Chosen(T)}) = n - 1 /\ n - 1 \in Nat
    <3> HIDE DEF Bad
    <3>1. T \ {c} \in SUBSET U /\ Cardinality(T \ {c}) = Cardinality(T) - 1 /\ Cardinality(T \ {c}) \in Nat
      BY OneLess
    <3> QED  BY <2>2, <2>c, <3>1
  <2>9. n - 1 \notin Bad
    BY <2>m, <2>8
  <2>10. g[T \ {Chosen(T)}] = k[T \ {Chosen(T)}]
    BY <2>8, <2>9
  <2>11. f[Chosen(T)] = h[Chosen(T)]
    BY <2>7
  <2> QED  BY <2>2, <2>4, <2>5, <2>6, <2>10, <2>11
<1>2. Cardinality(U) \in Nat
  BY FS_CardinalityType
<1> QED  BY <1>1, <1>2

(* one function holds the sums over all parts of a set *)
LEMMA SumsAre ==
  ASSUME NEW f, NEW S, IsFiniteSet(S), \A x \in S : f[x] \in Int
  PROVE  \E g \in [SUBSET S -> Int] :
           Sums(f, S, g) /\ \A T \in SUBSET S : SumFunctionOnSet(f, T) = g[T]
<1>1. PICK g : Sums(f, S, g) /\ g \in [SUBSET S -> Int]
  BY SumsExist
<1>2. ASSUME NEW T \in SUBSET S PROVE SumFunctionOnSet(f, T) = g[T]
  <2> DEFINE k == CHOOSE k : Sums(f, T, k)
  <2>1. IsFiniteSet(T) /\ \A x \in T : f[x] \in Int
    BY FS_Subset
  <2>2. \E c : Sums(f, T, c)
    BY <2>1, SumsExist
  <2>3. Sums(f, T, k)
    BY <2>2
  <2>4. SumFunctionOnSet(f, T) = k[T]
    BY SumIs
  <2> HIDE DEF k
  <2>5. g[T] = k[T]
    BY <1>1, <2>1, <2>3, SumsAgree
  <2> QED  BY <2>4, <2>5
<1> QED  BY <1>1, <1>2

LEMMA SumSame ==
  ASSUME NEW f, NEW h, NEW S, IsFiniteSet(S), \A x \in S : f[x] \in Int /\ f[x] = h[x]
  PROVE  SumFunctionOnSet(f, S) = SumFunctionOnSet(h, S) /\ SumFunctionOnSet(f, S) \in Int
<1>1. PICK g \in [SUBSET S -> Int] : Sums(f, S, g) /\ \A T \in SUBSET S : SumFunctionOnSet(f, T) = g[T]
  BY SumsAre
<1>2. \A x \in S : h[x] \in Int
  OBVIOUS
<1>3. PICK k \in [SUBSET S -> Int] : Sums(h, S, k) /\ \A T \in SUBSET S : SumFunctionOnSet(h, T) = k[T]
  BY <1>2, SumsAre
<1>4. g[S] = k[S]
  BY <1>1, <1>3, SumsAgree
<1>5. S \in SUBSET S
  OBVIOUS
<1> QED  BY <1>1, <1>3, <1>4, <1>5

LEMMA SumOfNone == ASSUME NEW f PROVE SumFunctionOnSet(f, {}) = 0
<1>1. PICK g \in [SUBSET {} -> Int] : Sums(f, {}, g) /\ \A T \in SUBSET {} : SumFunctionOnSet(f, T) = g[T]
  BY SumsAre, FS_EmptySet
<1>2. g[{}] = 0
  BY <1>1 DEF Sums
<1> QED  BY <1>1, <1>2

(* whatever element is taken out first *)
LEMMA SumWithout ==
  ASSUME NEW f, NEW S, IsFiniteSet(S), \A x \in S : f[x] \in Int, NEW x \in S
  PROVE  SumFunctionOnSet(f, S) = f[x] + SumFunctionOnSet(f, S \ {x})
<1>1. PICK g \in [SUBSET S -> Int] : Sums(f, S, g) /\ \A T \in SUBSET S : SumFunctionOnSet(f, T) = g[T]
  BY SumsAre
<1>2. ASSUME NEW T \in SUBSET S, T # {}
      PROVE  g[T] = f[Chosen(T)] + g[T \ {Chosen(T)}] /\ Chosen(T) \in T
  BY <1>1, <1>2, ChosenIsIn DEF Sums
<1> DEFINE Bad == {n \in Nat : \E T \in SUBSET S : \E y \in T :
                                 Cardinality(T) = n /\ g[T] # f[y] + g[T \ {y}]}
<1>3. Bad = {}
  <2> SUFFICES ASSUME Bad # {} PROVE FALSE
    OBVIOUS
  <2>1. PICK n \in Bad : \A m \in Bad : n <= m
    BY LeastOf
  <2>a. PICK T \in SUBSET S : \E y \in T : Cardinality(T) = n /\ g[T] # f[y] + g[T \ {y}]
    OBVIOUS
  <2>2. PICK y \in T : Cardinality(T) = n /\ g[T] # f[y] + g[T \ {y}]
    BY <2>a
  <2>3. PICK c : c = Chosen(T)
    OBVIOUS
  <2>4. c \in T /\ g[T] = f[c] + g[T \ {c}] /\ c # y
    BY <1>2, <2>2, <2>3
  <2>5. /\ T \ {c} \in SUBSET S /\ T \ {y} \in SUBSET S /\ (T \ {c}) \ {y} \in SUBSET S
        /\ y \in T \ {c} /\ c \in T \ {y} /\ (T \ {c}) \ {y} = (T \ {y}) \ {c}
    BY <2>4
  <2>n. n \in Nat
    OBVIOUS
  <2>m. n - 1 \in Nat => n - 1 \notin Bad
    <3> HIDE DEF Bad
    <3> QED  BY <2>1, <2>n
  <2>6. Cardinality(T \ {c}) = n - 1 /\ Cardinality(T \ {y}) = n - 1 /\ n - 1 \in Nat
    <3> HIDE DEF Bad
    <3>1. Cardinality(T \ {c}) = Cardinality(T) - 1 /\ Cardinality(T \ {c}) \in Nat
      BY <2>4, OneLess
    <3>2. Cardinality(T \ {y}) = Cardinality(T) - 1
      BY OneLess
    <3> QED  BY <2>2, <3>1, <3>2
  <2>7. n - 1 \notin Bad
    BY <2>m, <2>6
  <2>k. \A U \in SUBSET S : \A z \in U : Cardinality(U) = n - 1 => g[U] = f[z] + g[U \ {z}]
    BY <2>6, <2>7
  <2> HIDE DEF Bad
  <2>8. g[T \ {c}] = f[y] + g[(T \ {c}) \ {y}]
    BY <2>5, <2>6, <2>k
  <2>9. g[T \ {y}] = f[c] + g[(T \ {c}) \ {y}]
    <3>1. g[T \ {y}] = f[c] + g[(T \ {y}) \ {c}]
      BY <2>5, <2>6, <2>k
    <3> QED  BY <2>5, <3>1
  <2>10. f[c] \in Int /\ f[y] \in Int /\ g[(T \ {c}) \ {y}] \in Int
    BY <2>2, <2>4, <2>5
  <2> QED  BY <2>2, <2>4, <2>8, <2>9, <2>10
<1>4. Cardinality(S) \in Nat
  BY FS_CardinalityType
<1>5. g[S] = f[x] + g[S \ {x}]
  <2> SUFFICES ASSUME g[S] # f[x] + g[S \ {x}] PROVE Cardinality(S) \in Bad
    BY <1>3
  <2>1. S \in SUBSET S
    OBVIOUS
  <2> QED  BY <1>4, <2>1
<1>6. S \in SUBSET S /\ S \ {x} \in SUBSET S
  OBVIOUS
<1> QED  BY <1>1, <1>5, <1>6

-----------------------------------------------------------------------------
(* The cache *)

CachedHaveBegun == \A c \in Cached : HasBegun(c)

CacheInv == CacheTypeOK /\ OnlyLastRowIsPartial /\ CachedHaveBegun

LEMMA CacheInvInit == CacheInit => CacheInv
BY CacheAssumption DEF CacheAssumption, CacheInit, CacheInv, CacheTypeOK, OnlyLastRowIsPartial,
   CachedHaveBegun, Cached, AllBars

LEMMA CachedAreBars ==
  ASSUME CacheTypeOK
  PROVE  /\ now \in Nat /\ MaxNow \in Nat /\ BarLength \in Nat \ {0} /\ Overlap \in Nat
         /\ Cached \subseteq AllBars /\ AllBars \subseteq Nat
BY CacheAssumption DEF CacheAssumption, CacheTypeOK, Cached, AllBars

(* what an answer leaves in the cache: nothing is lost, and all of it had begun *)
LEMMA FetchesKeeps ==
  ASSUME CacheInv, NEW force \in BOOLEAN, EnsureFetches(force)
  PROVE  /\ CacheInv' /\ Cached \subseteq Cached' /\ now' = now
         /\ Cached = {} => Cached' = {b \in AllBars : HasBegun(b)}
<1> DEFINE A == Answer(force)
<1> USE DEF CacheInv
<1>1. /\ now \in Nat /\ MaxNow \in Nat /\ BarLength \in Nat \ {0} /\ Overlap \in Nat
      /\ Cached \subseteq AllBars /\ AllBars \subseteq Nat
  BY CachedAreBars
<1>2. /\ lastAttempt' = now /\ now' = now
      /\ final' = (final \ A) \union {b \in A : HasClosed(b)}
      /\ partial' = (partial \ A) \union {b \in A : ~HasClosed(b)}
  BY DEF EnsureFetches
<1>3. A = {b \in AllBars : HasBegun(b) /\ (force \/ \A c \in Cached : b >= c - Overlap)}
  BY DEF Answer
<1> HIDE DEF A
<1>4. Cached' = Cached \union A
  BY <1>2 DEF Cached
<1>5. CacheTypeOK'
  <2>1. A \subseteq AllBars /\ AllBars' = AllBars
    BY <1>3 DEF AllBars
  <2>2. now \in 0..MaxNow /\ final \subseteq AllBars /\ partial \subseteq AllBars
    BY DEF CacheTypeOK
  <2>3. final' \subseteq AllBars /\ partial' \subseteq AllBars
    BY <1>2, <2>1, <2>2
  <2>4. lastAttempt' \in -1..MaxNow
    BY <1>1, <1>2, <2>2
  <2> QED
    BY <1>2, <2>1, <2>2, <2>3, <2>4 DEF CacheTypeOK
<1>6. CachedHaveBegun'
  BY <1>2, <1>3, <1>4 DEF CachedHaveBegun, HasBegun
<1>7. OnlyLastRowIsPartial'
  <2>1. final' \intersect partial' = {}
    BY <1>2 DEF OnlyLastRowIsPartial
  <2>2. ASSUME NEW c \in Cached', NEW b \in 1..c PROVE b \in Cached'
    <3>1. CASE c \in Cached
      BY <3>1, <1>4 DEF OnlyLastRowIsPartial
    <3>2. CASE c \in A
      <4>1. c \in AllBars /\ HasBegun(c) /\ b \in Nat /\ c \in Nat /\ b <= c
        BY <3>2, <1>1, <1>3
      <4>2. b \in AllBars
        BY <4>1, <1>1 DEF AllBars
      <4>3. (b - 1) * BarLength <= (c - 1) * BarLength
        <5>1. PICK d \in Nat : c = b + d
          <6>1. c - b \in Nat /\ c = b + (c - b)
            BY <4>1
          <6> QED
            BY <6>1
        <5>2. (c - 1) * BarLength = (b - 1) * BarLength + d * BarLength /\ d * BarLength >= 0
          BY <5>1, <4>1, <1>1
        <5> QED
          BY <5>2, <4>1, <1>1
      <4>4. HasBegun(b)
        BY <4>1, <4>3, <1>1 DEF HasBegun
      <4>5. CASE force \/ \A e \in Cached : b >= e - Overlap
        BY <4>5, <4>2, <4>4, <1>3, <1>4
      <4>6. CASE \E e \in Cached : ~(b >= e - Overlap)
        <5>1. PICK e \in Cached : ~(b >= e - Overlap)
          BY <4>6
        <5>2. e \in Nat
          BY <1>1
        <5>3. b \in 1..e
          BY <4>1, <5>1, <5>2, <1>1
        <5> QED
          BY <5>3, <1>4 DEF OnlyLastRowIsPartial
      <4> QED
        BY <4>5, <4>6
    <3> QED
      BY <3>1, <3>2, <1>4
  <2>3. ASSUME NEW b \in partial', NEW c \in Cached' PROVE c <= b
    <3>1. b \in Nat /\ c \in Nat
      BY <1>1, <1>3, <1>4, <2>3, <1>2 DEF Cached
    <3>2. CASE b \in A /\ ~HasClosed(b)
      <4>1. now < b * BarLength
        BY <3>1, <3>2, <1>1 DEF HasClosed
      <4>2. (c - 1) * BarLength <= now
        BY <1>3, <1>4 DEF CachedHaveBegun, HasBegun
      <4> QED
        BY <3>1, <4>1, <4>2, <1>1, BegunBefore
    <3>3. CASE b \in partial \ A
      <4>1. b \in AllBars /\ HasBegun(b) /\ \A e \in Cached : e <= b
        BY <3>3, <1>1 DEF OnlyLastRowIsPartial, CachedHaveBegun, Cached
      <4>2. ~force /\ \E e \in Cached : ~(b >= e - Overlap)
        BY <3>3, <4>1, <1>3
      <4>3. PICK e \in Cached : ~(b >= e - Overlap)
        BY <4>2
      <4>4. e \in Nat /\ e <= b
        BY <4>1, <1>1
      <4> QED
        BY <4>3, <4>4, <3>1, <1>1
    <3> QED
      BY <3>2, <3>3, <1>2
  <2>4. \A c \in Cached' : 1..c \subseteq Cached'
    BY <2>2
  <2>5. \A b \in partial' : \A c \in Cached' : c <= b
    BY <2>3
  <2> QED
    BY <2>1, <2>4, <2>5 DEF OnlyLastRowIsPartial
<1>8. Cached = {} => A = {b \in AllBars : HasBegun(b)}
  BY <1>3
<1> QED
  BY <1>2, <1>4, <1>5, <1>6, <1>7, <1>8

LEMMA ClockKeeps == ASSUME CacheInv, ClockTicks PROVE CacheInv' /\ Cached' = Cached /\ now' = now + 1
<1>1. /\ now \in Nat /\ MaxNow \in Nat /\ BarLength \in Nat \ {0}
      /\ Cached \subseteq AllBars /\ AllBars \subseteq Nat
  BY CachedAreBars DEF CacheInv
<1>2. Cached' = Cached /\ now' = now + 1
  BY DEF ClockTicks, Cached
<1>3. CachedHaveBegun'
  <2> SUFFICES ASSUME NEW c \in Cached PROVE (c - 1) * BarLength <= now + 1
    BY <1>2 DEF CachedHaveBegun, HasBegun
  <2>1. c \in Nat /\ (c - 1) * BarLength <= now
    BY <1>1 DEF CacheInv, CachedHaveBegun, HasBegun
  <2>2. (c - 1) * BarLength \in Int
    BY <2>1, <1>1
  <2> QED
    BY <2>1, <2>2, <1>1
<1>4. CacheTypeOK' /\ OnlyLastRowIsPartial'
  BY <1>1, <1>2 DEF CacheInv, CacheTypeOK, OnlyLastRowIsPartial, ClockTicks, AllBars
<1> QED
  BY <1>2, <1>3, <1>4 DEF CacheInv

LEMMA FailsKeeps ==
  ASSUME CacheInv, NEW force \in BOOLEAN, EnsureFails(force)
  PROVE  CacheInv' /\ Cached' = Cached /\ now' = now
BY CacheAssumption DEF CacheAssumption, CacheInv, CacheTypeOK, OnlyLastRowIsPartial,
   CachedHaveBegun, HasBegun, Cached, AllBars, EnsureFails

LEMMA LostKeeps == ASSUME CacheInv, CacheLost PROVE CacheInv' /\ Cached' = {} /\ now' = now
BY CacheAssumption DEF CacheAssumption, CacheInv, CacheTypeOK, OnlyLastRowIsPartial,
   CachedHaveBegun, Cached, AllBars, CacheLost

LEMMA CacheUnmoved ==
  ASSUME CacheInv, UNCHANGED cacheVars PROVE CacheInv' /\ Cached' = Cached /\ now' = now
BY DEF CacheInv, CacheTypeOK, OnlyLastRowIsPartial, CachedHaveBegun, HasBegun, Cached, AllBars,
   cacheVars

-----------------------------------------------------------------------------
(* The ledger *)

(* SamplesDoNotOverlap, of the ledger or of its snapshot *)
Apart(rows) ==
  \A i, j \in DOMAIN rows :
    /\ i < j => rows[i].status = "EVALUATED" /\ rows[i].asOf + Window <= rows[j].asOf
    /\ rows[i].status = "EVALUATED" =>
         /\ rows[i].entry = rows[i].asOf + 1
         /\ rows[i].exit \in rows[i].entry..(rows[i].asOf + Window)

Evaluated(rows) == {i \in DOMAIN rows : rows[i].status = "EVALUATED"}

EvaluatedHaveClosed ==
  /\ \A i \in Evaluated(predictions) :
       /\ HasClosed(predictions[i].asOf + Window)
       /\ Cached # {} => predictions[i].asOf + Window \in Cached
  /\ \A i \in Evaluated(saved) : HasClosed(saved[i].asOf + Window)

ReaderIsAhead ==
  direction.at # "idle" =>
    /\ direction.last \in Cached /\ HasClosed(direction.last)
    /\ \A i \in Evaluated(predictions) : predictions[i].asOf + Window <= direction.last
    /\ direction.at = "register" => Evaluated(predictions) = DOMAIN predictions

LedgerTypeOK ==
  /\ predictions \in Seq(PredictionRows) /\ saved \in Seq(PredictionRows)
  /\ direction \in [at : {"idle", "evaluate", "look", "register"}, last : Nat]
  /\ losses \in 0..MaxLosses

DirectionInv ==
  /\ CacheInv /\ LedgerTypeOK
  /\ Apart(predictions) /\ Apart(saved)
  /\ EvaluatedHaveClosed /\ ReaderIsAhead

LEMMA DirectionInvInit == DirectionInit => DirectionInv
<1> SUFFICES ASSUME DirectionInit PROVE DirectionInv
  OBVIOUS
<1> USE DEF DirectionInit
<1>1. CacheInv
  BY CacheInvInit
<1>2. <<>> \in Seq(PredictionRows)
  OBVIOUS
<1>3. LedgerTypeOK
  BY <1>2, DirectionAssumption DEF DirectionAssumption, LedgerTypeOK
<1>4. Apart(predictions) /\ Apart(saved) /\ EvaluatedHaveClosed /\ ReaderIsAhead
  BY DEF Apart, EvaluatedHaveClosed, ReaderIsAhead, Evaluated
<1> QED
  BY <1>1, <1>3, <1>4 DEF DirectionInv

LEMMA RowsAreTyped ==
  ASSUME NEW rows \in Seq(PredictionRows), NEW i \in DOMAIN rows
  PROVE  /\ i \in 1..Len(rows) /\ rows[i] \in PredictionRows
         /\ rows[i].asOf \in Nat /\ rows[i].asOf + Window \in Nat \ {0}
         /\ Window \in Nat \ {0}
<1>1. DOMAIN rows = 1..Len(rows) /\ rows[i] \in PredictionRows
  OBVIOUS
<1>2. rows[i].asOf \in Nat /\ Window \in Nat \ {0}
  BY <1>1, DirectionAssumption DEF PredictionRows, DirectionAssumption
<1> QED
  BY <1>1, <1>2

(* later, with the same cache or more of it, or after its first answer *)
LEMMA GoesOn ==
  ASSUME DirectionInv, CacheInv', now' \in Nat, now <= now',
         Cached \subseteq Cached',
         Cached = {} /\ Cached' # {} => Cached' = {b \in AllBars : HasBegun(b)}',
         UNCHANGED <<predictions, saved>>,
         direction' = direction \/ direction'.at = "idle"
  PROVE  EvaluatedHaveClosed' /\ ReaderIsAhead'
<1>1. now \in Nat /\ MaxNow \in Nat /\ BarLength \in Nat \ {0} /\ Cached \subseteq AllBars
      /\ AllBars \subseteq Nat
  BY CachedAreBars DEF DirectionInv, CacheInv
<1>2. predictions \in Seq(PredictionRows) /\ saved \in Seq(PredictionRows)
  BY DEF DirectionInv, LedgerTypeOK
<1>3. EvaluatedHaveClosed'
  <2>1. ASSUME NEW i \in Evaluated(predictions)
        PROVE  /\ HasClosed(predictions[i].asOf + Window)'
               /\ Cached' # {} => predictions[i].asOf + Window \in Cached'
    <3>1. predictions[i].asOf + Window \in Nat \ {0} /\ i \in DOMAIN predictions
      BY <1>2, RowsAreTyped DEF Evaluated
    <3>2. HasClosed(predictions[i].asOf + Window)
          /\ (Cached # {} => predictions[i].asOf + Window \in Cached)
      BY DEF DirectionInv, EvaluatedHaveClosed
    <3>3. HasClosed(predictions[i].asOf + Window)'
      <4> DEFINE b == predictions[i].asOf + Window
      <4>1. b * BarLength \in Nat /\ b * BarLength <= now
        BY <1>1, <3>1, <3>2 DEF HasClosed
      <4>2. b * BarLength <= now'
        BY <1>1, <4>1
      <4> QED
        BY <4>2 DEF HasClosed
    <3>4. ASSUME Cached = {}, Cached' # {} PROVE predictions[i].asOf + Window \in Cached'
      <4> DEFINE b == predictions[i].asOf + Window
      <4>1. b \in Nat \ {0} /\ b * BarLength <= now'
        BY <3>1, <3>3 DEF HasClosed
      <4>2. b <= now' /\ (b - 1) * BarLength <= now'
        BY <1>1, <4>1, ClosedIsSmall
      <4>3. now' <= MaxNow
        BY DEF CacheInv, CacheTypeOK
      <4>4. b \in AllBars
        BY <1>1, <4>1, <4>2, <4>3 DEF AllBars
      <4> QED
        BY <3>4, <4>2, <4>4 DEF HasBegun, AllBars
    <3> QED
      BY <3>2, <3>3, <3>4
  <2>2. ASSUME NEW i \in Evaluated(saved) PROVE HasClosed(saved[i].asOf + Window)'
    <3> DEFINE b == saved[i].asOf + Window
    <3>1. b \in Nat /\ HasClosed(b)
      BY <1>2, RowsAreTyped DEF Evaluated, DirectionInv, EvaluatedHaveClosed
    <3>2. b * BarLength \in Nat /\ b * BarLength <= now
      BY <1>1, <3>1 DEF HasClosed
    <3>3. b * BarLength <= now'
      BY <1>1, <3>2
    <3> QED
      BY <3>3 DEF HasClosed
  <2> QED
    BY <2>1, <2>2 DEF EvaluatedHaveClosed, Evaluated, HasClosed
<1>4. ReaderIsAhead'
  <2>1. CASE direction'.at = "idle"
    BY <2>1 DEF ReaderIsAhead
  <2>2. CASE direction' = direction /\ direction.at # "idle"
    <3>1. /\ direction.last \in Cached /\ HasClosed(direction.last)
          /\ \A i \in Evaluated(predictions) : predictions[i].asOf + Window <= direction.last
          /\ direction.at = "register" => Evaluated(predictions) = DOMAIN predictions
      BY <2>2 DEF DirectionInv, ReaderIsAhead
    <3>2. direction.last * BarLength \in Nat /\ direction.last * BarLength <= now
      BY <1>1, <3>1 DEF HasClosed
    <3>3. direction.last * BarLength <= now'
      BY <1>1, <3>2
    <3> QED
      BY <2>2, <3>1, <3>3 DEF ReaderIsAhead, Evaluated, HasClosed
  <2> QED
    BY <2>1, <2>2
<1> QED
  BY <1>3, <1>4

LEMMA CacheStepKeeps == ASSUME DirectionInv, CacheStep PROVE DirectionInv'
<1> USE DEF DirectionInv
<1>1. now \in Nat
  BY CachedAreBars DEF CacheInv
<1>2. UNCHANGED <<predictions, saved, direction, losses>>
  BY DEF CacheStep
<1>3. /\ CacheInv' /\ now' \in Nat /\ now <= now' /\ Cached \subseteq Cached'
      /\ Cached = {} /\ Cached' # {} => Cached' = {b \in AllBars : HasBegun(b)}'
  <2>1. CASE ClockTicks
    BY <1>1, <2>1, ClockKeeps
  <2>2. CASE \E f \in BOOLEAN : EnsureFetches(f)
    <3>1. PICK f \in BOOLEAN : EnsureFetches(f)
      BY <2>2
    <3>2. /\ CacheInv' /\ Cached \subseteq Cached' /\ now' = now
          /\ Cached = {} => Cached' = {b \in AllBars : HasBegun(b)}
      BY <3>1, FetchesKeeps
    <3>3. {b \in AllBars : HasBegun(b)}' = {b \in AllBars : HasBegun(b)}
      BY <3>2 DEF HasBegun, AllBars
    <3> QED
      BY <1>1, <3>2, <3>3
  <2>3. CASE \E f \in BOOLEAN : EnsureFails(f)
    BY <1>1, <2>3, FailsKeeps
  <2> QED
    BY <2>1, <2>2, <2>3 DEF CacheStep
<1>4. EvaluatedHaveClosed' /\ ReaderIsAhead'
  BY <1>2, <1>3, GoesOn
<1>5. LedgerTypeOK' /\ Apart(predictions)' /\ Apart(saved)'
  BY <1>2 DEF LedgerTypeOK, Apart
<1> QED
  BY <1>3, <1>4, <1>5

(* the worker goes on, or gives up, and writes nothing *)
LEMMA WorkerMoves ==
  ASSUME DirectionInv, UNCHANGED <<cacheVars, predictions, losses>>,
         saved' = saved \/ saved' = predictions,
         direction' \in [at : {"idle", "evaluate", "look", "register"}, last : Nat],
         ReaderIsAhead'
  PROVE  DirectionInv'
<1> USE DEF DirectionInv
<1>1. CacheInv' /\ Cached' = Cached /\ now' = now
  BY CacheUnmoved
<1>2. LedgerTypeOK'
  BY DEF LedgerTypeOK
<1>3. Apart(predictions)' /\ Apart(saved)'
  BY DEF Apart
<1>4. EvaluatedHaveClosed'
  BY <1>1 DEF EvaluatedHaveClosed, Evaluated, HasClosed
<1> QED
  BY <1>1, <1>2, <1>3, <1>4

LEMMA ReadBarsKeeps == ASSUME DirectionInv, ReadBars PROVE DirectionInv'
<1> USE DEF DirectionInv
<1>1. now \in Nat /\ MaxNow \in Nat /\ BarLength \in Nat \ {0} /\ Cached \subseteq AllBars
      /\ AllBars \subseteq Nat
  BY CachedAreBars DEF CacheInv
<1>2. ClosedOnly # {}
  <2> SUFFICES ASSUME ClosedOnly = {} PROVE FALSE
    OBVIOUS
  <2>1. Cardinality({}) = 0
    BY FS_EmptySet
  <2>2. Cardinality(ClosedOnly) >= MinBars /\ MinBars \in Nat \ {0}
    BY DirectionAssumption DEF ReadBars, DirectionAssumption
  <2> QED
    BY <2>1, <2>2
<1>3. ClosedOnly \subseteq 0..(MaxNow + 1) /\ MaxNow + 1 \in Nat
  <2>1. ClosedOnly \subseteq Cached
    BY DEF ClosedOnly
  <2>2. AllBars \subseteq 0..(MaxNow + 1)
    BY <1>1 DEF AllBars
  <2> QED
    BY <1>1, <2>1, <2>2
<1>4. PICK m \in ClosedOnly : \A c \in ClosedOnly : c <= m
  BY <1>2, <1>3, GreatestOf
<1> DEFINE l == Latest(ClosedOnly)
<1>5. l \in ClosedOnly /\ \A c \in ClosedOnly : c <= l
  BY <1>4, Zenon DEF Latest
<1> HIDE DEF l
<1>6. l \in Cached /\ HasClosed(l) /\ l \in Nat
  BY <1>1, <1>5 DEF ClosedOnly
<1>7. direction' = [at |-> "evaluate", last |-> l] /\ UNCHANGED <<cacheVars, predictions, saved, losses>>
  BY DEF ReadBars, l
<1>8. ASSUME NEW i \in Evaluated(predictions) PROVE predictions[i].asOf + Window <= l
  <2>1. HasClosed(predictions[i].asOf + Window)
        /\ predictions[i].asOf + Window \in Cached
    BY <1>6 DEF EvaluatedHaveClosed
  <2> QED
    BY <1>5, <2>1 DEF ClosedOnly
<1>9. ReaderIsAhead'
  BY <1>6, <1>7, <1>8 DEF ReaderIsAhead, Evaluated, Cached, HasClosed, cacheVars
<1>10. direction' \in [at : {"idle", "evaluate", "look", "register"}, last : Nat]
  BY <1>6, <1>7
<1> QED
  BY <1>7, <1>9, <1>10, WorkerMoves

LEMMA AllEvaluatedKeeps == ASSUME DirectionInv, AllEvaluated PROVE DirectionInv'
<1>1. direction \in [at : {"idle", "evaluate", "look", "register"}, last : Nat]
  BY DEF DirectionInv, LedgerTypeOK
<1>2. /\ direction' = [direction EXCEPT !.at = "look"] /\ direction.at # "idle"
      /\ UNCHANGED <<cacheVars, predictions, saved, losses>>
  BY DEF AllEvaluated
<1>3. direction'.at = "look" /\ direction'.last = direction.last
      /\ direction' \in [at : {"idle", "evaluate", "look", "register"}, last : Nat]
  BY <1>1, <1>2
<1>4. ReaderIsAhead'
  BY <1>2, <1>3 DEF DirectionInv, ReaderIsAhead, Evaluated, Cached, HasClosed, cacheVars
<1> QED
  BY <1>2, <1>3, <1>4, WorkerMoves

LEMMA LookForPendingKeeps == ASSUME DirectionInv, LookForPending PROVE DirectionInv'
<1>1. direction \in [at : {"idle", "evaluate", "look", "register"}, last : Nat]
      /\ predictions \in Seq(PredictionRows)
  BY DEF DirectionInv, LedgerTypeOK
<1>2. direction.at # "idle" /\ UNCHANGED <<cacheVars, predictions, saved, losses>>
  BY DEF LookForPending
<1>3. CASE Pendings = {}
  <2>1. direction' = [direction EXCEPT !.at = "register"]
    BY <1>3 DEF LookForPending
  <2>2. direction'.at = "register" /\ direction'.last = direction.last
        /\ direction' \in [at : {"idle", "evaluate", "look", "register"}, last : Nat]
    BY <1>1, <2>1
  <2>3. \A i \in DOMAIN predictions : predictions[i].status \in {"PENDING", "EVALUATED"}
    BY <1>1, RowsAreTyped DEF PredictionRows
  <2>4. Evaluated(predictions) = DOMAIN predictions
    BY <1>3, <2>3 DEF Pendings, Evaluated
  <2>5. ReaderIsAhead'
    BY <1>2, <2>2, <2>4 DEF DirectionInv, ReaderIsAhead, Evaluated, Cached, HasClosed, cacheVars
  <2> QED
    BY <1>2, <2>2, <2>5, WorkerMoves
<1>4. CASE Pendings # {}
  <2>1. direction' = [at |-> "idle", last |-> 0]
    BY <1>4 DEF LookForPending
  <2>2. ReaderIsAhead'
    BY <2>1 DEF ReaderIsAhead
  <2> QED
    BY <1>2, <2>1, <2>2, WorkerMoves
<1> QED
  BY <1>3, <1>4

LEMMA DirectionStopsKeeps == ASSUME DirectionInv, DirectionStops PROVE DirectionInv'
<1>1. direction' = [at |-> "idle", last |-> 0] /\ UNCHANGED <<cacheVars, predictions, saved, losses>>
  BY DEF DirectionStops
<1>2. ReaderIsAhead'
  BY <1>1 DEF ReaderIsAhead
<1> QED
  BY <1>1, <1>2, WorkerMoves

LEMMA SaveLedgerKeeps == ASSUME DirectionInv, SaveLedger PROVE DirectionInv'
<1>1. saved' = predictions /\ UNCHANGED <<cacheVars, predictions, direction, losses>>
  BY DEF SaveLedger
<1>2. ReaderIsAhead'
  BY <1>1 DEF DirectionInv, ReaderIsAhead, Evaluated, Cached, HasClosed, cacheVars
<1>3. direction' \in [at : {"idle", "evaluate", "look", "register"}, last : Nat]
  BY <1>1 DEF DirectionInv, LedgerTypeOK
<1> QED
  BY <1>1, <1>2, <1>3, WorkerMoves

LEMMA ContainerLostKeeps == ASSUME DirectionInv, ContainerLost PROVE DirectionInv'
<1> USE DEF DirectionInv
<1>1. /\ CacheLost /\ predictions' = saved /\ saved' = saved
      /\ direction' = [at |-> "idle", last |-> 0] /\ losses < MaxLosses /\ losses' = losses + 1
  BY DEF ContainerLost
<1>2. CacheInv' /\ Cached' = {} /\ now' = now
  BY <1>1, LostKeeps
<1>3. LedgerTypeOK'
  BY <1>1, DirectionAssumption DEF LedgerTypeOK, DirectionAssumption
<1>4. Apart(predictions)' /\ Apart(saved)'
  BY <1>1 DEF Apart
<1>5. EvaluatedHaveClosed'
  BY <1>1, <1>2 DEF EvaluatedHaveClosed, Evaluated, HasClosed
<1>6. ReaderIsAhead'
  BY <1>1 DEF ReaderIsAhead
<1> QED
  BY <1>2, <1>3, <1>4, <1>5, <1>6

(* _trade_path ends within the window *)
LEMMA ExitWithinWindow ==
  ASSUME NEW touch \in [1..Window -> Touches] PROVE ExitAt(touch) \in 1..Window
<1>1. Window \in Nat \ {0}
  BY DirectionAssumption DEF DirectionAssumption
<1>2. CASE ~ \E k \in 1..Window : touch[k] # "quiet"
  BY <1>1, <1>2 DEF ExitAt
<1>3. CASE \E k \in 1..Window : touch[k] # "quiet"
  <2> DEFINE T == {k \in 1..Window : touch[k] # "quiet"}
  <2>1. T \subseteq Nat /\ T # {}
    BY <1>1, <1>3
  <2> HIDE DEF T
  <2>2. PICK m \in T : \A y \in T : m <= y
    BY <2>1, LeastOf
  <2>3. m \in 1..Window /\ touch[m] # "quiet"
    BY DEF T
  <2>4. \A j \in 1..(m - 1) : touch[j] = "quiet"
    <3> SUFFICES ASSUME NEW j \in 1..(m - 1), touch[j] # "quiet" PROVE FALSE
      OBVIOUS
    <3>1. j \in 1..Window /\ ~(m <= j)
      BY <1>1, <2>3
    <3> QED
      BY <2>2, <3>1 DEF T
  <2>5. \E k \in 1..Window : touch[k] # "quiet" /\ \A j \in 1..(k - 1) : touch[j] = "quiet"
    BY <2>3, <2>4
  <2>6. (CHOOSE k \in 1..Window : touch[k] # "quiet" /\ \A j \in 1..(k - 1) : touch[j] = "quiet")
        \in 1..Window
    BY <2>5, Zenon
  <2> QED
    BY <1>3, <2>6, Zenon DEF ExitAt
<1> QED
  BY <1>2, <1>3

LEMMA OutcomeOf ==
  ASSUME NEW p \in PredictionRows, NEW touch \in [1..Window -> Touches]
  PROVE  /\ Outcome(p, touch) \in PredictionRows
         /\ Outcome(p, touch).asOf = p.asOf /\ Outcome(p, touch).status = "EVALUATED"
         /\ Outcome(p, touch).entry = p.asOf + 1
         /\ Outcome(p, touch).exit \in (p.asOf + 1)..(p.asOf + Window)
<1>1. ExitAt(touch) \in 1..Window /\ Window \in Nat \ {0}
  BY ExitWithinWindow, DirectionAssumption DEF DirectionAssumption
<1> DEFINE e == IF p.decision = "NO_TRADE" THEN p.asOf + Window ELSE p.asOf + ExitAt(touch)
<1>2. p.asOf \in Nat /\ p.decision \in Decisions
  BY DEF PredictionRows
<1>3. e \in (p.asOf + 1)..(p.asOf + Window)
  BY <1>1, <1>2
<1>4. ExitReason(p.decision, touch) \in {"NONE", "WAIT_WINDOW", "TIME", "TARGET", "STOP"}
  BY DEF ExitReason
<1>5. Outcome(p, touch) =
        [asOf |-> p.asOf, decision |-> p.decision, status |-> "EVALUATED",
         entry |-> p.asOf + 1, exit |-> e, reason |-> ExitReason(p.decision, touch)]
  BY DEF Outcome
<1> HIDE DEF e
<1>6. e \in Nat
  BY <1>1, <1>2, <1>3
<1> QED
  BY <1>2, <1>3, <1>4, <1>5, <1>6 DEF PredictionRows

LEMMA EvaluatePairKeeps ==
  ASSUME DirectionInv, NEW i \in DOMAIN predictions, NEW touch \in [1..Window -> Touches],
         EvaluatePair(i, touch)
  PROVE  DirectionInv'
<1> USE DEF DirectionInv
<1> DEFINE p == predictions[i]
           o == Outcome(p, touch)
<1>1. predictions \in Seq(PredictionRows) /\ saved \in Seq(PredictionRows)
      /\ direction \in [at : {"idle", "evaluate", "look", "register"}, last : Nat]
  BY DEF LedgerTypeOK
<1>2. p \in PredictionRows /\ p.asOf \in Nat /\ Window \in Nat \ {0} /\ direction.last \in Nat
  BY <1>1, RowsAreTyped
<1>3. /\ o \in PredictionRows /\ o.asOf = p.asOf /\ o.status = "EVALUATED"
      /\ o.entry = p.asOf + 1 /\ o.exit \in (p.asOf + 1)..(p.asOf + Window)
  BY <1>2, OutcomeOf
<1>4. /\ direction.at = "evaluate" /\ p.status = "PENDING"
      /\ direction.last - p.asOf >= Window
      /\ predictions' = [predictions EXCEPT ![i] = o]
      /\ UNCHANGED <<cacheVars, saved, direction, losses>>
  BY DEF EvaluatePair, Pendings
<1> HIDE DEF o
<1>5. /\ predictions' \in Seq(PredictionRows) /\ DOMAIN predictions' = DOMAIN predictions
      /\ predictions'[i] = o
      /\ \A j \in DOMAIN predictions : j # i => predictions'[j] = predictions[j]
  BY <1>1, <1>3, <1>4
<1>6. CacheInv' /\ Cached' = Cached /\ now' = now
  BY <1>4, CacheUnmoved
<1>7. LedgerTypeOK'
  BY <1>4, <1>5 DEF LedgerTypeOK
<1>8. Apart(predictions')
  <2> SUFFICES ASSUME NEW k \in DOMAIN predictions, NEW j \in DOMAIN predictions
               PROVE  /\ k < j => predictions'[k].status = "EVALUATED"
                                  /\ predictions'[k].asOf + Window <= predictions'[j].asOf
                      /\ predictions'[k].status = "EVALUATED" =>
                           /\ predictions'[k].entry = predictions'[k].asOf + 1
                           /\ predictions'[k].exit
                                \in predictions'[k].entry..(predictions'[k].asOf + Window)
    BY <1>5 DEF Apart
  <2>1. predictions'[k].asOf = predictions[k].asOf /\ predictions'[j].asOf = predictions[j].asOf
    BY <1>3, <1>5
  <2>2. CASE k = i
    BY <2>1, <2>2, <1>3, <1>4, <1>5 DEF Apart
  <2>3. CASE k # i
    BY <2>1, <2>3, <1>5 DEF Apart
  <2> QED
    BY <2>2, <2>3
<1>9. Apart(saved')
  BY <1>4 DEF Apart
<1>10. direction.last \in Cached /\ HasClosed(direction.last)
       /\ \A j \in Evaluated(predictions) : predictions[j].asOf + Window <= direction.last
  BY <1>4 DEF ReaderIsAhead
<1>11. now \in Nat /\ BarLength \in Nat \ {0}
  BY CachedAreBars DEF CacheInv
<1>12. o.asOf + Window \in 1..direction.last
  BY <1>2, <1>3, <1>4
<1>13. o.asOf + Window \in Cached
  BY <1>10, <1>12 DEF CacheInv, OnlyLastRowIsPartial
<1>14. HasClosed(o.asOf + Window)
  <2> DEFINE b == o.asOf + Window
  <2>1. PICK d \in Nat : direction.last = b + d
    <3>1. direction.last - b \in Nat /\ direction.last = b + (direction.last - b)
      BY <1>2, <1>12
    <3> QED
      BY <3>1
  <2>2. b \in Nat
    BY <1>12
  <2> HIDE DEF b
  <2>3. direction.last * BarLength = b * BarLength + d * BarLength /\ d * BarLength >= 0
        /\ b * BarLength \in Nat /\ direction.last * BarLength <= now
    BY <2>1, <2>2, <1>10, <1>11 DEF HasClosed
  <2>4. b * BarLength <= now
    <3>1. d * BarLength \in Nat
      BY <2>1, <1>11
    <3> QED
      BY <2>3, <3>1, <1>11
  <2> QED
    BY <2>4 DEF HasClosed, b
<1>15. Evaluated(predictions)' = Evaluated(predictions) \union {i}
  BY <1>3, <1>5 DEF Evaluated
<1>16. EvaluatedHaveClosed'
  <2>1. \A j \in Evaluated(predictions) \union {i} :
          /\ HasClosed(predictions'[j].asOf + Window)
          /\ Cached # {} => predictions'[j].asOf + Window \in Cached
    <3> SUFFICES ASSUME NEW j \in Evaluated(predictions) \union {i}
                 PROVE  /\ HasClosed(predictions'[j].asOf + Window)
                        /\ Cached # {} => predictions'[j].asOf + Window \in Cached
      OBVIOUS
    <3>1. CASE j = i
      BY <3>1, <1>5, <1>13, <1>14
    <3>2. CASE j # i /\ j \in Evaluated(predictions)
      BY <3>2, <1>5 DEF EvaluatedHaveClosed, Evaluated
    <3> QED
      BY <3>1, <3>2
  <2> QED
    BY <1>4, <1>6, <1>15, <2>1 DEF EvaluatedHaveClosed, Evaluated, HasClosed
<1>17. ReaderIsAhead'
  <2>1. \A j \in Evaluated(predictions) \union {i} : predictions'[j].asOf + Window <= direction.last
    BY <1>2, <1>3, <1>5, <1>10, <1>12 DEF Evaluated
  <2> QED
    BY <1>4, <1>6, <1>10, <1>15, <2>1 DEF ReaderIsAhead, HasClosed
<1> QED
  BY <1>6, <1>7, <1>8, <1>9, <1>16, <1>17

LEMMA RegisterKeeps ==
  ASSUME DirectionInv, NEW side \in Decisions, Register(side) PROVE DirectionInv'
<1> USE DEF DirectionInv
<1> DEFINE row == [asOf |-> direction.last, decision |-> side, status |-> "PENDING",
                   entry |-> 0, exit |-> 0, reason |-> "NONE"]
<1>1. predictions \in Seq(PredictionRows) /\ saved \in Seq(PredictionRows)
      /\ direction \in [at : {"idle", "evaluate", "look", "register"}, last : Nat]
  BY DEF LedgerTypeOK
<1>2. row \in PredictionRows /\ row.asOf = direction.last /\ row.status = "PENDING"
  BY <1>1 DEF PredictionRows
<1>3. /\ direction' = [at |-> "idle", last |-> 0] /\ direction.at = "register"
      /\ UNCHANGED <<cacheVars, saved, losses>>
  BY DEF Register
<1>4. CASE predictions' = predictions
  <2>1. ReaderIsAhead'
    BY <1>3 DEF ReaderIsAhead
  <2> QED
    BY <1>3, <1>4, <2>1, WorkerMoves
<1>5. CASE predictions' = Append(predictions, row)
  <2> DEFINE n == Len(predictions)
  <2> HIDE DEF row
  <2>1. n \in Nat /\ DOMAIN predictions = 1..n
    BY <1>1
  <2>2. /\ predictions' \in Seq(PredictionRows) /\ DOMAIN predictions' = 1..(n + 1)
        /\ predictions'[n + 1] = row
        /\ \A i \in 1..n : predictions'[i] = predictions[i]
    BY <1>1, <1>2, <1>5
  <2>3. \A i \in 1..n : predictions[i].status = "EVALUATED"
                        /\ predictions[i].asOf + Window <= direction.last
    BY <1>3, <2>1 DEF ReaderIsAhead, Evaluated
  <2>4. CacheInv' /\ Cached' = Cached /\ now' = now
    BY <1>3, CacheUnmoved
  <2>5. LedgerTypeOK'
    BY <1>3, <2>2 DEF LedgerTypeOK
  <2>6. Apart(predictions')
    <3> SUFFICES ASSUME NEW i \in 1..(n + 1), NEW j \in 1..(n + 1)
                 PROVE  /\ i < j => predictions'[i].status = "EVALUATED"
                                    /\ predictions'[i].asOf + Window <= predictions'[j].asOf
                        /\ predictions'[i].status = "EVALUATED" =>
                             /\ predictions'[i].entry = predictions'[i].asOf + 1
                             /\ predictions'[i].exit
                                  \in predictions'[i].entry..(predictions'[i].asOf + Window)
      BY <2>2 DEF Apart
    <3>1. CASE i = n + 1
      BY <3>1, <2>1, <2>2, <1>2
    <3>2. CASE i \in 1..n /\ j \in 1..n
      BY <3>2, <2>1, <2>2 DEF Apart
    <3>3. CASE i \in 1..n /\ j = n + 1
      <4>1. predictions'[i] = predictions[i] /\ predictions'[j] = row
        BY <3>3, <2>2
      <4>2. predictions[i].status = "EVALUATED" /\ predictions[i].asOf + Window <= row.asOf
        BY <3>3, <2>3, <1>2
      <4>3. /\ predictions[i].entry = predictions[i].asOf + 1
            /\ predictions[i].exit \in predictions[i].entry..(predictions[i].asOf + Window)
        BY <3>3, <4>2, <2>1 DEF Apart
      <4> QED
        BY <4>1, <4>2, <4>3
    <3>4. (i = n + 1) \/ (i \in 1..n /\ j \in 1..n) \/ (i \in 1..n /\ j = n + 1)
      BY <2>1
    <3> QED
      BY <3>1, <3>2, <3>3, <3>4
  <2>7. Apart(saved')
    BY <1>3 DEF Apart
  <2>8. Evaluated(predictions)' = Evaluated(predictions)
    BY <1>2, <2>1, <2>2 DEF Evaluated
  <2>9. EvaluatedHaveClosed'
    <3>1. \A i \in Evaluated(predictions) : predictions'[i] = predictions[i]
      BY <2>1, <2>2 DEF Evaluated
    <3> QED
      BY <1>3, <2>4, <2>8, <3>1 DEF EvaluatedHaveClosed, Evaluated, HasClosed
  <2>10. ReaderIsAhead'
    BY <1>3 DEF ReaderIsAhead
  <2> QED
    BY <2>4, <2>5, <2>6, <2>7, <2>9, <2>10
<1> QED
  BY <1>4, <1>5 DEF Register

LEMMA DirectionInvNext == DirectionInv /\ [DirectionNext]_directionVars => DirectionInv'
<1> SUFFICES ASSUME DirectionInv, [DirectionNext]_directionVars PROVE DirectionInv'
  OBVIOUS
<1>1. ASSUME NEW i \in DOMAIN predictions, NEW touch \in [1..Window -> Touches],
             EvaluatePair(i, touch)
      PROVE  DirectionInv'
  BY <1>1, EvaluatePairKeeps
<1>2. ASSUME NEW side \in Decisions, Register(side) PROVE DirectionInv'
  BY <1>2, RegisterKeeps
<1>3. CASE UNCHANGED directionVars
  <2>1. UNCHANGED <<cacheVars, predictions, saved, direction, losses>>
    BY <1>3 DEF directionVars
  <2>2. ReaderIsAhead'
    BY <2>1 DEF DirectionInv, ReaderIsAhead, Evaluated, Cached, HasClosed, cacheVars
  <2>3. direction' \in [at : {"idle", "evaluate", "look", "register"}, last : Nat]
    BY <2>1 DEF DirectionInv, LedgerTypeOK
  <2> QED
    BY <2>1, <2>2, <2>3, WorkerMoves
<1> QED
  BY <1>1, <1>2, <1>3, CacheStepKeeps, ReadBarsKeeps, AllEvaluatedKeeps, LookForPendingKeeps,
     DirectionStopsKeeps, SaveLedgerKeeps, ContainerLostKeeps
  DEF DirectionNext

LEMMA DirectionInvHolds == DirectionSpec => []DirectionInv
<1> QED
  BY DirectionInvInit, DirectionInvNext, PTL DEF DirectionSpec

(* Every variable of the cache, the worker and the ledger keeps its type. *)
THEOREM DirectionTypeCorrect == DirectionSpec => []DirectionTypeOK
<1>1. DirectionInv => DirectionTypeOK
  BY DEF DirectionInv, CacheInv, LedgerTypeOK, DirectionTypeOK
<1> QED
  BY <1>1, DirectionInvHolds, PTL

(* No answer leaves a gap behind it, and a row that was fetched before its *)
(* bar had closed is the last one: the next answer replaces it             *)
(* (market_cache.ensure and its overlap).                                  *)
THEOREM PartialRowsAreLast == DirectionSpec => []OnlyLastRowIsPartial
<1>1. DirectionInv => OnlyLastRowIsPartial
  BY DEF DirectionInv, CacheInv
<1> QED
  BY <1>1, DirectionInvHolds, PTL

(* The samples of a pair are of disjoint windows, and each result lies in  *)
(* its own, whatever was stopped, lost or restored (direction_forward.py). *)
THEOREM SamplesAreIndependent == DirectionSpec => []SamplesDoNotOverlap
<1>1. DirectionInv => SamplesDoNotOverlap
  BY DEF DirectionInv, Apart, SamplesDoNotOverlap
<1> QED
  BY <1>1, DirectionInvHolds, PTL

-----------------------------------------------------------------------------
(* What a bar does *)

(* a sleeve counts bars only while it is in the market *)
Steady(s) == s.entry = 0 => s.held = 0

ForwardNumbers == LastDay \in Nat /\ MaxHeld \in Nat \ {0} /\ MaxAborts \in Nat

LEMMA QuotesAreRecords ==
  /\ ForwardNumbers
  /\ \A q \in Quotes : q.open \in Opens /\ q.signal \in {0, 1} /\ q.range \in {"quiet", "stop", "target", "both"}
BY ForwardAssumption DEF ForwardAssumption, ForwardNumbers, Opens

(* one fill at most for each reason, and all of them of this bar *)
FillsOf(n, new) ==
  /\ \A t \in new : t \in Fills /\ t.bar = n
  /\ \A t, u \in new : SameRow(t, u) => t = u

LEMMA FillType ==
  ASSUME NEW s \in StateRows, NEW q \in Quotes, NEW n \in 1..LastDay,
         NEW action \in {"BUY", "SELL"}, NEW reason \in {"SIGNAL", "STOP", "TAKE_PROFIT", "TIME_EXIT"},
         NEW price \in Opens
  PROVE  /\ Fill(s, q, n, action, reason, price) \in Fills
         /\ Fill(s, q, n, action, reason, price).bar = n
         /\ Fill(s, q, n, action, reason, price).reason = reason
BY DEF Fill, Fills, StateRows

(* a step of a bar: at most one more fill *)
Adds(s, t, n, reasons) ==
  /\ t \in StateRows /\ t.last = s.last /\ t.pending = s.pending /\ Steady(t)
  /\ \/ t.fills = s.fills
     \/ \E f \in Fills : f.bar = n /\ f.reason \in reasons /\ t.fills = s.fills \union {f}

LEMMA TimeExitAdds ==
  ASSUME NEW s \in StateRows, NEW q \in Quotes, NEW n \in 1..LastDay
  PROVE  Adds(s, TimeExit(s, q, n), n, {"SIGNAL", "TIME_EXIT"})
<1> DEFINE f == Fill(s, q, n, "SELL", "TIME_EXIT", q.open)
<1>1. f \in Fills /\ f.bar = n /\ f.reason = "TIME_EXIT"
  BY QuotesAreRecords, FillType
<1> HIDE DEF f
<1>2. TimeExit(s, q, n) = [fills |-> s.fills \union {f}, entry |-> 0, pending |-> s.pending,
                           held |-> 0, last |-> s.last]
  <2>1. TimeExit(s, q, n) = [s EXCEPT !.fills = s.fills \union {f}, !.entry = 0, !.held = 0]
    BY DEF TimeExit, f
  <2> QED  BY <2>1 DEF StateRows
<1>3. 0 \in 0..MaxHeld
  BY QuotesAreRecords DEF ForwardNumbers
<1>4. s.fills \union {f} \in SUBSET Fills
  BY <1>1 DEF StateRows
<1>5. TimeExit(s, q, n) \in StateRows
  BY <1>2, <1>3, <1>4 DEF StateRows
<1> QED
  BY <1>1, <1>2, <1>5 DEF Adds, Steady

LEMMA AtOpenAdds ==
  ASSUME NEW s \in StateRows, Steady(s), NEW q \in Quotes, NEW n \in 1..LastDay
  PROVE  Adds(s, AtOpen(s, q, n), n, {"SIGNAL", "TIME_EXIT"})
<1>a. 0 \in 0..MaxHeld /\ q.open \in Opens /\ q.open # 0
  BY QuotesAreRecords, ForwardAssumption DEF ForwardNumbers, ForwardAssumption
<1>1. CASE s.pending = 1 /\ s.entry = 0
  <2> DEFINE f == Fill(s, q, n, "BUY", "SIGNAL", q.open)
  <2>1. f \in Fills /\ f.bar = n /\ f.reason = "SIGNAL"
    BY <1>a, FillType
  <2> HIDE DEF f
  <2>2. AtOpen(s, q, n) = [fills |-> s.fills \union {f}, entry |-> q.open, pending |-> s.pending,
                           held |-> s.held, last |-> s.last]
    BY <1>1 DEF AtOpen, StateRows, f
  <2> QED  BY <1>a, <2>1, <2>2 DEF Adds, StateRows, Steady
<1>2. CASE s.pending = 0 /\ s.entry # 0
  <2> DEFINE f == Fill(s, q, n, "SELL", "SIGNAL", q.open)
  <2>1. f \in Fills /\ f.bar = n /\ f.reason = "SIGNAL"
    BY <1>a, FillType
  <2> HIDE DEF f
  <2>2. AtOpen(s, q, n) = [fills |-> s.fills \union {f}, entry |-> 0, pending |-> s.pending,
                           held |-> 0, last |-> s.last]
    BY <1>2 DEF AtOpen, StateRows, f
  <2> QED  BY <1>a, <2>1, <2>2 DEF Adds, StateRows, Steady
<1>3. CASE ~(s.pending = 1 /\ s.entry = 0) /\ ~(s.pending = 0 /\ s.entry # 0)
  <2>1. AtOpen(s, q, n) = s
    BY <1>3 DEF AtOpen
  <2> QED  BY <2>1 DEF Adds
<1> QED  BY <1>1, <1>2, <1>3

LEMMA ProtectedAdds ==
  ASSUME NEW s \in StateRows, Steady(s), NEW q \in Quotes, NEW n \in 1..LastDay
  PROVE  Adds(s, Protected(s, q, n), n, {"STOP", "TAKE_PROFIT"})
<1>1. CASE s.entry # 0 /\ q.range # "quiet"
  <2> DEFINE reason == IF q.range = "target" THEN "TAKE_PROFIT" ELSE "STOP"
             f == Fill(s, q, n, "SELL", reason, s.entry)
  <2>1. reason \in {"STOP", "TAKE_PROFIT"} /\ s.entry \in Opens
    BY <1>1 DEF StateRows
  <2>2. f = Fill(s, q, n, "SELL", IF q.range = "target" THEN "TAKE_PROFIT" ELSE "STOP", s.entry)
    OBVIOUS
  <2> HIDE DEF reason
  <2>3. f \in Fills /\ f.bar = n /\ f.reason = reason
    BY <2>1, FillType
  <2> HIDE DEF f
  <2>4. Protected(s, q, n) = [fills |-> s.fills \union {f}, entry |-> 0, pending |-> s.pending,
                              held |-> 0, last |-> s.last]
    BY <1>1, <2>2 DEF Protected, StateRows
  <2>5. 0 \in 0..MaxHeld
    BY QuotesAreRecords DEF ForwardNumbers
  <2> QED  BY <2>1, <2>3, <2>4, <2>5 DEF Adds, StateRows, Steady
<1>2. CASE ~(s.entry # 0 /\ q.range # "quiet")
  <2>1. Protected(s, q, n) = s
    BY <1>2 DEF Protected
  <2> QED  BY <2>1 DEF Adds
<1> QED  BY <1>1, <1>2

(* A bar moves the cursor to itself, keeps the fills before it and adds    *)
(* one at most for each reason.                                            *)
LEMMA BarIsBooked ==
  ASSUME NEW c \in Candidates, NEW s \in StateRows, Steady(s),
         NEW q \in Quotes, NEW n \in 1..LastDay
  PROVE  LET t == AfterBar(c, s, q, n)
         IN  /\ t \in StateRows /\ t.last = n /\ Steady(t)
             /\ s.fills \subseteq t.fills /\ FillsOf(n, t.fills \ s.fills)
<1> DEFINE o == IF book[c] = "horizon" /\ s.entry # 0 /\ s.held >= MaxHeld
                THEN TimeExit(s, q, n) ELSE AtOpen(s, q, n)
           p == Protected(o, q, n)
           t == AfterBar(c, s, q, n)
<1>1. Adds(s, o, n, {"SIGNAL", "TIME_EXIT"})
  BY TimeExitAdds, AtOpenAdds
<1>2. o \in StateRows /\ Steady(o)
  BY <1>1 DEF Adds
<1>t. t = IF book[c] = "horizon"
          THEN [p EXCEPT !.pending = q.signal, !.last = n, !.held = IF p.entry # 0 THEN @ + 1 ELSE 0]
          ELSE [p EXCEPT !.pending = q.signal, !.last = n]
  BY DEF AfterBar, HorizonBar, ForwardBar
<1> HIDE DEF o
<1>3. Adds(o, p, n, {"STOP", "TAKE_PROFIT"})
  BY <1>2, ProtectedAdds
<1>4. p \in StateRows /\ Steady(p)
  BY <1>3 DEF Adds
<1>h. book[c] = "horizon" /\ p.entry # 0 => p.held + 1 \in 0..MaxHeld
  <2> SUFFICES ASSUME book[c] = "horizon", p.entry # 0 PROVE p.held < MaxHeld
    BY <1>4, QuotesAreRecords DEF StateRows, ForwardNumbers
  <2>1. p = o
    BY DEF Protected
  <2>2. o.entry # 0
    BY <2>1
  <2>3. ~(s.entry # 0 /\ s.held >= MaxHeld)
    BY <2>2 DEF o, TimeExit, StateRows
  <2>4. o.held = s.held \/ o.held = 0
    BY <2>3 DEF o, AtOpen, StateRows
  <2>5. MaxHeld \in Nat \ {0} /\ s.held \in Nat
    BY QuotesAreRecords DEF ForwardNumbers, StateRows
  <2>6. s.entry = 0 => s.held = 0
    BY DEF Steady
  <2> QED  BY <2>1, <2>3, <2>4, <2>5, <2>6
<1> HIDE DEF p
<1>5. /\ t.fills = p.fills /\ t.entry = p.entry /\ t.last = n /\ t.pending = q.signal
      /\ t.held = IF book[c] = "horizon" THEN IF p.entry # 0 THEN p.held + 1 ELSE 0 ELSE p.held
      /\ t = [fills |-> t.fills, entry |-> t.entry, pending |-> t.pending, held |-> t.held, last |-> t.last]
  BY <1>t, <1>4 DEF StateRows
<1> HIDE DEF t
<1>6. t \in StateRows /\ Steady(t)
  <2>1. t.held \in 0..MaxHeld
    BY <1>4, <1>5, <1>h, QuotesAreRecords DEF StateRows, ForwardNumbers
  <2>2. t.pending \in {0, 1} /\ n \in 0..LastDay /\ t.fills \in SUBSET Fills /\ t.entry \in Opens \union {0}
    BY <1>4, <1>5, QuotesAreRecords DEF StateRows, ForwardNumbers
  <2>3. t \in StateRows
    BY <1>5, <2>1, <2>2 DEF StateRows
  <2>4. t.entry = 0 => t.held = 0
    BY <1>4, <1>5 DEF Steady
  <2> QED  BY <2>3, <2>4 DEF Steady
<1>7. s.fills \subseteq o.fills /\ o.fills \subseteq t.fills
  BY <1>1, <1>3, <1>5 DEF Adds
<1>8. \A f \in o.fills \ s.fills : f \in Fills /\ f.bar = n /\ f.reason \in {"SIGNAL", "TIME_EXIT"}
  BY <1>1 DEF Adds
<1>9. \A f, g \in o.fills \ s.fills : f = g
  BY <1>1 DEF Adds
<1>10. \A f \in t.fills \ o.fills : f \in Fills /\ f.bar = n /\ f.reason \in {"STOP", "TAKE_PROFIT"}
  BY <1>3, <1>5 DEF Adds
<1>11. \A f, g \in t.fills \ o.fills : f = g
  BY <1>3, <1>5 DEF Adds
<1>12. FillsOf(n, t.fills \ s.fills)
  <2>1. \A f \in t.fills \ s.fills : f \in o.fills \ s.fills \/ f \in t.fills \ o.fills
    OBVIOUS
  <2>2. \A f \in o.fills \ s.fills, g \in t.fills \ o.fills : f.reason # g.reason
    BY <1>8, <1>10
  <2> QED  BY <2>1, <2>2, <1>8, <1>9, <1>10, <1>11 DEF FillsOf, SameRow
<1> QED
  BY <1>5, <1>6, <1>7, <1>12 DEF t

-----------------------------------------------------------------------------
(* Types, and the history in a runner's hand: the bars that had closed     *)

HistoryOf(rec) ==
  /\ Len(rec.df) <= Len(bars[rec.cand])
  /\ \A i \in 1..Len(rec.df) : rec.df[i] = bars[rec.cand][i]

Booking == {"read", "trades", "state"}

Taken == {c \in Candidates : registered[c] # -1}

Unregistered ==
  \A c \in Candidates \ Taken : DOMAIN booked[c] = {} /\ DOMAIN equity[c] = {} /\ trades[c] = {}

RunnerHolds(rec) ==
  /\ rec.left \subseteq Taken
  /\ rec.at \in Booking => rec.cand \in Taken /\ HistoryOf(rec)
  /\ Steady(rec.next)

ForwardShape ==
  /\ ForwardTypeOK
  /\ DOMAIN booked = Candidates /\ DOMAIN equity = Candidates
  /\ \A c \in Candidates : Len(bars[c]) <= LastDay /\ registered[c] <= Len(bars[c])
  /\ \A c \in Candidates : Steady(state[c])
  /\ Unregistered
  /\ \A r \in Runners : RunnerHolds(runner[r])

LEMMA IdleIsARow == Idle \in RunnerRows /\ Idle.at = "idle" /\ Idle.left = {} /\ Idle.next = NoRow /\ NoRow \in StateRows /\ Steady(NoRow)
<1>1. NoRow \in StateRows /\ Steady(NoRow)
  BY QuotesAreRecords DEF NoRow, StateRows, Steady, ForwardNumbers
<1>2. <<>> \in Seq(Quotes)
  OBVIOUS
<1> QED
  BY <1>1, <1>2 DEF Idle, RunnerRows

(* a move of a runner to a record that fits *)
LEMMA MoveKeeps ==
  ASSUME ForwardShape, NEW r \in Runners, NEW rec \in RunnerRows, RunnerHolds(rec), Move(r, rec)
  PROVE  /\ runner' \in [Runners -> RunnerRows]
         /\ \A x \in Runners : RunnerHolds(runner'[x])
<1>1. runner \in [Runners -> RunnerRows] /\ \A x \in Runners : RunnerHolds(runner[x])
  BY DEF ForwardShape, ForwardTypeOK
<1>2. runner' = [runner EXCEPT ![r] = rec]
  BY DEF Move
<1> QED
  BY <1>1, <1>2

LEMMA MoveFits ==
  ASSUME ForwardShape, NEW r \in Runners, NEW rec \in RunnerRows, RunnerHolds(rec), Move(r, rec),
         UNCHANGED <<bars, registered>>
  PROVE  /\ runner' \in [Runners -> RunnerRows]
         /\ \A x \in Runners : RunnerHolds(runner[x])'
<1>1. \A x \in Runners : RunnerHolds(runner'[x])
  BY MoveKeeps
<1>2. runner' \in [Runners -> RunnerRows]
  BY MoveKeeps
<1>3. \A x \in Runners : RunnerHolds(runner'[x]) => RunnerHolds(runner[x])'
  BY DEF RunnerHolds, Taken, HistoryOf
<1> QED  BY <1>1, <1>2, <1>3

LEMMA NextCandidateFits ==
  ASSUME ForwardShape, NEW r \in Runners
  PROVE  /\ [Idle EXCEPT !.at = "loop", !.left = runner[r].left] \in RunnerRows
         /\ RunnerHolds([Idle EXCEPT !.at = "loop", !.left = runner[r].left])
<1>1. runner[r].left \in SUBSET Candidates /\ runner[r].left \subseteq Taken
  BY DEF ForwardShape, ForwardTypeOK, RunnerHolds, RunnerRows
<1> DEFINE rec == [Idle EXCEPT !.at = "loop", !.left = runner[r].left]
<1>2. rec \in RunnerRows /\ rec.at = "loop" /\ rec.left = runner[r].left /\ rec.next = NoRow
  BY <1>1, IdleIsARow DEF RunnerRows
<1> HIDE DEF rec
<1>3. RunnerHolds(rec)
  BY <1>1, <1>2, IdleIsARow DEF RunnerHolds, Booking
<1> QED  BY <1>2, <1>3 DEF rec

(* what BookFrom hands over *)
LEMMA BookFits ==
  ASSUME ForwardShape, NEW r \in Runners, runner[r].at \in Booking,
         NEW s \in StateRows, Steady(s), s.last + 1 <= Len(runner[r].df)
  PROVE  LET rec == runner[r]
             t == AfterBar(rec.cand, s, rec.df[s.last + 1], s.last + 1)
             new == [at |-> "trades", left |-> rec.left, cand |-> rec.cand, df |-> rec.df,
                    st |-> s, next |-> t, rows |-> t.fills \ s.fills]
         IN  /\ t \in StateRows
             /\ new \in RunnerRows /\ RunnerHolds(new)
             /\ new.at = "trades" /\ new.st = s /\ new.next = t /\ new.rows = t.fills \ s.fills
             /\ new.cand = rec.cand /\ new.df = rec.df
<1> DEFINE rec == runner[r]
           n == s.last + 1
           t == AfterBar(rec.cand, s, rec.df[n], n)
           new == [at |-> "trades", left |-> rec.left, cand |-> rec.cand, df |-> rec.df,
                    st |-> s, next |-> t, rows |-> t.fills \ s.fills]
<1>1. rec \in RunnerRows /\ RunnerHolds(rec)
  BY DEF ForwardShape, ForwardTypeOK
<1>2. rec.cand \in Candidates /\ rec.cand \in Taken /\ HistoryOf(rec) /\ rec.left \subseteq Taken
  BY <1>1 DEF RunnerHolds, Taken
<1>3. rec.df \in Seq(Quotes) /\ s.last \in Nat
  BY <1>1, QuotesAreRecords DEF RunnerRows, StateRows, ForwardNumbers
<1>4. Len(rec.df) <= LastDay /\ LastDay \in Nat /\ Len(rec.df) \in Nat
  <2>1. Len(bars[rec.cand]) <= LastDay /\ bars[rec.cand] \in Seq(Quotes)
    BY <1>2 DEF ForwardShape, ForwardTypeOK
  <2> QED  BY <1>2, <1>3, <2>1, QuotesAreRecords DEF HistoryOf, ForwardNumbers
<1>5. n \in 1..LastDay /\ n \in 1..Len(rec.df)
  BY <1>3, <1>4
<1>6. rec.df[n] \in Quotes
  BY <1>3, <1>5
<1>7. t \in StateRows /\ Steady(t)
  BY <1>2, <1>5, <1>6, BarIsBooked
<1> HIDE DEF t, rec
<1>8. new = [at |-> "trades", left |-> rec.left, cand |-> rec.cand, df |-> rec.df,
             st |-> s, next |-> t, rows |-> t.fills \ s.fills]
  OBVIOUS
<1>9. t.fills \ s.fills \in SUBSET Fills
  BY <1>7 DEF StateRows
<1> HIDE DEF new
<1>10. new \in RunnerRows
  BY <1>1, <1>7, <1>8, <1>9 DEF RunnerRows
<1>11. new.at = "trades" /\ new.left = rec.left /\ new.cand = rec.cand /\ new.df = rec.df
       /\ new.st = s /\ new.next = t /\ new.rows = t.fills \ s.fills
  BY <1>8
<1>12. RunnerHolds(new)
  BY <1>2, <1>7, <1>11 DEF RunnerHolds, HistoryOf
<1> QED
  BY <1>7, <1>10, <1>11, <1>12 DEF new, t, rec

LEMMA ForwardShapeInit == ForwardInit => ForwardShape
<1> SUFFICES ASSUME ForwardInit PROVE ForwardShape
  OBVIOUS
<1>1. ForwardTypeOK
  BY IdleIsARow, QuotesAreRecords DEF ForwardInit, ForwardTypeOK, ForwardNumbers
<1>2. \A c \in Candidates : Len(bars[c]) <= LastDay /\ registered[c] <= Len(bars[c]) /\ Steady(state[c])
  BY IdleIsARow, QuotesAreRecords DEF ForwardInit, ForwardNumbers
<1>3. Unregistered
  BY DEF ForwardInit, Unregistered
<1>4. \A r \in Runners : RunnerHolds(runner[r])
  BY IdleIsARow DEF ForwardInit, RunnerHolds, Booking
<1> QED
  BY <1>1, <1>2, <1>3, <1>4 DEF ForwardInit, ForwardShape

(* a step of a runner that leaves the tables alone, or changes one of them *)
LEMMA ShapeAfterMove ==
  ASSUME ForwardShape, NEW r \in Runners, NEW rec \in RunnerRows, RunnerHolds(rec), Move(r, rec),
         UNCHANGED <<bars, registered, book>>,
         state' \in [Candidates -> StateRows], trades' \in [Candidates -> SUBSET Fills],
         aborts' \in 0..MaxAborts, DOMAIN booked' = Candidates, DOMAIN equity' = Candidates,
         \A c \in Candidates : Steady(state'[c]), Unregistered'
  PROVE  ForwardShape'
<1>1. runner' \in [Runners -> RunnerRows] /\ \A x \in Runners : RunnerHolds(runner[x])'
  BY MoveFits
<1>2. ForwardTypeOK'
  BY <1>1 DEF ForwardShape, ForwardTypeOK
<1>3. \A c \in Candidates : Steady(state[c])'
  BY DEF Steady
<1> QED
  BY <1>1, <1>2, <1>3 DEF ForwardShape

(* with the tables as they are, or one of them changed *)
LEMMA ShapeAfterBook ==
  ASSUME ForwardShape, NEW r \in Runners, runner[r].at \in Booking,
         NEW s \in StateRows, Steady(s), BookFrom(r, s),
         UNCHANGED <<bars, registered, book, trades, equity, aborts>>,
         state' \in [Candidates -> StateRows], \A c \in Candidates : Steady(state'[c]),
         DOMAIN booked' = Candidates, Unregistered'
  PROVE  ForwardShape'
<1>a. /\ trades' \in [Candidates -> SUBSET Fills] /\ aborts' \in 0..MaxAborts
      /\ DOMAIN equity' = Candidates
  BY DEF ForwardShape, ForwardTypeOK
<1>b. UNCHANGED <<bars, registered, book>>
  OBVIOUS
<1>c. runner[r].df \in Seq(Quotes) /\ s.last \in Nat
  BY QuotesAreRecords DEF ForwardShape, ForwardTypeOK, RunnerRows, StateRows, ForwardNumbers
<1>1. CASE s.last + 1 > Len(runner[r].df)
  <2>1. Move(r, [Idle EXCEPT !.at = "loop", !.left = runner[r].left])
    BY <1>1 DEF BookFrom, NextCandidate
  <2> QED
    BY <1>a, <1>b, <2>1, NextCandidateFits, ShapeAfterMove
<1>2. CASE ~(s.last + 1 > Len(runner[r].df))
  <2> DEFINE rec == runner[r]
             t == AfterBar(rec.cand, s, rec.df[s.last + 1], s.last + 1)
             new == [at |-> "trades", left |-> rec.left, cand |-> rec.cand, df |-> rec.df,
                     st |-> s, next |-> t, rows |-> t.fills \ s.fills]
  <2>1. Move(r, new)
    BY <1>2 DEF BookFrom
  <2>2. s.last + 1 <= Len(runner[r].df)
    BY <1>2, <1>c
  <2>3. new \in RunnerRows /\ RunnerHolds(new)
    BY <2>2, BookFits
  <2> HIDE DEF new
  <2> QED
    BY <1>a, <1>b, <2>1, <2>3, ShapeAfterMove
<1> QED  BY <1>1, <1>2

LEMMA ForwardShapeStep == ForwardShape /\ [ForwardNext]_forwardVars => ForwardShape'
<1> SUFFICES ASSUME ForwardShape, [ForwardNext]_forwardVars PROVE ForwardShape'
  OBVIOUS
<1>a. /\ ForwardTypeOK /\ DOMAIN booked = Candidates /\ DOMAIN equity = Candidates
      /\ \A c \in Candidates : Steady(state[c])
      /\ Unregistered
  BY DEF ForwardShape
<1>t. /\ state \in [Candidates -> StateRows] /\ trades \in [Candidates -> SUBSET Fills]
      /\ aborts \in 0..MaxAborts /\ runner \in [Runners -> RunnerRows]
      /\ registered \in [Candidates -> -1..LastDay] /\ bars \in [Candidates -> Seq(Quotes)]
  BY <1>a DEF ForwardTypeOK
<1>n. LastDay \in Nat /\ MaxHeld \in Nat \ {0} /\ MaxAborts \in Nat
  BY QuotesAreRecords DEF ForwardNumbers
(* a move of a runner that changes no table *)
<1>m. ASSUME NEW r \in Runners, NEW rec \in RunnerRows, RunnerHolds(rec), Move(r, rec),
             UNCHANGED <<bars, registered, book, state, trades, equity, booked>>,
             aborts' \in 0..MaxAborts
      PROVE  ForwardShape'
  <2>1. /\ UNCHANGED <<bars, registered, book>> /\ state' \in [Candidates -> StateRows]
        /\ trades' \in [Candidates -> SUBSET Fills]
        /\ DOMAIN booked' = Candidates /\ DOMAIN equity' = Candidates
        /\ \A c \in Candidates : Steady(state'[c])
    BY <1>m, <1>a, <1>t
  <2>2. Unregistered'
    BY <1>m, <1>a DEF Unregistered, Taken
  <2> QED  BY <1>m, <2>1, <2>2, ShapeAfterMove
<1>1. ASSUME NEW c \in Candidates, NEW q \in Quotes, DayCloses(c, q) PROVE ForwardShape'
  <2>1. bars' \in [Candidates -> Seq(Quotes)] /\ bars[c] \in Seq(Quotes)
    BY <1>1, <1>t DEF DayCloses
  <2>2. \A d \in Candidates : Len(bars'[d]) >= Len(bars[d]) /\ Len(bars'[d]) <= LastDay
    BY <1>1, <1>t, <1>n DEF DayCloses, ForwardShape
  <2>3. \A d \in Candidates : \A i \in 1..Len(bars[d]) : bars'[d][i] = bars[d][i]
    BY <1>1, <1>t DEF DayCloses
  <2>4. ForwardTypeOK'
    BY <1>1, <2>1, <1>a DEF DayCloses, ForwardTypeOK
  <2>5. \A x \in Runners : RunnerHolds(runner[x])'
    <3> SUFFICES ASSUME NEW x \in Runners PROVE RunnerHolds(runner[x])'
      OBVIOUS
    <3>1. RunnerHolds(runner[x]) /\ runner[x] \in RunnerRows /\ runner'[x] = runner[x] /\ registered' = registered
      BY <1>1, <1>t DEF DayCloses, ForwardShape
    <3>2. ASSUME runner[x].at \in Booking PROVE HistoryOf(runner[x])'
      <4>1. runner[x].cand \in Candidates /\ HistoryOf(runner[x]) /\ runner[x].df \in Seq(Quotes)
        BY <3>1, <3>2 DEF RunnerHolds, Taken, RunnerRows
      <4>2. Len(bars[runner[x].cand]) \in Nat /\ Len(runner[x].df) \in Nat /\ Len(bars'[runner[x].cand]) \in Nat
        BY <4>1, <1>t, <2>1
      <4>3. PICK k : k = runner[x].cand
        OBVIOUS
      <4>4. PICK h \in Seq(Quotes) : h = runner[x].df
        BY <4>1
      <4>5. /\ k \in Candidates /\ Len(h) \in Nat /\ Len(bars[k]) \in Nat /\ Len(bars'[k]) \in Nat
            /\ Len(h) <= Len(bars[k]) /\ \A i \in 1..Len(h) : h[i] = bars[k][i]
        BY <4>1, <4>2, <4>3, <4>4 DEF HistoryOf
      <4>6. Len(bars[k]) <= Len(bars'[k]) /\ \A i \in 1..Len(bars[k]) : bars'[k][i] = bars[k][i]
        BY <2>2, <2>3, <4>5
      <4>7. Len(h) <= Len(bars'[k]) /\ \A i \in 1..Len(h) : i \in 1..Len(bars[k])
        BY <4>5, <4>6
      <4>8. \A i \in 1..Len(h) : h[i] = bars'[k][i]
        BY <4>5, <4>6, <4>7
      <4> QED
        BY <3>1, <4>3, <4>4, <4>7, <4>8 DEF HistoryOf
    <3> QED  BY <3>1, <3>2 DEF RunnerHolds, Taken
  <2>6. \A d \in Candidates : registered'[d] <= Len(bars'[d]) /\ Steady(state'[d])
    <3> SUFFICES ASSUME NEW d \in Candidates PROVE registered'[d] <= Len(bars'[d]) /\ Steady(state'[d])
      OBVIOUS
    <3>1. registered[d] \in Int /\ Len(bars[d]) \in Nat /\ Len(bars'[d]) \in Nat
      BY <1>t, <2>1, <1>n
    <3>2. registered[d] <= Len(bars[d]) /\ registered' = registered /\ state' = state
      BY <1>1 DEF ForwardShape, DayCloses
    <3> QED  BY <1>a, <2>2, <3>1, <3>2
  <2>7. Unregistered'
    BY <1>1, <1>a DEF DayCloses, Unregistered, Taken
  <2>8. DOMAIN booked' = Candidates /\ DOMAIN equity' = Candidates
    BY <1>1, <1>a DEF DayCloses
  <2> QED
    BY <2>2, <2>4, <2>5, <2>6, <2>7, <2>8 DEF ForwardShape, Steady
<1>2. ASSUME NEW c \in Candidates, NEW kind \in {"forward", "horizon"}, RegisterCandidate(c, kind)
      PROVE  ForwardShape'
  <2>1. Len(bars[c]) \in 0..LastDay /\ registered[c] = -1
    <3>1. Len(bars[c]) \in Nat /\ Len(bars[c]) <= LastDay
      BY <1>t DEF ForwardShape
    <3> QED  BY <1>2, <1>n, <3>1 DEF RegisterCandidate
  <2>2. [NoRow EXCEPT !.last = Len(bars[c])] \in StateRows /\ Steady([NoRow EXCEPT !.last = Len(bars[c])])
    BY <2>1, IdleIsARow DEF NoRow, StateRows, Steady
  <2>3. state' \in [Candidates -> StateRows] /\ \A d \in Candidates : Steady(state'[d])
    BY <1>2, <1>a, <1>t, <2>2 DEF RegisterCandidate
  <2>4. /\ registered' \in [Candidates -> -1..LastDay]
        /\ \A d \in Candidates : registered'[d] = IF d = c THEN Len(bars[c]) ELSE registered[d]
    BY <1>2, <1>t, <1>n, <2>1 DEF RegisterCandidate
  <2>5. book' \in [Candidates -> {"none", "forward", "horizon"}]
    BY <1>2, <1>a DEF RegisterCandidate, ForwardTypeOK
  <2>6. UNCHANGED <<bars, trades, equity, runner, booked, aborts>>
    BY <1>2 DEF RegisterCandidate
  <2>7. ForwardTypeOK'
    BY <1>t, <2>3, <2>4, <2>5, <2>6 DEF ForwardTypeOK
  <2>8. \A d \in Taken : d \in Taken'
    BY <2>1, <2>4, <1>n DEF Taken
  <2>9. \A x \in Runners : RunnerHolds(runner[x])'
    BY <2>6, <2>8 DEF ForwardShape, RunnerHolds, HistoryOf
  <2>10. Unregistered'
    BY <1>a, <2>1, <2>4, <2>6, <2>8 DEF Unregistered, Taken
  <2>11. \A d \in Candidates : Len(bars'[d]) <= LastDay /\ registered'[d] <= Len(bars'[d])
    <3>1. \A d \in Candidates : Len(bars[d]) <= LastDay /\ registered[d] <= Len(bars[d]) /\ Len(bars[d]) \in Nat
      BY <1>t DEF ForwardShape
    <3> QED  BY <3>1, <2>4, <2>6
  <2> QED
    BY <1>a, <2>3, <2>6, <2>7, <2>9, <2>10, <2>11 DEF ForwardShape, Steady
<1>3. ASSUME NEW r \in Runners, StartRun(r) PROVE ForwardShape'
  <2> DEFINE rec == [Idle EXCEPT !.at = "loop", !.left = {c \in Candidates : registered[c] # -1}]
  <2>1. rec \in RunnerRows /\ rec.at = "loop" /\ rec.left = Taken /\ rec.next = NoRow
    BY IdleIsARow DEF RunnerRows, Taken
  <2>2. Move(r, rec)
    BY <1>3 DEF StartRun
  <2> HIDE DEF rec
  <2>3. RunnerHolds(rec)
    BY <2>1, IdleIsARow DEF RunnerHolds, Booking
  <2> QED
    BY <1>3, <1>m, <1>t, <2>1, <2>2, <2>3 DEF StartRun
<1>4. ASSUME NEW r \in Runners, NEW c \in Candidates, LoadHistory(r, c) PROVE ForwardShape'
  <2> DEFINE full == [runner[r] EXCEPT !.at = "read", !.left = @ \ {c}, !.cand = c, !.df = bars[c]]
             none == [runner[r] EXCEPT !.left = @ \ {c}]
  <2>0. runner[r] \in RunnerRows /\ RunnerHolds(runner[r]) /\ runner[r].at = "loop" /\ c \in runner[r].left
        /\ UNCHANGED <<bars, registered, book, state, trades, equity, booked>> /\ aborts' = aborts
    BY <1>4, <1>t DEF ForwardShape, LoadHistory
  <2>1. c \in Taken /\ bars[c] \in Seq(Quotes)
    BY <2>0, <1>t DEF RunnerHolds
  <2>2. full \in RunnerRows /\ full.at = "read" /\ full.left = runner[r].left \ {c} /\ full.cand = c
        /\ full.df = bars[c] /\ full.next = runner[r].next
    BY <2>0, <2>1 DEF RunnerRows
  <2>3. none \in RunnerRows /\ none.at = "loop" /\ none.left = runner[r].left \ {c} /\ none.next = runner[r].next
    BY <2>0 DEF RunnerRows
  <2>4. Move(r, full) \/ Move(r, none)
    BY <1>4 DEF LoadHistory
  <2> HIDE DEF full, none
  <2>5. RunnerHolds(full)
    BY <2>0, <2>1, <2>2 DEF RunnerHolds, HistoryOf
  <2>6. RunnerHolds(none)
    BY <2>0, <2>3 DEF RunnerHolds, Booking
  <2>7. CASE Move(r, full)
    BY <2>7, <2>0, <2>2, <2>5, <1>m, <1>t
  <2>8. CASE Move(r, none)
    BY <2>8, <2>0, <2>3, <2>6, <1>m, <1>t
  <2> QED  BY <2>4, <2>7, <2>8
<1>5. ASSUME NEW r \in Runners, ReadState(r) PROVE ForwardShape'
  <2>1. runner[r].at \in Booking /\ runner[r].cand \in Candidates
    BY <1>5 DEF ReadState, Booking, ForwardShape, RunnerHolds, Taken
  <2>2. state[runner[r].cand] \in StateRows /\ Steady(state[runner[r].cand]) /\ BookFrom(r, state[runner[r].cand])
    BY <1>5, <1>a, <1>t, <2>1 DEF ReadState
  <2>3. /\ UNCHANGED <<bars, registered, book, trades, equity, aborts>>
        /\ state' \in [Candidates -> StateRows] /\ \A c \in Candidates : Steady(state'[c])
        /\ DOMAIN booked' = Candidates
    BY <1>5, <1>a, <1>t DEF ReadState
  <2>4. Unregistered'
    BY <1>5, <1>a DEF ReadState, Unregistered, Taken
  <2> QED
    BY <2>1, <2>2, <2>3, <2>4, ShapeAfterBook
<1>6. ASSUME NEW r \in Runners, NEW t \in runner[r].rows, InsertTrade(r, t) PROVE ForwardShape'
  <2> DEFINE rec == [runner[r] EXCEPT !.rows = @ \ {t}]
  <2>1. runner[r] \in RunnerRows /\ RunnerHolds(runner[r]) /\ runner[r].at = "trades" /\ Move(r, rec)
        /\ UNCHANGED <<bars, registered, book, state, equity, booked, aborts>>
    BY <1>6, <1>t DEF ForwardShape, InsertTrade
  <2>2. /\ rec \in RunnerRows /\ rec.at = "trades" /\ rec.left = runner[r].left
        /\ rec.cand = runner[r].cand /\ rec.df = runner[r].df /\ rec.next = runner[r].next
    BY <2>1 DEF RunnerRows
  <2> HIDE DEF rec
  <2>3. RunnerHolds(rec) /\ runner[r].cand \in Taken
    BY <2>1, <2>2 DEF RunnerHolds, HistoryOf, Booking
  <2>4. t \in Fills /\ runner[r].cand \in Candidates
    BY <2>1, <2>3 DEF RunnerRows, Taken
  <2>5. trades' = [trades EXCEPT ![runner[r].cand] = Inserted(trades[runner[r].cand], t)]
    BY <1>6 DEF InsertTrade
  <2>6. Inserted(trades[runner[r].cand], t) \in SUBSET Fills
    BY <1>t, <2>4 DEF Inserted
  <2>7. trades' \in [Candidates -> SUBSET Fills]
    BY <1>t, <2>5, <2>6
  <2>8. Unregistered'
    BY <1>a, <1>t, <2>1, <2>3, <2>5 DEF Unregistered, Taken
  <2>9. /\ UNCHANGED <<bars, registered, book>> /\ state' \in [Candidates -> StateRows]
        /\ aborts' \in 0..MaxAborts /\ DOMAIN booked' = Candidates /\ DOMAIN equity' = Candidates
        /\ \A c \in Candidates : Steady(state'[c])
    BY <1>a, <1>t, <2>1
  <2> QED
    BY <2>1, <2>2, <2>3, <2>7, <2>8, <2>9, ShapeAfterMove
<1>7. ASSUME NEW r \in Runners, UpsertEquity(r) PROVE ForwardShape'
  <2> DEFINE rec == [runner[r] EXCEPT !.at = "state"]
  <2>1. runner[r] \in RunnerRows /\ RunnerHolds(runner[r]) /\ runner[r].at = "trades" /\ Move(r, rec)
        /\ UNCHANGED <<bars, registered, book, state, trades, booked, aborts>>
    BY <1>7, <1>t DEF ForwardShape, UpsertEquity
  <2>2. /\ rec \in RunnerRows /\ rec.at = "state" /\ rec.left = runner[r].left
        /\ rec.cand = runner[r].cand /\ rec.df = runner[r].df /\ rec.next = runner[r].next
    BY <2>1 DEF RunnerRows
  <2> HIDE DEF rec
  <2>3. RunnerHolds(rec) /\ runner[r].cand \in Taken
    BY <2>1, <2>2 DEF RunnerHolds, HistoryOf, Booking
  <2>5. DOMAIN equity' = Candidates /\ \A c \in Candidates : c # runner[r].cand => equity'[c] = equity[c]
    BY <1>7, <1>a DEF UpsertEquity
  <2>8. Unregistered'
    BY <1>a, <1>t, <2>1, <2>3, <2>5 DEF Unregistered, Taken
  <2>9. /\ UNCHANGED <<bars, registered, book>> /\ state' \in [Candidates -> StateRows]
        /\ trades' \in [Candidates -> SUBSET Fills]
        /\ aborts' \in 0..MaxAborts /\ DOMAIN booked' = Candidates
        /\ \A c \in Candidates : Steady(state'[c])
    BY <1>a, <1>t, <2>1
  <2> QED
    BY <2>1, <2>2, <2>3, <2>5, <2>8, <2>9, ShapeAfterMove
<1>8. ASSUME NEW r \in Runners, UpsertState(r) PROVE ForwardShape'
  <2>1. runner[r] \in RunnerRows /\ RunnerHolds(runner[r]) /\ runner[r].at = "state"
        /\ UNCHANGED <<bars, registered, book, trades, equity, aborts>> /\ BookFrom(r, runner[r].next)
    BY <1>8, <1>t DEF ForwardShape, UpsertState
  <2>2. runner[r].cand \in Taken /\ runner[r].cand \in Candidates /\ runner[r].next \in StateRows
        /\ Steady(runner[r].next) /\ runner[r].at \in Booking
    BY <2>1 DEF RunnerHolds, Taken, RunnerRows, Booking
  <2>3. state' = [state EXCEPT ![runner[r].cand] = runner[r].next]
    BY <1>8 DEF UpsertState
  <2>4. state' \in [Candidates -> StateRows] /\ \A c \in Candidates : Steady(state'[c])
    BY <1>a, <1>t, <2>2, <2>3
  <2>5. DOMAIN booked' = Candidates /\ \A c \in Candidates : c # runner[r].cand => booked'[c] = booked[c]
    BY <1>8, <1>a DEF UpsertState
  <2>6. Unregistered'
    BY <1>a, <2>1, <2>2, <2>5 DEF Unregistered, Taken
  <2> QED
    BY <2>1, <2>2, <2>4, <2>5, <2>6, ShapeAfterBook
<1>9. ASSUME NEW r \in Runners, CandidateFails(r) PROVE ForwardShape'
  <2>1. Move(r, [Idle EXCEPT !.at = "loop", !.left = runner[r].left])
    BY <1>9 DEF CandidateFails, NextCandidate
  <2>2. aborts' \in 0..MaxAborts /\ UNCHANGED <<bars, registered, book, state, trades, equity, booked>>
    BY <1>9, <1>t, <1>n DEF CandidateFails
  <2> QED  BY <2>1, <2>2, <1>m, NextCandidateFits
<1>i. RunnerHolds(Idle) /\ Idle \in RunnerRows
  BY IdleIsARow DEF RunnerHolds, Booking
<1>10. ASSUME NEW r \in Runners, FinishRun(r) PROVE ForwardShape'
  BY <1>10, <1>i, <1>m, <1>t DEF FinishRun
<1>11. ASSUME NEW r \in Runners, RunnerDies(r) PROVE ForwardShape'
  <2>1. aborts' \in 0..MaxAborts
    BY <1>11, <1>t, <1>n DEF RunnerDies
  <2> QED  BY <1>11, <2>1, <1>i, <1>m DEF RunnerDies
<1>12. CASE UNCHANGED forwardVars
  BY <1>12 DEF forwardVars, ForwardShape, ForwardTypeOK, Unregistered, Taken, RunnerHolds, HistoryOf, Steady
<1> QED
  BY <1>1, <1>2, <1>3, <1>4, <1>5, <1>6, <1>7, <1>8, <1>9, <1>10, <1>11, <1>12 DEF ForwardNext

(* Bars, states, trade rows and what each runner holds keep their types:   *)
(* every fill of a bar that has closed, and no sleeve held beyond its      *)
(* horizon (forward.py, horizon.py).                                       *)
THEOREM ForwardTypeCorrect == ForwardSpec => []ForwardTypeOK
<1>1. ForwardShape => ForwardTypeOK
  BY DEF ForwardShape
<1> QED
  BY <1>1, ForwardShapeInit, ForwardShapeStep, PTL DEF ForwardSpec

-----------------------------------------------------------------------------
(* One result of every bar *)

Known(c, n) == n = registered[c] \/ n \in DOMAIN booked[c]

StateAt(c, n) == IF n \in DOMAIN booked[c] THEN booked[c][n] ELSE NewState(c)

StateAfter(c, n) == AfterBar(c, StateAt(c, n), bars[c][n + 1], n + 1)

NoGap(c) ==
  \A n \in DOMAIN booked[c] :
    /\ n \in (registered[c] + 1)..Len(bars[c])
    /\ \A m \in (registered[c] + 1)..n : m \in DOMAIN booked[c]

StatesAreRows(c) ==
  \A n \in 0..LastDay : Known(c, n) =>
    /\ StateAt(c, n) \in StateRows /\ StateAt(c, n).last = n /\ Steady(StateAt(c, n))
    /\ \A t \in StateAt(c, n).fills : t.bar \in (registered[c] + 1)..n

OneResult(c) == \A n \in DOMAIN booked[c] : booked[c][n] = StateAfter(c, n - 1)

FillsGrow(c) ==
  \A m, n \in 0..LastDay :
    Known(c, m) /\ Known(c, n) /\ m <= n => StateAt(c, m).fills \subseteq StateAt(c, n).fills

CurrentState(c) == Known(c, state[c].last) /\ state[c] = StateAt(c, state[c].last)

RowsAreOfBars(c) ==
  \A t \in trades[c] :
    t.bar \in (registered[c] + 1)..Len(bars[c]) /\ Known(c, t.bar - 1)
    /\ t \in StateAfter(c, t.bar - 1).fills

AllWritten(c) == \A n \in DOMAIN booked[c] : booked[c][n].fills \subseteq trades[c]

CurveIsOfBars(c) ==
  /\ DOMAIN booked[c] \subseteq DOMAIN equity[c]
  /\ \A n \in DOMAIN equity[c] :
       n \in (registered[c] + 1)..Len(bars[c]) /\ Known(c, n - 1)
       /\ equity[c][n] = StateAfter(c, n - 1).fills

LedgerOf(c) ==
  /\ NoGap(c) /\ StatesAreRows(c) /\ OneResult(c) /\ FillsGrow(c) /\ CurrentState(c)
  /\ RowsAreOfBars(c) /\ AllWritten(c) /\ CurveIsOfBars(c)

(* what a runner has in hand follows from what is booked, whenever it read *)
AtWork(rec) ==
  rec.at \in {"trades", "state"} =>
    /\ Known(rec.cand, rec.st.last) /\ rec.st = StateAt(rec.cand, rec.st.last)
    /\ rec.st.last + 1 <= Len(rec.df)
    /\ rec.next = StateAfter(rec.cand, rec.st.last)
    /\ rec.rows \subseteq rec.next.fills \ rec.st.fills
    /\ rec.next.fills \ rec.rows \subseteq trades[rec.cand]
    /\ rec.at = "state" => rec.rows = {} /\ rec.next.last \in DOMAIN equity[rec.cand]

BookedInv ==
  /\ ForwardShape
  /\ \A c \in Taken : LedgerOf(c)
  /\ \A r \in Runners : AtWork(runner[r])

LEMMA TakenIsRegistered ==
  ASSUME ForwardShape, NEW c \in Taken
  PROVE  /\ c \in Candidates /\ registered[c] \in 0..LastDay /\ bars[c] \in Seq(Quotes)
         /\ Len(bars[c]) \in 0..LastDay /\ registered[c] <= Len(bars[c])
         /\ NewState(c) \in StateRows /\ NewState(c).last = registered[c] /\ NewState(c).fills = {}
         /\ Steady(NewState(c)) /\ trades[c] \subseteq Fills
<1>1. c \in Candidates /\ registered[c] \in 0..LastDay /\ bars[c] \in Seq(Quotes) /\ trades[c] \subseteq Fills
  BY DEF Taken, ForwardShape, ForwardTypeOK
<1>2. Len(bars[c]) \in Nat /\ Len(bars[c]) <= LastDay /\ registered[c] <= Len(bars[c])
  BY <1>1 DEF ForwardShape
<1>3. NewState(c) = [fills |-> {}, entry |-> 0, pending |-> 0, held |-> 0, last |-> registered[c]]
  BY DEF NewState, NoRow
<1>4. NewState(c) \in StateRows
  BY <1>1, <1>3, QuotesAreRecords DEF StateRows, ForwardNumbers
<1> QED
  BY <1>1, <1>2, <1>3, <1>4, QuotesAreRecords DEF Steady, ForwardNumbers

LEMMA AfterIsABar ==
  ASSUME ForwardShape, NEW c \in Taken, NoGap(c), StatesAreRows(c),
         NEW n \in 0..LastDay, Known(c, n), n + 1 <= Len(bars[c])
  PROVE  LET t == StateAfter(c, n)
         IN  /\ t \in StateRows /\ t.last = n + 1 /\ Steady(t)
             /\ StateAt(c, n).fills \subseteq t.fills
             /\ \A f \in t.fills : f.bar \in (registered[c] + 1)..(n + 1)
             /\ \A f \in t.fills : f.bar = n + 1 <=> f \notin StateAt(c, n).fills
             /\ \A f, g \in t.fills : f.bar = n + 1 /\ SameRow(f, g) => f = g
<1> DEFINE s == StateAt(c, n)
           q == bars[c][n + 1]
           t == AfterBar(c, s, q, n + 1)
<1>1. /\ c \in Candidates /\ registered[c] \in 0..LastDay /\ bars[c] \in Seq(Quotes)
      /\ Len(bars[c]) \in 0..LastDay /\ LastDay \in Nat
  BY TakenIsRegistered, QuotesAreRecords DEF ForwardNumbers
<1>2. s \in StateRows /\ Steady(s) /\ s.last = n /\ \A f \in s.fills : f.bar \in (registered[c] + 1)..n
  BY DEF StatesAreRows
<1>3. n + 1 \in 1..LastDay /\ q \in Quotes
  BY <1>1
<1>k. registered[c] <= n
  BY <1>1 DEF Known, NoGap
<1> HIDE DEF s, q
<1>4. t \in StateRows /\ t.last = n + 1 /\ Steady(t) /\ s.fills \subseteq t.fills /\ FillsOf(n + 1, t.fills \ s.fills)
  BY <1>1, <1>2, <1>3, BarIsBooked
<1> HIDE DEF t
<1>5. \A f \in t.fills : f \in s.fills \/ f.bar = n + 1
  BY <1>4 DEF FillsOf
<1>6. \A f \in t.fills : f.bar = n + 1 <=> f \notin s.fills
  BY <1>1, <1>2, <1>5
<1>7. \A f, g \in t.fills : f.bar = n + 1 /\ SameRow(f, g) => f = g
  <2> SUFFICES ASSUME NEW f \in t.fills, NEW g \in t.fills, f.bar = n + 1, SameRow(f, g) PROVE f = g
    OBVIOUS
  <2>1. g.bar = n + 1
    BY DEF SameRow
  <2> QED  BY <1>4, <1>6, <2>1 DEF FillsOf
<1>8. \A f \in t.fills : f.bar \in (registered[c] + 1)..(n + 1)
  BY <1>1, <1>2, <1>5, <1>k
<1> QED
  BY <1>4, <1>6, <1>7, <1>8 DEF t, s, q, StateAfter

LEMMA CashFollows == BookedInv => CashIsItsTrades
<1> SUFFICES ASSUME BookedInv, NEW c \in Candidates, registered[c] # -1
             PROVE  state[c].fills = RowsUpTo(c, state[c])
  BY DEF CashIsItsTrades
<1>1. ForwardShape /\ c \in Taken /\ LedgerOf(c)
  BY DEF BookedInv, Taken
<1> DEFINE n == state[c].last
<1>2. /\ registered[c] \in 0..LastDay /\ Len(bars[c]) \in 0..LastDay /\ registered[c] <= Len(bars[c])
      /\ trades[c] \subseteq Fills /\ NewState(c).fills = {} /\ LastDay \in Nat
  BY <1>1, TakenIsRegistered, QuotesAreRecords DEF ForwardNumbers
<1>3. Known(c, n) /\ state[c] = StateAt(c, n)
  BY <1>1 DEF LedgerOf, CurrentState
<1>4. n \in 0..LastDay
  BY <1>1 DEF ForwardShape, ForwardTypeOK, StateRows, Taken
<1> HIDE DEF n
<1>5. \A t \in StateAt(c, n).fills : t.bar <= n /\ t \in trades[c]
  <2>1. CASE n \in DOMAIN booked[c]
    <3>1. StateAt(c, n) = booked[c][n] /\ booked[c][n].fills \subseteq trades[c]
      BY <1>1, <2>1 DEF StateAt, LedgerOf, AllWritten
    <3>2. \A t \in StateAt(c, n).fills : t.bar \in (registered[c] + 1)..n
      BY <1>1, <1>3, <1>4 DEF LedgerOf, StatesAreRows
    <3> QED  BY <1>2, <1>4, <3>1, <3>2
  <2>2. CASE n \notin DOMAIN booked[c]
    BY <1>2, <2>2 DEF StateAt
  <2> QED  BY <2>1, <2>2
<1>6. ASSUME NEW t \in trades[c], t.bar <= n PROVE t \in StateAt(c, n).fills
  <2>1. /\ t.bar \in (registered[c] + 1)..Len(bars[c]) /\ Known(c, t.bar - 1)
        /\ t \in StateAfter(c, t.bar - 1).fills
    BY <1>1, <1>6 DEF LedgerOf, RowsAreOfBars
  <2>2. n \in DOMAIN booked[c]
    BY <1>2, <1>3, <1>4, <1>6, <2>1 DEF Known
  <2>3. t.bar \in DOMAIN booked[c]
    BY <1>1, <1>2, <1>4, <1>6, <2>1, <2>2 DEF LedgerOf, NoGap
  <2>4. t \in StateAt(c, t.bar).fills
    BY <1>1, <2>1, <2>3 DEF LedgerOf, OneResult, StateAt
  <2>5. t.bar \in 0..LastDay /\ Known(c, t.bar)
    BY <1>2, <2>1, <2>3 DEF Known
  <2> QED
    BY <1>1, <1>3, <1>4, <1>6, <2>4, <2>5 DEF LedgerOf, FillsGrow
<1> QED
  BY <1>3, <1>5, <1>6 DEF RowsUpTo, n

LEMMA AlikeFollows == BookedInv => BarsBookedAlike
<1> SUFFICES ASSUME BookedInv, NEW c \in Candidates
             PROVE  /\ registered[c] # -1 =>
                         state[c] = IF state[c].last \in DOMAIN booked[c] THEN booked[c][state[c].last]
                                    ELSE NewState(c)
                    /\ \A n \in DOMAIN booked[c] :
                         /\ n > registered[c]
                         /\ \A m \in (registered[c] + 1)..n :
                              m \in DOMAIN equity[c] /\ equity[c][m] = booked[c][m].fills
  BY DEF BarsBookedAlike
<1>1. CASE c \notin Taken
  <2>1. registered[c] = -1 /\ DOMAIN booked[c] = {}
    BY <1>1 DEF BookedInv, ForwardShape, Unregistered, Taken
  <2> QED  BY <2>1
<1>2. CASE c \in Taken
  <2>1. /\ NoGap(c) /\ OneResult(c) /\ CurrentState(c) /\ CurveIsOfBars(c)
        /\ registered[c] \in 0..LastDay /\ Len(bars[c]) \in 0..LastDay /\ LastDay \in Nat
    BY <1>2, TakenIsRegistered, QuotesAreRecords DEF BookedInv, LedgerOf, ForwardNumbers
  <2>2. state[c] = IF state[c].last \in DOMAIN booked[c] THEN booked[c][state[c].last] ELSE NewState(c)
    BY <2>1 DEF CurrentState, StateAt
  <2>3. \A n \in DOMAIN booked[c] : n > registered[c]
    BY <2>1 DEF NoGap
  <2>4. \A n \in DOMAIN booked[c] : \A m \in (registered[c] + 1)..n : m \in DOMAIN booked[c]
    BY <2>1 DEF NoGap
  <2>5. \A m \in DOMAIN booked[c] : m \in DOMAIN equity[c] /\ equity[c][m] = booked[c][m].fills
    BY <2>1 DEF CurveIsOfBars, OneResult
  <2> QED  BY <2>2, <2>3, <2>4, <2>5
<1> QED  BY <1>1, <1>2

-----------------------------------------------------------------------------
(* What is booked stays: days close, bars are booked after the last one *)

Kept(c) ==
  /\ registered'[c] = registered[c] /\ book'[c] = book[c]
  /\ Len(bars'[c]) \in Nat /\ Len(bars'[c]) >= Len(bars[c])
  /\ \A i \in 1..Len(bars[c]) : bars'[c][i] = bars[c][i]
  /\ DOMAIN booked[c] \subseteq DOMAIN booked'[c] /\ registered[c] \notin DOMAIN booked'[c]
  /\ \A n \in DOMAIN booked[c] : booked'[c][n] = booked[c][n]

LEMMA KeptStates ==
  ASSUME ForwardShape, NEW c \in Taken, Kept(c)
  PROVE  /\ \A n : Known(c, n) => Known(c, n)' /\ StateAt(c, n)' = StateAt(c, n)
         /\ \A n \in Nat : Known(c, n) /\ n + 1 <= Len(bars[c]) => StateAfter(c, n)' = StateAfter(c, n)
<1>0. NewState(c)' = NewState(c) /\ Len(bars[c]) \in Nat
  BY TakenIsRegistered DEF Kept, NewState
<1>1. ASSUME NEW n, Known(c, n) PROVE Known(c, n)' /\ StateAt(c, n)' = StateAt(c, n)
  BY <1>0, <1>1 DEF Kept, Known, StateAt
<1>2. ASSUME NEW n \in Nat, Known(c, n), n + 1 <= Len(bars[c]) PROVE StateAfter(c, n)' = StateAfter(c, n)
  <2>1. StateAt(c, n)' = StateAt(c, n)
    BY <1>1, <1>2
  <2>2. bars'[c][n + 1] = bars[c][n + 1]
    BY <1>0, <1>2 DEF Kept
  <2>3. book'[c] = book[c]
    BY DEF Kept
  <2> DEFINE s == StateAt(c, n)
             q == bars[c][n + 1]
  <2>4. StateAfter(c, n) = AfterBar(c, s, q, n + 1)
    BY DEF StateAfter
  <2>5. StateAfter(c, n)' = IF book'[c] = "horizon" THEN HorizonBar(s, q, n + 1) ELSE ForwardBar(s, q, n + 1)
    BY <2>1, <2>2 DEF StateAfter, AfterBar
  <2> QED  BY <2>3, <2>4, <2>5 DEF AfterBar
<1> QED  BY <1>1, <1>2

(* the parts of a candidate's ledger that do not ask which bars are booked *)
LEMMA KeptRows ==
  ASSUME ForwardShape, NEW c \in Taken, Kept(c), LedgerOf(c), trades'[c] = trades[c], equity'[c] = equity[c]
  PROVE  /\ RowsAreOfBars(c)'
         /\ \A n \in DOMAIN equity'[c] :
              n \in (registered'[c] + 1)..Len(bars'[c]) /\ Known(c, n - 1)'
              /\ equity'[c][n] = StateAfter(c, n - 1)'.fills
<1>1. registered[c] \in Nat /\ Len(bars[c]) \in Nat
  BY TakenIsRegistered
<1>2. RowsAreOfBars(c) /\ CurveIsOfBars(c)
  BY DEF LedgerOf
<1>3. Len(bars'[c]) \in Nat /\ Len(bars'[c]) >= Len(bars[c]) /\ registered'[c] = registered[c]
  BY DEF Kept
<1>4. \A n \in (registered[c] + 1)..Len(bars[c]) : Known(c, n - 1) =>
         Known(c, n - 1)' /\ StateAfter(c, n - 1)' = StateAfter(c, n - 1)
  <2> SUFFICES ASSUME NEW n \in (registered[c] + 1)..Len(bars[c]), Known(c, n - 1)
               PROVE  Known(c, n - 1)' /\ StateAfter(c, n - 1)' = StateAfter(c, n - 1)
    OBVIOUS
  <2>1. n - 1 \in Nat /\ (n - 1) + 1 <= Len(bars[c])
    BY <1>1
  <2> QED  BY <2>1, KeptStates
<1>5. \A n \in (registered[c] + 1)..Len(bars[c]) : n \in (registered'[c] + 1)..Len(bars'[c])
  BY <1>1, <1>3
<1> QED
  BY <1>2, <1>3, <1>4, <1>5 DEF RowsAreOfBars, CurveIsOfBars

(* a record of a runner that does not move *)
LEMMA KeptWork ==
  ASSUME ForwardShape, NEW r \in Runners, AtWork(runner[r]), runner'[r] = runner[r],
         runner[r].cand \in Taken => /\ Kept(runner[r].cand)
                                     /\ trades[runner[r].cand] \subseteq trades'[runner[r].cand]
                                     /\ DOMAIN equity[runner[r].cand] \subseteq DOMAIN equity'[runner[r].cand]
  PROVE  AtWork(runner[r])'
<1> DEFINE rec == runner[r]
           c == rec.cand
<1> SUFFICES ASSUME rec.at \in {"trades", "state"} PROVE AtWork(runner[r])'
  BY DEF AtWork
<1>1. rec \in RunnerRows /\ c \in Taken /\ HistoryOf(rec)
  BY DEF ForwardShape, ForwardTypeOK, RunnerHolds, Booking
<1>2. /\ Known(c, rec.st.last) /\ rec.st = StateAt(c, rec.st.last) /\ rec.st.last + 1 <= Len(rec.df)
      /\ rec.next = StateAfter(c, rec.st.last) /\ rec.rows \subseteq rec.next.fills \ rec.st.fills
      /\ rec.next.fills \ rec.rows \subseteq trades[c]
      /\ rec.at = "state" => rec.rows = {} /\ rec.next.last \in DOMAIN equity[c]
  BY DEF AtWork
<1>3. rec.st.last \in Nat /\ rec.st.last + 1 <= Len(bars[c])
  <2>1. Len(bars[c]) \in Nat /\ rec.df \in Seq(Quotes) /\ rec.st.last \in Nat
    BY <1>1, TakenIsRegistered, QuotesAreRecords DEF RunnerRows, StateRows, ForwardNumbers
  <2>2. Len(rec.df) \in Nat /\ Len(rec.df) <= Len(bars[c])
    BY <1>1, <2>1 DEF HistoryOf
  <2> QED  BY <1>2, <2>1, <2>2
<1>4. /\ Known(c, rec.st.last)' /\ StateAt(c, rec.st.last)' = StateAt(c, rec.st.last)
      /\ StateAfter(c, rec.st.last)' = StateAfter(c, rec.st.last)
  BY <1>1, <1>2, <1>3, KeptStates
<1> QED
  BY <1>1, <1>2, <1>4 DEF AtWork

LEMMA BookedInvInit == ForwardInit => BookedInv
<1> SUFFICES ASSUME ForwardInit PROVE BookedInv
  OBVIOUS
<1>1. Taken = {}
  BY DEF ForwardInit, Taken
<1>2. \A r \in Runners : AtWork(runner[r])
  BY IdleIsARow DEF ForwardInit, AtWork
<1> QED
  BY <1>1, <1>2, ForwardShapeInit DEF BookedInv

(* nothing changes but where one runner is *)
LEMMA MoveKeepsBooks ==
  ASSUME BookedInv, ForwardShape', NEW r \in Runners, NEW rec, Move(r, rec), AtWork(rec),
         UNCHANGED <<bars, registered, book, state, trades, equity, booked>>
  PROVE  BookedInv'
<1>1. Taken' = Taken
  BY DEF Taken
<1>2. \A c \in Taken : LedgerOf(c)'
  <2> SUFFICES ASSUME NEW c \in Taken PROVE LedgerOf(c)'
    OBVIOUS
  <2>1. LedgerOf(c)
    BY DEF BookedInv
  <2>2. \A n : (Known(c, n)' <=> Known(c, n)) /\ StateAt(c, n)' = StateAt(c, n) /\ StateAfter(c, n)' = StateAfter(c, n)
    BY DEF Known, StateAt, StateAfter, NewState, AfterBar
  <2> QED
    BY <2>1, <2>2 DEF LedgerOf, NoGap, StatesAreRows, OneResult, FillsGrow, CurrentState,
       RowsAreOfBars, AllWritten, CurveIsOfBars
<1>3. \A x \in Runners : runner'[x] = IF x = r THEN rec ELSE runner[x]
  BY DEF Move, BookedInv, ForwardShape, ForwardTypeOK
<1>4. \A x \in Runners : AtWork(runner'[x])
  BY <1>3 DEF BookedInv
<1>5. ASSUME NEW x \in Runners, AtWork(runner'[x]) PROVE AtWork(runner[x])'
  BY <1>5 DEF AtWork, Known, StateAt, StateAfter, NewState, AfterBar
<1> QED
  BY <1>1, <1>2, <1>4, <1>5 DEF BookedInv

LEMMA DayKeepsBooks ==
  ASSUME BookedInv, ForwardShape', NEW d \in Candidates, NEW q \in Quotes, DayCloses(d, q)
  PROVE  BookedInv'
<1>0. UNCHANGED <<registered, book, state, trades, equity, runner, booked>> /\ ForwardShape
  BY DEF DayCloses, BookedInv
<1>1. Taken' = Taken
  BY <1>0 DEF Taken
<1>2. ASSUME NEW c \in Taken PROVE Kept(c)
  <2>1. Len(bars'[c]) >= Len(bars[c]) /\ \A i \in 1..Len(bars[c]) : bars'[c][i] = bars[c][i]
    BY <1>0, <1>2, TakenIsRegistered DEF DayCloses, ForwardShape, ForwardTypeOK
  <2>2. Len(bars'[c]) \in Nat
    BY <1>0, <1>2, TakenIsRegistered DEF DayCloses, ForwardShape, ForwardTypeOK
  <2>3. registered[c] \notin DOMAIN booked[c]
    BY <1>0, <1>2, TakenIsRegistered DEF BookedInv, LedgerOf, NoGap
  <2> QED  BY <1>0, <2>1, <2>2, <2>3 DEF Kept
<1>3. ASSUME NEW c \in Taken PROVE LedgerOf(c)'
  <2>1. LedgerOf(c) /\ Kept(c) /\ registered[c] \in Nat /\ Len(bars[c]) \in Nat
    BY <1>0, <1>2, <1>3, TakenIsRegistered DEF BookedInv
  <2>2. \A n : (Known(c, n)' <=> Known(c, n)) /\ StateAt(c, n)' = StateAt(c, n)
    BY <1>0 DEF Known, StateAt, NewState
  <2>3. NoGap(c)'
    BY <1>0, <2>1 DEF LedgerOf, NoGap, Kept
  <2>4. StatesAreRows(c)' /\ FillsGrow(c)' /\ CurrentState(c)' /\ AllWritten(c)'
    BY <1>0, <2>1, <2>2 DEF LedgerOf, StatesAreRows, FillsGrow, CurrentState, AllWritten
  <2>5. RowsAreOfBars(c)' /\ CurveIsOfBars(c)'
    BY <1>0, <2>1, KeptRows DEF CurveIsOfBars, LedgerOf
  <2>6. OneResult(c)'
    <3> SUFFICES ASSUME NEW n \in DOMAIN booked[c] PROVE booked[c][n] = StateAfter(c, n - 1)'
      BY <1>0 DEF OneResult
    <3>1. booked[c][n] = StateAfter(c, n - 1) /\ n \in (registered[c] + 1)..Len(bars[c])
      BY <2>1 DEF LedgerOf, OneResult, NoGap
    <3>2. Known(c, n - 1)
      BY <2>1, <3>1 DEF LedgerOf, NoGap, Known
    <3>3. n - 1 \in Nat /\ (n - 1) + 1 <= Len(bars[c])
      BY <2>1, <3>1
    <3> QED  BY <1>0, <2>1, <3>1, <3>2, <3>3, KeptStates
  <2> QED  BY <2>3, <2>4, <2>5, <2>6 DEF LedgerOf
<1>4. ASSUME NEW r \in Runners PROVE AtWork(runner[r])'
  BY <1>0, <1>2, <1>4, KeptWork DEF BookedInv
<1> QED  BY <1>1, <1>3, <1>4 DEF BookedInv

LEMMA RegistrationKeepsBooks ==
  ASSUME BookedInv, ForwardShape', NEW d \in Candidates, NEW kind \in {"forward", "horizon"},
         RegisterCandidate(d, kind)
  PROVE  BookedInv'
<1>0. /\ UNCHANGED <<bars, trades, equity, runner, booked>> /\ ForwardShape
      /\ registered[d] = -1 /\ d \notin Taken
      /\ DOMAIN booked[d] = {} /\ DOMAIN equity[d] = {} /\ trades[d] = {}
  BY DEF RegisterCandidate, BookedInv, ForwardShape, Unregistered, Taken
<1>1. /\ registered'[d] = Len(bars[d]) /\ state'[d] = [NoRow EXCEPT !.last = Len(bars[d])]
      /\ \A c \in Candidates \ {d} : registered'[c] = registered[c] /\ book'[c] = book[c] /\ state'[c] = state[c]
  BY DEF RegisterCandidate, BookedInv, ForwardShape, ForwardTypeOK
<1>n. Len(bars[d]) \in 0..LastDay /\ LastDay \in Nat
  <2>1. Len(bars[d]) \in Nat /\ Len(bars[d]) <= LastDay
    BY <1>0 DEF ForwardShape, ForwardTypeOK
  <2> QED  BY <2>1, QuotesAreRecords DEF ForwardNumbers
<1>2. Taken' = Taken \union {d}
  BY <1>1, <1>n DEF Taken
<1>3. ASSUME NEW c \in Taken PROVE Kept(c)
  <2>1. c \in Candidates \ {d}
    BY <1>0, <1>3 DEF Taken
  <2>2. registered[c] \notin DOMAIN booked[c]
    BY <1>0, <1>3, TakenIsRegistered DEF BookedInv, LedgerOf, NoGap
  <2>3. Len(bars[c]) \in Nat
    BY <1>0, <1>3, TakenIsRegistered
  <2> QED  BY <1>0, <1>1, <2>1, <2>2, <2>3 DEF Kept
<1>4. ASSUME NEW c \in Taken PROVE LedgerOf(c)'
  <2>1. LedgerOf(c) /\ c \in Candidates \ {d} /\ state'[c] = state[c]
    BY <1>0, <1>1, <1>4 DEF BookedInv, Taken
  <2>2. registered'[c] = registered[c] /\ book'[c] = book[c]
    BY <1>1, <2>1
  <2>3. \A n : (Known(c, n)' <=> Known(c, n)) /\ StateAt(c, n)' = StateAt(c, n) /\ StateAfter(c, n)' = StateAfter(c, n)
    BY <1>0, <2>2 DEF Known, StateAt, StateAfter, NewState, AfterBar
  <2> QED
    BY <1>0, <2>1, <2>2, <2>3 DEF LedgerOf, NoGap, StatesAreRows, OneResult, FillsGrow, CurrentState,
       RowsAreOfBars, AllWritten, CurveIsOfBars
<1>5. LedgerOf(d)'
  <2>1. d \in Taken'
    BY <1>2
  <2>2. \A n : Known(d, n)' <=> n = registered'[d]
    BY <1>0 DEF Known
  <2>3. \A n : StateAt(d, n)' = NewState(d)'
    BY <1>0 DEF StateAt
  <2>4. /\ NewState(d)' \in StateRows /\ NewState(d)'.last = registered'[d]
        /\ Steady(NewState(d)') /\ NewState(d)'.fills = {} /\ NewState(d)' = state'[d]
    <3>1. NewState(d)' = [fills |-> {}, entry |-> 0, pending |-> 0, held |-> 0, last |-> Len(bars[d])]
      BY <1>1 DEF NewState, NoRow
    <3>2. state'[d] = [fills |-> {}, entry |-> 0, pending |-> 0, held |-> 0, last |-> Len(bars[d])]
      BY <1>1 DEF NoRow
    <3>3. [fills |-> {}, entry |-> 0, pending |-> 0, held |-> 0, last |-> Len(bars[d])] \in StateRows
      BY <1>n, QuotesAreRecords DEF StateRows, ForwardNumbers
    <3> QED  BY <1>1, <3>1, <3>2, <3>3 DEF Steady
  <2>5. NoGap(d)' /\ OneResult(d)' /\ RowsAreOfBars(d)' /\ AllWritten(d)' /\ CurveIsOfBars(d)'
    BY <1>0 DEF NoGap, OneResult, RowsAreOfBars, AllWritten, CurveIsOfBars
  <2>6. CurrentState(d)'
    BY <1>1, <2>2, <2>3, <2>4 DEF CurrentState
  <2>7. StatesAreRows(d)'
    BY <2>2, <2>3, <2>4 DEF StatesAreRows
  <2>8. FillsGrow(d)'
    BY <2>3, <2>4 DEF FillsGrow
  <2> QED  BY <2>5, <2>6, <2>7, <2>8 DEF LedgerOf
<1>6. ASSUME NEW r \in Runners PROVE AtWork(runner[r])'
  BY <1>0, <1>3, <1>6, KeptWork DEF BookedInv
<1> QED  BY <1>2, <1>4, <1>5, <1>6 DEF BookedInv

(* what a runner under way knows *)
LEMMA UnderWay ==
  ASSUME BookedInv, NEW r \in Runners, runner[r].at \in {"trades", "state"}
  PROVE  LET rec == runner[r]
             c == rec.cand
             n == rec.st.last
             t == StateAfter(c, n)
         IN  /\ rec \in RunnerRows /\ c \in Taken /\ c \in Candidates /\ LedgerOf(c) /\ HistoryOf(rec)
             /\ n \in 0..LastDay /\ Known(c, n) /\ n >= registered[c] /\ n + 1 <= Len(bars[c]) /\ rec.st = StateAt(c, n)
             /\ rec.next = t /\ t \in StateRows /\ t.last = n + 1 /\ Steady(t)
             /\ rec.st.fills \subseteq t.fills
             /\ \A f \in t.fills : f.bar \in (registered[c] + 1)..(n + 1)
             /\ \A f \in t.fills : f.bar = n + 1 <=> f \notin rec.st.fills
             /\ \A f, g \in t.fills : f.bar = n + 1 /\ SameRow(f, g) => f = g
             /\ rec.rows \subseteq t.fills \ rec.st.fills
             /\ t.fills \ rec.rows \subseteq trades[c]
             /\ rec.at = "state" => rec.rows = {} /\ t.last \in DOMAIN equity[c]
<1> DEFINE rec == runner[r]
           c == rec.cand
           n == rec.st.last
<1>1. ForwardShape /\ rec \in RunnerRows /\ c \in Taken /\ c \in Candidates /\ HistoryOf(rec)
  BY DEF BookedInv, ForwardShape, ForwardTypeOK, RunnerHolds, Booking, Taken
<1>2. LedgerOf(c) /\ AtWork(rec)
  BY <1>1 DEF BookedInv
<1>3. /\ Known(c, n) /\ rec.st = StateAt(c, n) /\ n + 1 <= Len(rec.df) /\ rec.next = StateAfter(c, n)
      /\ rec.rows \subseteq rec.next.fills \ rec.st.fills
      /\ rec.next.fills \ rec.rows \subseteq trades[c]
      /\ rec.at = "state" => rec.rows = {} /\ rec.next.last \in DOMAIN equity[c]
  BY <1>2 DEF AtWork
<1>4. n \in 0..LastDay /\ n + 1 <= Len(bars[c])
  <2>1. n \in 0..LastDay /\ rec.df \in Seq(Quotes) /\ LastDay \in Nat
    BY <1>1, QuotesAreRecords DEF RunnerRows, StateRows, ForwardNumbers
  <2>2. Len(rec.df) \in Nat /\ Len(rec.df) <= Len(bars[c]) /\ Len(bars[c]) \in Nat
    BY <1>1, <2>1, TakenIsRegistered DEF HistoryOf
  <2> QED  BY <1>3, <2>1, <2>2
<1>5. NoGap(c) /\ StatesAreRows(c)
  BY <1>2 DEF LedgerOf
<1>6. n >= registered[c]
  BY <1>1, <1>3, <1>4, <1>5, TakenIsRegistered DEF Known, NoGap
<1> DEFINE t == StateAfter(c, n)
<1>7. /\ t \in StateRows /\ t.last = n + 1 /\ Steady(t) /\ StateAt(c, n).fills \subseteq t.fills
      /\ \A f \in t.fills : f.bar \in (registered[c] + 1)..(n + 1)
      /\ \A f \in t.fills : f.bar = n + 1 <=> f \notin StateAt(c, n).fills
      /\ \A f, g \in t.fills : f.bar = n + 1 /\ SameRow(f, g) => f = g
  BY <1>1, <1>3, <1>4, <1>5, AfterIsABar
<1> HIDE DEF rec, c, n, t
<1>8. rec.next = t
  BY <1>3 DEF t
<1> QED
  BY <1>1, <1>2, <1>3, <1>4, <1>6, <1>7, <1>8 DEF rec, c, n, t

LEMMA InsertKeepsBooks ==
  ASSUME BookedInv, ForwardShape', NEW r \in Runners, NEW t \in runner[r].rows, InsertTrade(r, t)
  PROVE  BookedInv'
<1> DEFINE c == runner[r].cand
           n == runner[r].st.last
           new == [runner[r] EXCEPT !.rows = @ \ {t}]
<1>0. /\ UNCHANGED <<bars, registered, book, state, equity, booked>> /\ ForwardShape
      /\ runner[r].at = "trades" /\ runner' = [runner EXCEPT ![r] = new]
      /\ trades' = [trades EXCEPT ![c] = Inserted(trades[c], t)]
      /\ runner \in [Runners -> RunnerRows] /\ trades \in [Candidates -> SUBSET Fills]
  BY DEF InsertTrade, Move, BookedInv, ForwardShape, ForwardTypeOK
<1>1. /\ runner[r] \in RunnerRows /\ c \in Taken /\ c \in Candidates /\ LedgerOf(c)
      /\ n \in 0..LastDay /\ Known(c, n) /\ n >= registered[c] /\ n + 1 <= Len(bars[c])
      /\ runner[r].next = StateAfter(c, n)
      /\ \A f \in StateAfter(c, n).fills : f.bar = n + 1 <=> f \notin runner[r].st.fills
      /\ \A f, g \in StateAfter(c, n).fills : f.bar = n + 1 /\ SameRow(f, g) => f = g
      /\ runner[r].rows \subseteq StateAfter(c, n).fills \ runner[r].st.fills
      /\ StateAfter(c, n).fills \ runner[r].rows \subseteq trades[c]
  BY <1>0, UnderWay
<1>2. t \in StateAfter(c, n).fills /\ t.bar = n + 1
  BY <1>1
<1>r. registered[c] \in Nat /\ Len(bars[c]) \in Nat
  BY <1>0, <1>1, TakenIsRegistered
<1> HIDE DEF c, n
<1>3. Inserted(trades[c], t) = trades[c] \union {t}
  <2>1. ASSUME NEW u \in trades[c], SameRow(t, u) PROVE u = t
    <3>1. u.bar = n + 1
      BY <1>2, <2>1 DEF SameRow
    <3>2. u \in StateAfter(c, u.bar - 1).fills
      BY <1>1 DEF LedgerOf, RowsAreOfBars
    <3>3. u.bar - 1 = n
      BY <1>1, <3>1
    <3> QED  BY <1>1, <1>2, <2>1, <3>2, <3>3
  <2> QED  BY <2>1 DEF Inserted
<1>4. /\ trades'[c] = trades[c] \union {t}
      /\ \A d \in Candidates : trades[d] \subseteq trades'[d] /\ (d # c => trades'[d] = trades[d])
  BY <1>0, <1>1, <1>3
<1>5. Taken' = Taken /\ Taken \subseteq Candidates
  BY <1>0 DEF Taken
<1>6. \A d, m : (Known(d, m)' <=> Known(d, m)) /\ StateAt(d, m)' = StateAt(d, m) /\ StateAfter(d, m)' = StateAfter(d, m)
  BY <1>0 DEF Known, StateAt, StateAfter, NewState, AfterBar
<1>7. ASSUME NEW d \in Taken PROVE LedgerOf(d)'
  <2>1. LedgerOf(d) /\ d \in Candidates
    BY <1>5 DEF BookedInv
  <2>2. RowsAreOfBars(d)'
    <3> SUFFICES ASSUME NEW u \in trades'[d]
                 PROVE  /\ u.bar \in (registered[d] + 1)..Len(bars[d]) /\ Known(d, u.bar - 1)
                        /\ u \in StateAfter(d, u.bar - 1).fills
      BY <1>0, <1>6 DEF RowsAreOfBars
    <3>1. CASE u \in trades[d]
      BY <2>1, <3>1 DEF LedgerOf, RowsAreOfBars
    <3>2. CASE u \notin trades[d]
      <4>1. d = c /\ u = t
        BY <1>4, <2>1, <3>2
      <4>2. t.bar - 1 = n /\ t.bar \in (registered[c] + 1)..Len(bars[c])
        BY <1>1, <1>2, <1>r
      <4> QED  BY <1>1, <1>2, <4>1, <4>2
    <3> QED  BY <3>1, <3>2
  <2>3. AllWritten(d)'
    BY <1>0, <1>4, <2>1 DEF LedgerOf, AllWritten
  <2> QED
    BY <1>0, <1>6, <2>1, <2>2, <2>3 DEF LedgerOf, NoGap, StatesAreRows, OneResult, FillsGrow,
       CurrentState, CurveIsOfBars
<1>8. ASSUME NEW d \in Taken PROVE Kept(d)
  <2>1. registered[d] \notin DOMAIN booked[d] /\ Len(bars[d]) \in Nat
    BY <1>0, <1>8, TakenIsRegistered DEF BookedInv, LedgerOf, NoGap
  <2> QED  BY <1>0, <2>1 DEF Kept
<1>9. AtWork(runner[r])'
  <2>1. /\ new.at = "trades" /\ new.cand = c /\ new.st = runner[r].st /\ new.df = runner[r].df
        /\ new.next = runner[r].next /\ new.rows = runner[r].rows \ {t}
    BY <1>0, <1>1 DEF RunnerRows, c
  <2>2. runner'[r] = new
    BY <1>0
  <2> HIDE DEF new
  <2>3. AtWork(runner[r])
    BY DEF BookedInv
  <2>4. new.next.fills \ new.rows \subseteq trades'[c]
    BY <1>1, <1>4, <2>1
  <2> QED
    BY <1>0, <1>6, <2>1, <2>2, <2>3, <2>4 DEF AtWork, c
<1>10. ASSUME NEW x \in Runners, x # r PROVE AtWork(runner[x])'
  BY <1>0, <1>4, <1>5, <1>8, <1>10, KeptWork DEF BookedInv
<1> QED  BY <1>5, <1>7, <1>9, <1>10 DEF BookedInv

LEMMA EquityKeepsBooks ==
  ASSUME BookedInv, ForwardShape', NEW r \in Runners, UpsertEquity(r)
  PROVE  BookedInv'
<1> DEFINE c == runner[r].cand
           n == runner[r].st.last
           new == [runner[r] EXCEPT !.at = "state"]
           t == runner[r].next
<1>0. /\ UNCHANGED <<bars, registered, book, state, trades, booked>> /\ ForwardShape
      /\ runner[r].at = "trades" /\ runner[r].rows = {} /\ runner' = [runner EXCEPT ![r] = new]
      /\ equity' = [equity EXCEPT ![c] = [m \in DOMAIN equity[c] \union {t.last} |->
                                            IF m = t.last THEN t.fills ELSE equity[c][m]]]
      /\ runner \in [Runners -> RunnerRows] /\ DOMAIN equity = Candidates
  BY DEF UpsertEquity, Move, BookedInv, ForwardShape, ForwardTypeOK
<1>1. /\ runner[r] \in RunnerRows /\ c \in Taken /\ c \in Candidates /\ LedgerOf(c)
      /\ n \in 0..LastDay /\ Known(c, n) /\ n >= registered[c] /\ n + 1 <= Len(bars[c])
      /\ t = StateAfter(c, n) /\ t.last = n + 1
  BY <1>0, UnderWay
<1>r. registered[c] \in Nat /\ Len(bars[c]) \in Nat
  BY <1>0, <1>1, TakenIsRegistered
<1>4. /\ DOMAIN equity'[c] = DOMAIN equity[c] \union {n + 1}
      /\ \A m \in DOMAIN equity'[c] : equity'[c][m] = IF m = n + 1 THEN t.fills ELSE equity[c][m]
      /\ \A d \in Candidates : d # c => equity'[d] = equity[d]
  BY <1>0, <1>1
<1> HIDE DEF c, n, t
<1>5. Taken' = Taken /\ Taken \subseteq Candidates
  BY <1>0 DEF Taken
<1>6. \A d, m : (Known(d, m)' <=> Known(d, m)) /\ StateAt(d, m)' = StateAt(d, m) /\ StateAfter(d, m)' = StateAfter(d, m)
  BY <1>0 DEF Known, StateAt, StateAfter, NewState, AfterBar
<1>7. ASSUME NEW d \in Taken PROVE LedgerOf(d)'
  <2>1. LedgerOf(d) /\ d \in Candidates
    BY <1>5 DEF BookedInv
  <2>2. CurveIsOfBars(d)
    BY <2>1 DEF LedgerOf
  <2>3. DOMAIN booked'[d] \subseteq DOMAIN equity'[d]
    BY <1>0, <1>4, <2>1, <2>2 DEF CurveIsOfBars
  <2>4. ASSUME NEW m \in DOMAIN equity'[d]
        PROVE  /\ m \in (registered[d] + 1)..Len(bars[d]) /\ Known(d, m - 1)
               /\ equity'[d][m] = StateAfter(d, m - 1).fills
    <3>1. CASE d = c /\ m = n + 1
      <4>1. m - 1 = n /\ m \in (registered[c] + 1)..Len(bars[c])
        BY <1>1, <1>r, <3>1
      <4> QED  BY <1>1, <1>4, <2>4, <3>1, <4>1
    <3>2. CASE ~(d = c /\ m = n + 1)
      <4>1. m \in DOMAIN equity[d] /\ equity'[d][m] = equity[d][m]
        BY <1>4, <2>1, <2>4, <3>2
      <4> QED  BY <2>2, <4>1 DEF CurveIsOfBars
    <3> QED  BY <3>1, <3>2
  <2>5. CurveIsOfBars(d)'
    BY <1>0, <1>6, <2>3, <2>4 DEF CurveIsOfBars
  <2> QED
    BY <1>0, <1>6, <2>1, <2>5 DEF LedgerOf, NoGap, StatesAreRows, OneResult, FillsGrow,
       CurrentState, RowsAreOfBars, AllWritten
<1>8. ASSUME NEW d \in Taken PROVE Kept(d)
  <2>1. registered[d] \notin DOMAIN booked[d] /\ Len(bars[d]) \in Nat
    BY <1>0, <1>8, TakenIsRegistered DEF BookedInv, LedgerOf, NoGap
  <2> QED  BY <1>0, <2>1 DEF Kept
<1>9. AtWork(runner[r])'
  <2>1. /\ new.at = "state" /\ new.cand = c /\ new.st = runner[r].st /\ new.df = runner[r].df
        /\ new.next = t /\ new.rows = {}
    BY <1>0, <1>1 DEF RunnerRows, c, t
  <2>2. runner'[r] = new
    BY <1>0
  <2> HIDE DEF new
  <2>3. AtWork(runner[r])
    BY DEF BookedInv
  <2>4. new.next.last \in DOMAIN equity'[c]
    BY <1>1, <1>4, <2>1
  <2> QED
    BY <1>0, <1>6, <2>1, <2>2, <2>3, <2>4 DEF AtWork, c, t
<1>10. ASSUME NEW x \in Runners, x # r PROVE AtWork(runner[x])'
  <2>1. \A d \in Taken : DOMAIN equity[d] \subseteq DOMAIN equity'[d]
    BY <1>4, <1>5
  <2> QED
    BY <1>0, <1>5, <1>8, <1>10, <2>1, KeptWork DEF BookedInv
<1> QED  BY <1>5, <1>7, <1>9, <1>10 DEF BookedInv

(* the next bar of a runner that has just read or written the state s *)
LEMMA BookFromWorks ==
  ASSUME NEW r \in Runners, NEW c, NEW s, BookFrom(r, s), DOMAIN runner = Runners,
         runner[r].cand = c, book' = book, ForwardShape', c \in Taken', LedgerOf(c)',
         s.last \in Nat, Known(c, s.last)', s = StateAt(c, s.last)',
         runner[r].df \in Seq(Quotes)
  PROVE  AtWork(runner[r])'
<1> DEFINE n == s.last + 1
           df == runner[r].df
<1>1. CASE n > Len(df)
  <2>1. runner' = [runner EXCEPT ![r] = [Idle EXCEPT !.at = "loop", !.left = runner[r].left]]
    BY <1>1 DEF BookFrom, NextCandidate, Move
  <2>2. runner'[r].at = "loop"
    BY <2>1, IdleIsARow DEF Idle
  <2> QED  BY <2>2 DEF AtWork
<1>2. CASE ~(n > Len(df))
  <2> DEFINE t == AfterBar(c, s, df[n], n)
             new == [at |-> "trades", left |-> runner[r].left, cand |-> c, df |-> df,
                     st |-> s, next |-> t, rows |-> t.fills \ s.fills]
  <2>1. runner'[r] = new
    BY <1>2 DEF BookFrom, Move
  <2>2. n <= Len(df) /\ n \in 1..Len(df)
    BY <1>2
  <2> USE <1>2
  <2>w. runner'[r].df = df /\ runner'[r].cand = c
    BY <2>1
  <2>h. df[n] = bars'[c][n]
    <3>1. \A i \in 1..Len(df) : df[i] = bars'[c][i]
      BY <2>w, <2>1 DEF ForwardShape, RunnerHolds, HistoryOf, Booking
    <3> QED  BY <2>2, <3>1
  <2>3. t = StateAfter(c, s.last)'
    <3>1. AfterBar(c, s, df[n], n) = IF book[c] = "horizon" THEN HorizonBar(s, df[n], n) ELSE ForwardBar(s, df[n], n)
      BY DEF AfterBar
    <3>2. StateAfter(c, s.last)' = IF book'[c] = "horizon" THEN HorizonBar(s, bars'[c][n], n) ELSE ForwardBar(s, bars'[c][n], n)
      BY DEF StateAfter, AfterBar
    <3> QED  BY <2>h, <3>1, <3>2
  <2>4. s.fills \subseteq trades'[c]
    <3>1. CASE s.last \in DOMAIN booked'[c]
      BY <3>1 DEF StateAt, LedgerOf, AllWritten
    <3>2. CASE s.last \notin DOMAIN booked'[c]
      <4>1. s.fills = {}
        BY <3>2 DEF StateAt, NewState, NoRow
      <4> QED  BY <4>1
    <3> QED  BY <3>1, <3>2
  <2> HIDE DEF t
  <2>5. /\ new.at = "trades" /\ new.cand = c /\ new.df = df /\ new.st = s /\ new.next = t
        /\ new.rows = t.fills \ s.fills
    OBVIOUS
  <2> HIDE DEF new
  <2>6. new.next.fills \ new.rows \subseteq trades'[c]
    BY <2>4, <2>5
  <2> QED
    BY <2>1, <2>2, <2>3, <2>5, <2>6 DEF AtWork
<1> QED  BY <1>1, <1>2

LEMMA ReadKeepsBooks ==
  ASSUME BookedInv, ForwardShape', NEW r \in Runners, ReadState(r)
  PROVE  BookedInv'
<1>c. PICK c : c = runner[r].cand
  OBVIOUS
<1>0. /\ UNCHANGED <<bars, registered, book, state, trades, equity, booked>> /\ ForwardShape
      /\ runner[r].at = "read" /\ BookFrom(r, state[c]) /\ runner \in [Runners -> RunnerRows]
  BY <1>c DEF ReadState, BookedInv, ForwardShape, ForwardTypeOK
<1>1. c \in Taken /\ c \in Candidates /\ HistoryOf(runner[r]) /\ runner[r].df \in Seq(Quotes)
  BY <1>0, <1>c DEF ForwardShape, RunnerHolds, Booking, Taken, RunnerRows
<1>2. LedgerOf(c) /\ state[c] \in StateRows
  BY <1>0, <1>1 DEF BookedInv, ForwardShape, ForwardTypeOK
<1>3. \A d, m : (Known(d, m)' <=> Known(d, m)) /\ StateAt(d, m)' = StateAt(d, m) /\ StateAfter(d, m)' = StateAfter(d, m)
  BY <1>0 DEF Known, StateAt, StateAfter, NewState, AfterBar
<1>4. Taken' = Taken
  BY <1>0 DEF Taken
<1>5. ASSUME NEW d \in Taken PROVE LedgerOf(d)'
  <2>1. LedgerOf(d)
    BY DEF BookedInv
  <2> QED
    BY <1>0, <1>3, <2>1 DEF LedgerOf, NoGap, StatesAreRows, OneResult, FillsGrow, CurrentState,
       RowsAreOfBars, AllWritten, CurveIsOfBars
<1>6. ASSUME NEW x \in Runners, x # r PROVE AtWork(runner[x])'
  <2>1. runner'[x] = runner[x] /\ AtWork(runner[x])
    BY <1>0, <1>6 DEF BookFrom, NextCandidate, Move, BookedInv
  <2> QED
    BY <1>0, <1>3, <2>1 DEF AtWork
<1>7. AtWork(runner[r])'
  <2>s. PICK s : s = state[c]
    OBVIOUS
  <2>1. s.last \in Nat
    BY <1>2, <2>s, QuotesAreRecords DEF StateRows, ForwardNumbers
  <2>2. Known(c, s.last)' /\ s = StateAt(c, s.last)'
    BY <1>2, <1>3, <2>s DEF LedgerOf, CurrentState
  <2> QED
    BY <1>0, <1>c, <1>1, <1>4, <1>5, <2>s, <2>1, <2>2, BookFromWorks
<1> QED  BY <1>4, <1>5, <1>6, <1>7 DEF BookedInv

LEMMA StateKeepsBooks ==
  ASSUME BookedInv, ForwardShape', NEW r \in Runners, UpsertState(r)
  PROVE  BookedInv'
<1>c. PICK c : c = runner[r].cand
  OBVIOUS
<1>n. PICK n : n = runner[r].st.last
  OBVIOUS
<1>t. PICK t : t = runner[r].next
  OBVIOUS
<1>0. /\ UNCHANGED <<bars, registered, book, trades, equity>> /\ ForwardShape
      /\ runner[r].at = "state" /\ BookFrom(r, t) /\ runner \in [Runners -> RunnerRows]
      /\ DOMAIN booked = Candidates /\ state \in [Candidates -> StateRows]
      /\ state' = [state EXCEPT ![c] = t]
      /\ booked' = [booked EXCEPT ![c] = IF t.last \in DOMAIN booked[c] THEN booked[c]
                      ELSE [m \in DOMAIN booked[c] \union {t.last} |-> IF m = t.last THEN t ELSE booked[c][m]]]
  BY <1>c, <1>t DEF UpsertState, BookedInv, ForwardShape, ForwardTypeOK
<1>1. /\ c \in Taken /\ c \in Candidates /\ LedgerOf(c) /\ runner[r].df \in Seq(Quotes)
      /\ n \in 0..LastDay /\ Known(c, n) /\ n >= registered[c] /\ n + 1 <= Len(bars[c])
      /\ runner[r].st = StateAt(c, n)
      /\ t = StateAfter(c, n) /\ t \in StateRows /\ t.last = n + 1 /\ Steady(t)
      /\ StateAt(c, n).fills \subseteq t.fills
      /\ \A f \in t.fills : f.bar \in (registered[c] + 1)..(n + 1)
      /\ t.fills \subseteq trades[c] /\ t.last \in DOMAIN equity[c]
  <2>1. /\ runner[r] \in RunnerRows /\ c \in Taken /\ c \in Candidates /\ LedgerOf(c)
        /\ n \in 0..LastDay /\ Known(c, n) /\ n >= registered[c] /\ n + 1 <= Len(bars[c])
        /\ runner[r].st = StateAt(c, n)
        /\ t = StateAfter(c, n) /\ t \in StateRows /\ t.last = n + 1 /\ Steady(t)
        /\ runner[r].st.fills \subseteq t.fills
        /\ \A f \in t.fills : f.bar \in (registered[c] + 1)..(n + 1)
        /\ t.fills \ runner[r].rows \subseteq trades[c] /\ runner[r].rows = {}
        /\ t.last \in DOMAIN equity[c]
    BY <1>0, <1>c, <1>n, <1>t, UnderWay
  <2>2. runner[r].df \in Seq(Quotes)
    BY <2>1 DEF RunnerRows
  <2> QED  BY <2>1, <2>2
<1>2. /\ registered[c] \in Nat /\ Len(bars[c]) \in 0..LastDay /\ LastDay \in Nat
  <2>1. ForwardShape /\ c \in Taken /\ LastDay \in Nat
    BY <1>0, <1>1, QuotesAreRecords DEF ForwardNumbers
  <2> QED  BY <2>1, TakenIsRegistered
<1>k. PICK k : k = n + 1
  OBVIOUS
<1>3. /\ k \in 1..LastDay /\ k \in (registered[c] + 1)..Len(bars[c]) /\ k - 1 = n /\ t.last = k
  BY <1>1, <1>2, <1>k
<1>b. NoGap(c) /\ StatesAreRows(c) /\ OneResult(c) /\ FillsGrow(c) /\ AllWritten(c) /\ CurveIsOfBars(c)
  BY <1>1 DEF LedgerOf
<1>4. /\ DOMAIN booked'[c] = DOMAIN booked[c] \union {k} /\ booked'[c][k] = t
      /\ \A m \in DOMAIN booked[c] : booked'[c][m] = booked[c][m]
      /\ \A d \in Candidates : d # c => booked'[d] = booked[d]
  <2>1. CASE k \in DOMAIN booked[c]
    <3>1. booked[c][k] = t
      BY <1>1, <1>3, <1>b, <2>1 DEF OneResult
    <3> QED  BY <1>0, <1>1, <1>3, <2>1, <3>1
  <2>2. CASE k \notin DOMAIN booked[c]
    BY <1>0, <1>1, <1>3, <2>2
  <2> QED  BY <2>1, <2>2
<1>5. Taken' = Taken /\ Taken \subseteq Candidates
  BY <1>0 DEF Taken
<1>6. ASSUME NEW d \in Taken PROVE Kept(d)
  <2>1. registered[d] \notin DOMAIN booked[d] /\ Len(bars[d]) \in Nat /\ registered[d] \in Nat
    BY <1>0, <1>6, TakenIsRegistered DEF BookedInv, LedgerOf, NoGap
  <2>2. registered[d] \notin DOMAIN booked'[d]
    BY <1>2, <1>3, <1>4, <1>5, <1>6, <2>1
  <2> QED
    BY <1>0, <1>4, <1>5, <2>1, <2>2 DEF Kept
<1>7. /\ \A m : Known(c, m)' <=> Known(c, m) \/ m = k
      /\ \A m : Known(c, m) => StateAt(c, m)' = StateAt(c, m)
      /\ StateAt(c, k)' = t
  <2>1. \A m : Known(c, m) => StateAt(c, m)' = StateAt(c, m)
    BY <1>0, <1>1, <1>6, KeptStates
  <2>2. \A m : Known(c, m)' <=> Known(c, m) \/ m = k
    BY <1>0, <1>4 DEF Known
  <2>3. StateAt(c, k)' = t
    BY <1>4 DEF StateAt
  <2> QED  BY <2>1, <2>2, <2>3
<1>8. LedgerOf(c)'
  <2>1. NoGap(c)'
    <3> SUFFICES ASSUME NEW m \in DOMAIN booked'[c]
                 PROVE  /\ m \in (registered[c] + 1)..Len(bars[c])
                        /\ \A j \in (registered[c] + 1)..m : j \in DOMAIN booked'[c]
      BY <1>0 DEF NoGap
    <3>1. CASE m \in DOMAIN booked[c]
      BY <1>b, <1>4, <3>1 DEF NoGap
    <3>2. CASE m = k
      <4>1. \A j \in (registered[c] + 1)..k : j = k \/ j \in (registered[c] + 1)..n
        BY <1>2, <1>3
      <4>2. \A j \in (registered[c] + 1)..n : j \in DOMAIN booked[c]
        BY <1>1, <1>2, <1>b DEF Known, NoGap
      <4> QED  BY <1>3, <1>4, <3>2, <4>1, <4>2
    <3> QED  BY <1>4, <3>1, <3>2
  <2>2. StatesAreRows(c)'
    <3> SUFFICES ASSUME NEW m \in 0..LastDay, Known(c, m)'
                 PROVE  /\ StateAt(c, m)' \in StateRows /\ StateAt(c, m)'.last = m /\ Steady(StateAt(c, m)')
                        /\ \A f \in StateAt(c, m)'.fills : f.bar \in (registered[c] + 1)..m
      BY <1>0 DEF StatesAreRows, Steady
    <3>1. CASE Known(c, m)
      BY <1>b, <1>7, <3>1 DEF StatesAreRows
    <3>2. CASE m = k
      BY <1>1, <1>3, <1>7, <1>k, <3>2
    <3> QED  BY <1>7, <3>1, <3>2
  <2>3. OneResult(c)'
    <3> SUFFICES ASSUME NEW m \in DOMAIN booked'[c] PROVE booked'[c][m] = StateAfter(c, m - 1)'
      BY DEF OneResult
    <3>1. ASSUME NEW j \in Nat, Known(c, j), j + 1 <= Len(bars[c]) PROVE StateAfter(c, j)' = StateAfter(c, j)
      BY <1>0, <1>1, <1>6, <3>1, KeptStates
    <3>2. CASE m \in DOMAIN booked[c]
      <4>1. m \in (registered[c] + 1)..Len(bars[c]) /\ booked[c][m] = StateAfter(c, m - 1)
        BY <1>b, <3>2 DEF NoGap, OneResult
      <4>2. m - 1 \in Nat /\ (m - 1) + 1 <= Len(bars[c])
        BY <1>2, <4>1
      <4>3. Known(c, m - 1)
        BY <1>2, <1>b, <3>2, <4>1 DEF NoGap, Known
      <4> QED  BY <1>4, <3>1, <3>2, <4>1, <4>2, <4>3
    <3>3. CASE m = k
      <4>1. n \in Nat
        BY <1>1, <1>2
      <4> QED  BY <1>1, <1>3, <1>4, <3>1, <3>3, <4>1
    <3> QED  BY <1>4, <3>2, <3>3
  <2>4. FillsGrow(c)'
    <3> SUFFICES ASSUME NEW i \in 0..LastDay, NEW j \in 0..LastDay, Known(c, i)', Known(c, j)', i <= j
                 PROVE  StateAt(c, i)'.fills \subseteq StateAt(c, j)'.fills
      BY DEF FillsGrow
    <3>1. CASE Known(c, i) /\ Known(c, j)
      BY <1>b, <1>7, <3>1 DEF FillsGrow
    <3>2. CASE j = k /\ Known(c, i)
      <4>1. CASE i = k
        BY <3>2, <4>1
      <4>2. CASE i # k
        <5>1. i <= n
          BY <1>1, <1>2, <1>3, <3>2, <4>2
        <5>2. StateAt(c, i).fills \subseteq StateAt(c, n).fills
          BY <1>1, <1>b, <3>2, <5>1 DEF FillsGrow
        <5> QED  BY <1>1, <1>7, <3>2, <5>2
      <4> QED  BY <4>1, <4>2
    <3>3. CASE i = k /\ ~Known(c, k) /\ Known(c, j)
      <4>1. j # registered[c]
        BY <1>2, <1>3, <3>3
      <4>2. j \in DOMAIN booked[c]
        BY <3>3, <4>1 DEF Known
      <4>3. k \in DOMAIN booked[c]
        BY <1>2, <1>3, <1>b, <3>3, <4>2 DEF NoGap
      <4> QED  BY <3>3, <4>3 DEF Known
    <3>4. CASE i = k /\ j = k
      BY <3>4
    <3> QED  BY <1>7, <3>1, <3>2, <3>3, <3>4
  <2>5. CurrentState(c)'
    <3>1. state'[c] = t
      BY <1>0, <1>1
    <3> QED  BY <1>3, <1>7, <3>1 DEF CurrentState
  <2>6. RowsAreOfBars(c)'
    BY <1>0, <1>1, <1>6, KeptRows
  <2>7. AllWritten(c)'
    BY <1>0, <1>1, <1>4, <1>b DEF AllWritten
  <2>8. CurveIsOfBars(c)'
    <3>1. DOMAIN booked'[c] \subseteq DOMAIN equity'[c]
      BY <1>0, <1>1, <1>3, <1>4, <1>b DEF CurveIsOfBars
    <3>2. \A m \in DOMAIN equity'[c] :
            m \in (registered'[c] + 1)..Len(bars'[c]) /\ Known(c, m - 1)'
            /\ equity'[c][m] = StateAfter(c, m - 1)'.fills
      BY <1>0, <1>1, <1>6, KeptRows
    <3> QED  BY <3>1, <3>2 DEF CurveIsOfBars
  <2> QED
    BY <2>1, <2>2, <2>3, <2>4, <2>5, <2>6, <2>7, <2>8 DEF LedgerOf
<1>9. ASSUME NEW d \in Taken PROVE LedgerOf(d)'
  <2>1. CASE d = c
    BY <1>8, <2>1
  <2>2. CASE d # c
    <3>1. LedgerOf(d) /\ d \in Candidates
      BY <1>5 DEF BookedInv
    <3>2. booked'[d] = booked[d] /\ state'[d] = state[d]
      BY <1>0, <1>4, <2>2, <3>1
    <3>3. \A m : (Known(d, m)' <=> Known(d, m)) /\ StateAt(d, m)' = StateAt(d, m) /\ StateAfter(d, m)' = StateAfter(d, m)
      BY <1>0, <3>2 DEF Known, StateAt, StateAfter, NewState, AfterBar
    <3> QED
      BY <1>0, <3>1, <3>2, <3>3 DEF LedgerOf, NoGap, StatesAreRows, OneResult, FillsGrow, CurrentState,
         RowsAreOfBars, AllWritten, CurveIsOfBars
  <2> QED  BY <2>1, <2>2
<1>10. ASSUME NEW x \in Runners, x # r PROVE AtWork(runner[x])'
  <2>1. runner'[x] = runner[x] /\ AtWork(runner[x])
    BY <1>0, <1>10 DEF BookFrom, NextCandidate, Move, BookedInv
  <2> QED
    BY <1>0, <1>6, <2>1, KeptWork
<1>11. AtWork(runner[r])'
  <2>1. t.last \in Nat /\ Known(c, t.last)' /\ t = StateAt(c, t.last)'
    BY <1>3, <1>7
  <2>2. DOMAIN runner = Runners
    BY <1>0
  <2>3. book' = book /\ c \in Taken'
    BY <1>0, <1>1, <1>5
  <2> QED
    BY <1>0, <1>c, <1>1, <1>8, <2>1, <2>2, <2>3, BookFromWorks
<1> QED  BY <1>5, <1>9, <1>10, <1>11 DEF BookedInv

LEMMA BookedInvStep == BookedInv /\ [ForwardNext]_forwardVars => BookedInv'
<1> SUFFICES ASSUME BookedInv, [ForwardNext]_forwardVars PROVE BookedInv'
  OBVIOUS
<1>a. ForwardShape /\ ForwardShape'
  BY ForwardShapeStep DEF BookedInv
<1>1. ASSUME NEW c \in Candidates, NEW q \in Quotes, DayCloses(c, q) PROVE BookedInv'
  BY <1>a, <1>1, DayKeepsBooks
<1>2. ASSUME NEW c \in Candidates, NEW k \in {"forward", "horizon"}, RegisterCandidate(c, k) PROVE BookedInv'
  BY <1>a, <1>2, RegistrationKeepsBooks
<1>3. ASSUME NEW r \in Runners, NEW rec, Move(r, rec), rec.at \notin {"trades", "state"},
             UNCHANGED <<bars, registered, book, state, trades, equity, booked>>
      PROVE  BookedInv'
  <2>1. AtWork(rec)
    BY <1>3 DEF AtWork
  <2> QED  BY <1>a, <1>3, <2>1, MoveKeepsBooks
<1>i. Idle.at = "idle" /\ \A left : [Idle EXCEPT !.at = "loop", !.left = left].at = "loop"
  BY DEF Idle
<1>4. ASSUME NEW r \in Runners, StartRun(r) \/ FinishRun(r) \/ RunnerDies(r) \/ CandidateFails(r) PROVE BookedInv'
  <2>1. CASE StartRun(r)
    BY <1>3, <1>i, <2>1 DEF StartRun
  <2>2. CASE FinishRun(r)
    BY <1>3, <1>i, <2>2 DEF FinishRun
  <2>3. CASE RunnerDies(r)
    BY <1>3, <1>i, <2>3 DEF RunnerDies
  <2>4. CASE CandidateFails(r)
    BY <1>3, <1>i, <2>4 DEF CandidateFails, NextCandidate
  <2> QED  BY <1>4, <2>1, <2>2, <2>3, <2>4
<1>5. ASSUME NEW r \in Runners, NEW c \in Candidates, LoadHistory(r, c) PROVE BookedInv'
  <2> DEFINE full == [runner[r] EXCEPT !.at = "read", !.left = @ \ {c}, !.cand = c, !.df = bars[c]]
             none == [runner[r] EXCEPT !.left = @ \ {c}]
  <2>1. runner[r] \in RunnerRows /\ runner[r].at = "loop" /\ (Move(r, full) \/ Move(r, none))
        /\ UNCHANGED <<bars, registered, book, state, trades, equity, booked>>
    BY <1>a, <1>5 DEF LoadHistory, ForwardShape, ForwardTypeOK
  <2>2. full.at = "read" /\ none.at = "loop"
    BY <2>1 DEF RunnerRows
  <2> HIDE DEF full, none
  <2> QED  BY <1>3, <2>1, <2>2
<1>6. ASSUME NEW r \in Runners, ReadState(r) PROVE BookedInv'
  BY <1>a, <1>6, ReadKeepsBooks
<1>7. ASSUME NEW r \in Runners, NEW t \in runner[r].rows, InsertTrade(r, t) PROVE BookedInv'
  BY <1>a, <1>7, InsertKeepsBooks
<1>8. ASSUME NEW r \in Runners, UpsertEquity(r) PROVE BookedInv'
  BY <1>a, <1>8, EquityKeepsBooks
<1>9. ASSUME NEW r \in Runners, UpsertState(r) PROVE BookedInv'
  BY <1>a, <1>9, StateKeepsBooks
<1>10. CASE UNCHANGED forwardVars
  <2>1. /\ UNCHANGED <<bars, registered, book, state, trades, equity, booked, runner>>
    BY <1>10 DEF forwardVars
  <2>2. Taken' = Taken
    BY <2>1 DEF Taken
  <2>3. \A d, m : (Known(d, m)' <=> Known(d, m)) /\ StateAt(d, m)' = StateAt(d, m) /\ StateAfter(d, m)' = StateAfter(d, m)
    BY <2>1 DEF Known, StateAt, StateAfter, NewState, AfterBar
  <2>4. ASSUME NEW d \in Taken PROVE LedgerOf(d)'
    <3>1. LedgerOf(d)
      BY DEF BookedInv
    <3> QED
      BY <2>1, <2>3, <3>1 DEF LedgerOf, NoGap, StatesAreRows, OneResult, FillsGrow, CurrentState,
         RowsAreOfBars, AllWritten, CurveIsOfBars
  <2>5. ASSUME NEW x \in Runners PROVE AtWork(runner[x])'
    BY <2>1, <2>3 DEF BookedInv, AtWork
  <2> QED  BY <1>a, <2>2, <2>4, <2>5 DEF BookedInv
<1> QED
  BY <1>1, <1>2, <1>4, <1>5, <1>6, <1>7, <1>8, <1>9, <1>10 DEF ForwardNext

(* However runs overlap, fail or die, the cash of a candidate accounts for *)
(* the trade rows up to its cursor (forward.py, "processing is             *)
(* idempotent"), for any candidates, runners, quotes, holding limit and    *)
(* number of failures.                                                     *)
THEOREM CashOfEveryRun == ForwardSpec => []CashIsItsTrades
BY BookedInvInit, BookedInvStep, CashFollows, PTL DEF ForwardSpec

(* A bar has one result whoever books it and however often, and the equity *)
(* curve has a row for every bar up to the last one booked (forward.py,    *)
(* horizon.py).                                                            *)
THEOREM BarsHaveOneResult == ForwardSpec => []BarsBookedAlike
BY BookedInvInit, BookedInvStep, AlikeFollows, PTL DEF ForwardSpec

-----------------------------------------------------------------------------
(* TcaStore: samples, the marks that crossed and the worker's hand *)

LEMMA MarksAreNumbers ==
  /\ LastTick \in Nat /\ Fresh \in Nat /\ Lag \in Nat /\ MaxChanges \in Nat
  /\ Triggers \subseteq Signals
  /\ \A i \in DOMAIN Marks : i \in Nat /\ Marks[i] \in Nat
  /\ \A i, j \in DOMAIN Marks : i < j => Marks[i] < Marks[j]
BY TcaAssumption DEF TcaAssumption

Worker ==
  [at : {"idle", "quotes", "follow", "note", "insert"},
   signal : Signals \union {"none"}, quote : -1..LastTick]

(* a quote is in hand, and an event is made of a trigger just noted *)
InHand ==
  /\ tca.at \in {"follow", "note", "insert"} => tca.quote >= 0
  /\ tca.at = "insert" => tca.signal \in Triggers /\ lastSignal = tca.signal

TcaShape == TcaTypeOK /\ InHand

LEMMA RestingType == Resting \in Worker
BY MarksAreNumbers DEF Resting, Worker

LEMMA TcaShapeInit == TcaInit => TcaShape
BY MarksAreNumbers, RestingType DEF TcaInit, TcaShape, TcaTypeOK, InHand, Resting, Worker, EventRow

LEMMA MarkedType ==
  ASSUME NEW e \in EventRow, tca.quote \in -1..LastTick
  PROVE  /\ Marked(e) \in EventRow /\ Marked(e).trigger = e.trigger /\ Marked(e).ts = e.ts
         /\ \A i \in DOMAIN Marks :
              Marked(e).marks[i] = IF e.marks[i] = -1 /\ tca.quote - e.ts >= Marks[i]
                                   THEN tca.quote ELSE e.marks[i]
<1> DEFINE m == [i \in DOMAIN Marks |->
                   IF e.marks[i] = -1 /\ tca.quote - e.ts >= Marks[i] THEN tca.quote ELSE e.marks[i]]
<1>1. e.marks \in [DOMAIN Marks -> -1..LastTick] /\ e.trigger \in Triggers /\ e.ts \in 0..LastTick
  BY DEF EventRow
<1>2. m \in [DOMAIN Marks -> -1..LastTick]
  BY <1>1
<1>3. Marked(e) = [trigger |-> e.trigger, ts |-> e.ts, marks |-> m]
  BY DEF Marked, EventRow
<1> QED
  BY <1>1, <1>2, <1>3 DEF EventRow

LEMMA TcaShapeStep == TcaShape /\ [TcaNext]_tcaVars => TcaShape'
<1> SUFFICES ASSUME TcaShape, [TcaNext]_tcaVars PROVE TcaShape'
  OBVIOUS
<1>a. TcaTypeOK /\ InHand /\ tca \in Worker
  BY DEF TcaShape, TcaTypeOK, Worker
<1>b. LastTick \in Nat /\ Triggers \subseteq Signals
  BY MarksAreNumbers
<1>c. Resting \in Worker /\ Resting.at = "idle"
  BY RestingType DEF Resting
<1>1. CASE TcaTick
  BY <1>1, <1>a, <1>b DEF TcaTick, TcaShape, TcaTypeOK, InHand
<1>2. ASSUME NEW g \in Signals, SetSignal(g) PROVE TcaShape'
  BY <1>2, <1>a, <1>b DEF SetSignal, TcaShape, TcaTypeOK, InHand
<1>3. ASSUME NEW ts \in 0..LastTick, SetQuote(ts) PROVE TcaShape'
  BY <1>3, <1>a, <1>b DEF SetQuote, TcaShape, TcaTypeOK, InHand
<1>4. CASE ReadSignal
  BY <1>4, <1>a, <1>b DEF ReadSignal, TcaShape, TcaTypeOK, InHand
<1>5. CASE ReadQuote
  <2>1. CASE tca' = Resting
    BY <1>5, <1>a, <1>c, <2>1 DEF ReadQuote, TcaShape, TcaTypeOK, InHand, Worker
  <2>2. CASE quote >= 0 /\ tca' = [tca EXCEPT !.at = "follow", !.quote = quote]
    BY <1>5, <1>a, <1>b, <2>2 DEF ReadQuote, TcaShape, TcaTypeOK, InHand, Worker
  <2> QED  BY <1>5, <2>1, <2>2 DEF ReadQuote
<1>6. CASE FollowUp
  <2>1. tca.quote \in -1..LastTick /\ events \in Seq(EventRow)
    BY <1>a DEF Worker, TcaTypeOK
  <2>2. \A n \in DOMAIN events : events[n] \in EventRow
    BY <2>1
  <2>3. \A n \in DOMAIN events : Marked(events[n]) \in EventRow
    BY <2>1, <2>2, MarkedType
  <2>4. DOMAIN events = 1..Len(events) /\ Len(events) \in Nat
    BY <2>1
  <2>5. events' = [n \in 1..Len(events) |-> Marked(events[n])]
    BY <1>6, <2>4 DEF FollowUp
  <2>6. events' \in Seq(EventRow)
    BY <2>3, <2>4, <2>5
  <2>7. tca' \in Worker /\ InHand'
    <3>1. CASE tca' = Resting
      BY <1>c, <3>1 DEF InHand
    <3>2. CASE tca' = [tca EXCEPT !.at = "note"]
      BY <1>6, <1>a, <3>2 DEF FollowUp, InHand, Worker
    <3> QED  BY <1>6, <3>1, <3>2 DEF FollowUp
  <2> QED
    BY <1>6, <1>a, <2>6, <2>7 DEF FollowUp, TcaShape, TcaTypeOK, Worker
<1>7. CASE NoteSignal
  <2>1. CASE tca' = Resting
    BY <1>7, <1>a, <1>c, <2>1 DEF NoteSignal, TcaShape, TcaTypeOK, InHand, Worker
  <2>2. CASE tca.signal \in Triggers /\ tca' = [tca EXCEPT !.at = "insert"]
    BY <1>7, <1>a, <1>b, <2>2 DEF NoteSignal, TcaShape, TcaTypeOK, InHand, Worker
  <2> QED  BY <1>7, <2>1, <2>2 DEF NoteSignal
<1>8. CASE InsertEvent
  <2> DEFINE e == [trigger |-> tca.signal, ts |-> tca.quote, marks |-> [i \in DOMAIN Marks |-> -1]]
  <2>1. tca.signal \in Triggers /\ tca.quote \in 0..LastTick
    BY <1>8, <1>a, <1>b DEF InsertEvent, InHand, Worker
  <2>2. [i \in DOMAIN Marks |-> -1] \in [DOMAIN Marks -> -1..LastTick]
    BY <1>b
  <2>3. e \in EventRow
    BY <2>1, <2>2 DEF EventRow
  <2>4. events' = Append(events, e) /\ events \in Seq(EventRow)
    BY <1>8, <1>a DEF InsertEvent, TcaTypeOK
  <2> HIDE DEF e
  <2>5. events' \in Seq(EventRow)
    BY <2>3, <2>4
  <2> QED
    BY <1>8, <1>a, <1>c, <2>5 DEF InsertEvent, TcaShape, TcaTypeOK, InHand, Worker
<1>9. CASE WorkerStops
  BY <1>9, <1>a, <1>c DEF WorkerStops, TcaShape, TcaTypeOK, InHand, Worker
<1>10. CASE UNCHANGED tcaVars
  BY <1>10, <1>a DEF tcaVars, TcaShape, TcaTypeOK, InHand
<1> QED
  BY <1>1, <1>2, <1>3, <1>4, <1>5, <1>6, <1>7, <1>8, <1>9, <1>10 DEF TcaNext

(* The events, their marks and what the worker has read keep their types   *)
(* in every reachable state (tca_engine.observe).                          *)
THEOREM TcaTypeCorrect == TcaSpec => []TcaTypeOK
<1>1. TcaShape => TcaTypeOK
  BY DEF TcaShape
<1> QED
  BY <1>1, TcaShapeInit, TcaShapeStep, PTL DEF TcaSpec

-----------------------------------------------------------------------------
(* the marks of an event: each after its time, and none missing before one *)
MarksOf(e) ==
  /\ \A i \in DOMAIN Marks : e.marks[i] # -1 => e.marks[i] >= e.ts + Marks[i]
  /\ \A i, j \in DOMAIN Marks : j < i /\ e.marks[i] # -1 => e.marks[j] # -1 /\ e.marks[j] <= e.marks[i]
  /\ \A i, j \in DOMAIN Marks : e.marks[j] # -1 /\ e.marks[j] >= e.ts + Marks[i] => e.marks[i] # -1

LEMMA MarkedInOrder ==
  ASSUME NEW e \in EventRow, tca.quote \in 0..LastTick, MarksOf(e) PROVE MarksOf(Marked(e))
<1> DEFINE f == Marked(e)
           q == tca.quote
<1>1. /\ f.ts = e.ts /\ q \in Nat /\ e.ts \in Nat
      /\ \A i \in DOMAIN Marks : /\ Marks[i] \in Nat /\ i \in Nat
                                 /\ e.marks[i] \in Int
                                 /\ f.marks[i] = IF e.marks[i] = -1 /\ q - e.ts >= Marks[i] THEN q ELSE e.marks[i]
  <2>1. tca.quote \in -1..LastTick /\ tca.quote \in Nat
    BY MarksAreNumbers
  <2>2. \A i \in DOMAIN Marks : e.marks[i] \in Int
    BY MarksAreNumbers DEF EventRow
  <2>3. e.ts \in Nat
    BY MarksAreNumbers DEF EventRow
  <2> QED
    BY <2>1, <2>2, <2>3, MarkedType, MarksAreNumbers
<1>2. \A i, j \in DOMAIN Marks : i < j => Marks[i] < Marks[j]
  BY MarksAreNumbers
<1> HIDE DEF f, q
<1>3. \A i \in DOMAIN Marks : f.marks[i] # -1 => f.marks[i] >= f.ts + Marks[i]
  BY <1>1 DEF MarksOf
<1>4. \A i, j \in DOMAIN Marks : f.marks[j] # -1 /\ f.marks[j] >= f.ts + Marks[i] => f.marks[i] # -1
  BY <1>1 DEF MarksOf
<1>5. \A i, j \in DOMAIN Marks : j < i /\ f.marks[i] # -1 => f.marks[j] # -1 /\ f.marks[j] <= f.marks[i]
  <2> SUFFICES ASSUME NEW i \in DOMAIN Marks, NEW j \in DOMAIN Marks, j < i, f.marks[i] # -1
               PROVE  f.marks[j] # -1 /\ f.marks[j] <= f.marks[i]
    OBVIOUS
  <2>1. Marks[j] < Marks[i] /\ Marks[i] \in Nat /\ Marks[j] \in Nat
    BY <1>1, <1>2
  <2>2. CASE e.marks[i] # -1
    BY <1>1, <2>1, <2>2 DEF MarksOf
  <2>3. CASE e.marks[i] = -1
    <3>1. q - e.ts >= Marks[i] /\ f.marks[i] = q
      BY <1>1, <2>3
    <3>2. CASE e.marks[j] = -1
      BY <1>1, <2>1, <3>1, <3>2
    <3>3. CASE e.marks[j] # -1
      <4>1. ~(e.marks[j] >= e.ts + Marks[i])
        BY <2>3, <3>3 DEF MarksOf
      <4> QED
        BY <1>1, <2>1, <3>1, <3>3, <4>1
    <3> QED  BY <3>2, <3>3
  <2> QED  BY <2>2, <2>3
<1> QED
  BY <1>3, <1>4, <1>5 DEF MarksOf, f

AllMarked == \A n \in DOMAIN events : MarksOf(events[n])

(* What a change of the signal into g may still give: the worker has it in *)
(* hand or will read it, and has not noted it, or notes another one first. *)
BeforeNote == tca.at \in {"quotes", "follow", "note"}
Owed(g) ==
  IF /\ signal = g \/ (BeforeNote /\ tca.signal = g)
     /\ lastSignal # g \/ (BeforeNote /\ tca.signal # g)
  THEN 1 ELSE 0
Inserting(g) == IF tca.at = "insert" /\ tca.signal = g THEN 1 ELSE 0
PaidFor ==
  \A g \in Triggers :
    /\ IsFiniteSet(EventsOf(g))
    /\ Cardinality(EventsOf(g)) + Inserting(g) + Owed(g) <= raised[g]

SampleInv == TcaShape /\ AllMarked /\ PaidFor

LEMMA SampleInvInit == TcaInit => SampleInv
<1> SUFFICES ASSUME TcaInit PROVE SampleInv
  OBVIOUS
<1>1. events = <<>> /\ tca.at = "idle" /\ signal = "none" /\ raised = [g \in Triggers |-> 0]
  BY DEF TcaInit, Resting
<1>2. \A g \in Triggers : EventsOf(g) = {} /\ g # "none"
  BY <1>1, TcaAssumption DEF EventsOf, TcaAssumption
<1>3. PaidFor
  BY <1>1, <1>2, FS_EmptySet DEF PaidFor, Inserting, Owed, BeforeNote
<1>4. AllMarked
  BY <1>1 DEF AllMarked
<1> QED
  BY <1>3, <1>4, TcaShapeInit DEF SampleInv

(* nothing is owed that was not before, and no event is made *)
LEMMA PaidForFrame ==
  ASSUME PaidFor, TcaTypeOK, \A g \in Triggers : EventsOf(g)' = EventsOf(g), raised' = raised,
         \A g \in Triggers : Inserting(g)' + Owed(g)' <= Inserting(g) + Owed(g)
  PROVE  PaidFor'
<1> SUFFICES ASSUME NEW g \in Triggers
             PROVE  /\ IsFiniteSet(EventsOf(g)')
                    /\ Cardinality(EventsOf(g)') + Inserting(g)' + Owed(g)' <= raised'[g]
  BY DEF PaidFor
<1>1. IsFiniteSet(EventsOf(g)) /\ Cardinality(EventsOf(g)) \in Nat /\ raised[g] \in Nat
  BY FS_CardinalityType DEF PaidFor, TcaTypeOK
<1>2. Inserting(g) \in Nat /\ Owed(g) \in Nat /\ Inserting(g)' \in Nat /\ Owed(g)' \in Nat
  BY DEF Inserting, Owed
<1> QED
  BY <1>1, <1>2 DEF PaidFor

LEMMA SampleInvStep == SampleInv /\ [TcaNext]_tcaVars => SampleInv'
<1> SUFFICES ASSUME SampleInv, [TcaNext]_tcaVars PROVE AllMarked' /\ PaidFor'
  BY TcaShapeStep DEF SampleInv
<1>a. TcaTypeOK /\ InHand /\ tca \in Worker /\ AllMarked /\ PaidFor
  BY DEF SampleInv, TcaShape, TcaTypeOK, Worker
<1>b. ASSUME events' = events, raised' = raised,
             \A g \in Triggers : Inserting(g)' + Owed(g)' <= Inserting(g) + Owed(g)
      PROVE  AllMarked' /\ PaidFor'
  <2>1. \A g \in Triggers : EventsOf(g)' = EventsOf(g)
    BY <1>b DEF EventsOf
  <2>2. AllMarked'
    BY <1>b, <1>a DEF AllMarked
  <2> QED
    BY <1>b, <1>a, <2>1, <2>2, PaidForFrame
<1>1. CASE TcaTick
  BY <1>1, <1>b DEF TcaTick, Inserting, Owed, BeforeNote
<1>2. ASSUME NEW g \in Signals, SetSignal(g) PROVE AllMarked' /\ PaidFor'
  <2>1. AllMarked'
    BY <1>2, <1>a DEF SetSignal, AllMarked
  <2>2. PaidFor'
    <3> SUFFICES ASSUME NEW h \in Triggers
                 PROVE  /\ IsFiniteSet(EventsOf(h)')
                        /\ Cardinality(EventsOf(h)') + Inserting(h)' + Owed(h)' <= raised'[h]
      BY DEF PaidFor
    <3>1. EventsOf(h)' = EventsOf(h) /\ Inserting(h)' = Inserting(h)
      BY <1>2 DEF SetSignal, EventsOf, Inserting
    <3>2. /\ IsFiniteSet(EventsOf(h)) /\ Cardinality(EventsOf(h)) \in Nat
          /\ raised[h] \in Nat /\ Inserting(h) \in Nat /\ Owed(h) \in {0, 1} /\ Owed(h)' \in {0, 1}
          /\ Cardinality(EventsOf(h)) + Inserting(h) + Owed(h) <= raised[h]
      BY <1>a, FS_CardinalityType DEF PaidFor, TcaTypeOK, Inserting, Owed
    <3>3. CASE h = g
      <4>1. raised'[h] = raised[h] + 1
        BY <1>2, <1>a, <3>3 DEF SetSignal, TcaTypeOK
      <4> QED
        BY <3>1, <3>2, <4>1
    <3>4. CASE h # g
      <4>1. raised'[h] = raised[h]
        BY <1>2, <1>a, <3>4 DEF SetSignal, TcaTypeOK
      <4>2. Owed(h)' <= Owed(h)
        BY <1>2, <3>4 DEF SetSignal, Owed, BeforeNote
      <4> QED
        BY <3>1, <3>2, <4>1, <4>2
    <3> QED  BY <3>3, <3>4
  <2> QED  BY <2>1, <2>2
<1>3. ASSUME NEW ts \in 0..LastTick, SetQuote(ts) PROVE AllMarked' /\ PaidFor'
  BY <1>3, <1>b DEF SetQuote, Inserting, Owed, BeforeNote
<1>4. CASE ReadSignal
  BY <1>4, <1>a, <1>b DEF ReadSignal, Inserting, Owed, BeforeNote
<1>5. CASE ReadQuote
  <2>1. CASE tca' = Resting
    BY <1>5, <1>a, <1>b, <2>1 DEF ReadQuote, Inserting, Owed, BeforeNote, Resting
  <2>2. CASE tca' = [tca EXCEPT !.at = "follow", !.quote = quote]
    <3>1. tca'.at = "follow" /\ tca'.signal = tca.signal
      BY <1>a, <2>2 DEF Worker
    <3>2. \A g \in Triggers : Inserting(g)' = Inserting(g) /\ Owed(g)' = Owed(g)
      BY <1>5, <3>1 DEF ReadQuote, Inserting, Owed, BeforeNote
    <3>3. \A g \in Triggers : Inserting(g) \in Nat /\ Owed(g) \in Nat
      BY DEF Inserting, Owed
    <3>4. events' = events /\ raised' = raised
      BY <1>5 DEF ReadQuote
    <3> QED  BY <1>b, <3>2, <3>3, <3>4
  <2> QED  BY <1>5, <2>1, <2>2 DEF ReadQuote
<1>6. CASE FollowUp
  <2>1. tca.quote \in 0..LastTick /\ events \in Seq(EventRow)
    BY <1>6, <1>a DEF FollowUp, InHand, Worker, TcaTypeOK
  <2>2. \A n \in DOMAIN events : events[n] \in EventRow
    BY <2>1
  <2>3. DOMAIN events' = DOMAIN events /\ \A n \in DOMAIN events : events'[n] = Marked(events[n])
    BY <1>6 DEF FollowUp
  <2>4. AllMarked'
    <3> SUFFICES ASSUME NEW n \in DOMAIN events PROVE MarksOf(Marked(events[n]))
      BY <2>3 DEF AllMarked, MarksOf
    <3>1. events[n] \in EventRow /\ MarksOf(events[n])
      BY <1>a, <2>2 DEF AllMarked
    <3> QED
      BY <2>1, <3>1, MarkedInOrder
  <2>5. \A n \in DOMAIN events : Marked(events[n]).trigger = events[n].trigger
    BY <2>1, <2>2, MarkedType, MarksAreNumbers
  <2>6. \A g \in Triggers : EventsOf(g)' = EventsOf(g)
    BY <2>3, <2>5 DEF EventsOf
  <2>7. \A g \in Triggers : Inserting(g)' + Owed(g)' <= Inserting(g) + Owed(g)
    <3>1. CASE tca' = Resting
      BY <1>6, <1>a, <3>1 DEF FollowUp, Inserting, Owed, BeforeNote, Resting
    <3>2. CASE tca' = [tca EXCEPT !.at = "note"]
      BY <1>6, <1>a, <3>2 DEF FollowUp, Inserting, Owed, BeforeNote, Worker
    <3> QED  BY <1>6, <3>1, <3>2 DEF FollowUp
  <2> QED
    BY <1>6, <1>a, <2>4, <2>6, <2>7, PaidForFrame DEF FollowUp
<1>7. CASE NoteSignal
  <2>1. CASE tca' = Resting
    BY <1>7, <1>a, <1>b, <2>1 DEF NoteSignal, Inserting, Owed, BeforeNote, Resting
  <2>2. CASE tca.signal # lastSignal /\ tca' = [tca EXCEPT !.at = "insert"]
    BY <1>7, <1>a, <1>b, <2>2 DEF NoteSignal, Inserting, Owed, BeforeNote, Worker
  <2> QED  BY <1>7, <2>1, <2>2 DEF NoteSignal
<1>8. CASE InsertEvent
  <2> DEFINE e == [trigger |-> tca.signal, ts |-> tca.quote, marks |-> [i \in DOMAIN Marks |-> -1]]
             n == Len(events) + 1
  <2>1. events' = Append(events, e) /\ events \in Seq(EventRow) /\ raised' = raised /\ tca' = Resting
        /\ tca.at = "insert" /\ lastSignal' = lastSignal /\ signal' = signal
    BY <1>8, <1>a DEF InsertEvent, TcaTypeOK
  <2>2. /\ DOMAIN events' = DOMAIN events \cup {n} /\ n \notin DOMAIN events
        /\ events'[n] = e /\ \A k \in DOMAIN events : events'[k] = events[k]
    BY <2>1
  <2>3. \A i \in DOMAIN Marks : e.marks[i] = -1
    OBVIOUS
  <2>4. e.trigger = tca.signal
    OBVIOUS
  <2> HIDE DEF e, n
  <2>5. MarksOf(e)
    BY <2>3 DEF MarksOf
  <2>6. AllMarked'
    <3> SUFFICES ASSUME NEW k \in DOMAIN events' PROVE MarksOf(events'[k])
      BY DEF AllMarked, MarksOf
    <3> QED
      BY <1>a, <2>2, <2>5 DEF AllMarked
  <2>7. PaidFor'
    <3> SUFFICES ASSUME NEW g \in Triggers
                 PROVE  /\ IsFiniteSet(EventsOf(g)')
                        /\ Cardinality(EventsOf(g)') + Inserting(g)' + Owed(g)' <= raised'[g]
      BY DEF PaidFor
    <3>1. /\ IsFiniteSet(EventsOf(g)) /\ Cardinality(EventsOf(g)) \in Nat
          /\ raised[g] \in Nat
          /\ Cardinality(EventsOf(g)) + Inserting(g) + Owed(g) <= raised[g]
      BY <1>a, FS_CardinalityType DEF PaidFor, TcaTypeOK
    <3>2. Inserting(g)' = 0 /\ Owed(g)' = Owed(g) /\ Owed(g) \in {0, 1}
      BY <2>1 DEF Inserting, Owed, BeforeNote, Resting
    <3>3. CASE tca.signal = g
      <4>1. EventsOf(g)' = EventsOf(g) \cup {n} /\ n \notin EventsOf(g)
        BY <2>2, <2>4, <3>3 DEF EventsOf
      <4>2. IsFiniteSet(EventsOf(g)') /\ Cardinality(EventsOf(g)') = Cardinality(EventsOf(g)) + 1
        BY <3>1, <4>1, FS_AddElement
      <4>3. Inserting(g) = 1
        BY <2>1, <3>3 DEF Inserting
      <4> QED
        BY <2>1, <3>1, <3>2, <4>2, <4>3
    <3>4. CASE tca.signal # g
      <4>1. EventsOf(g)' = EventsOf(g)
        BY <2>2, <2>4, <3>4 DEF EventsOf
      <4>2. Inserting(g) = 0
        BY <3>4 DEF Inserting
      <4> QED
        BY <2>1, <3>1, <3>2, <4>1, <4>2
    <3> QED  BY <3>3, <3>4
  <2> QED  BY <2>6, <2>7
<1>9. CASE WorkerStops
  BY <1>9, <1>a, <1>b DEF WorkerStops, Inserting, Owed, BeforeNote, Resting
<1>10. CASE UNCHANGED tcaVars
  BY <1>10, <1>b DEF tcaVars, Inserting, Owed, BeforeNote
<1> QED
  BY <1>1, <1>2, <1>3, <1>4, <1>5, <1>6, <1>7, <1>8, <1>9, <1>10 DEF TcaNext

LEMMA SamplesFollow == SampleInv => SamplesAreGenuine
<1> SUFFICES ASSUME SampleInv PROVE SamplesAreGenuine
  OBVIOUS
<1>1. ASSUME NEW g \in Triggers PROVE Cardinality(EventsOf(g)) <= raised[g]
  <2>1. /\ Cardinality(EventsOf(g)) \in Nat /\ raised[g] \in Nat
        /\ Cardinality(EventsOf(g)) + Inserting(g) + Owed(g) <= raised[g]
    BY FS_CardinalityType DEF SampleInv, PaidFor, TcaShape, TcaTypeOK
  <2>2. Inserting(g) \in Nat /\ Owed(g) \in Nat
    BY DEF Inserting, Owed
  <2> QED  BY <2>1, <2>2
<1>2. ASSUME NEW n \in DOMAIN events, NEW i \in DOMAIN Marks, events[n].marks[i] # -1
      PROVE  /\ events[n].marks[i] >= events[n].ts + Marks[i]
             /\ \A j \in 1..i : events[n].marks[j] # -1 /\ events[n].marks[j] <= events[n].marks[i]
  <2>1. MarksOf(events[n]) /\ events[n] \in EventRow
    BY DEF SampleInv, AllMarked, TcaShape, TcaTypeOK
  <2>2. DOMAIN Marks = 1..Len(Marks) /\ Len(Marks) \in Nat
    BY TcaAssumption DEF TcaAssumption
  <2>3. events[n].marks[i] \in Int
    BY <2>1, MarksAreNumbers DEF EventRow
  <2>4. ASSUME NEW j \in 1..i PROVE events[n].marks[j] # -1 /\ events[n].marks[j] <= events[n].marks[i]
    BY <1>2, <2>1, <2>2, <2>3 DEF MarksOf
  <2> QED
    BY <1>2, <2>1, <2>4 DEF MarksOf
<1> QED
  BY <1>1, <1>2 DEF SamplesAreGenuine

(* A change of the signal gives one event at most, whatever the worker was *)
(* stopped between, and marks are taken in their order and not before      *)
(* their time, though the times of quotes go back (tca_engine.observe).    *)
THEOREM SamplesAreNotInflated == TcaSpec => []SamplesAreGenuine
BY SampleInvInit, SampleInvStep, SamplesFollow, PTL DEF TcaSpec

-----------------------------------------------------------------------------
(* CryptoShadow: what left the cash is in the positions or in the results  *)

(* what the positions hold, or the orders reserve, and how many they are *)
NotionalOf(rows, none) ==
  SumFunctionOnSet([s \in Symbols |-> rows[s].notional], {s \in Symbols : rows[s] # none})

CountOf(rows, none) == Cardinality({s \in Symbols : rows[s] # none})

Part(row, none) == IF row = none THEN 0 ELSE row.notional
One(row, none) == IF row = none THEN 0 ELSE 1

Taking(pos) == NotionalOf(pos, NoPosition)
PartOf(p) == Part(p, NoPosition)

CapitalShapes ==
  /\ cash \in Int /\ realized \in Int
  /\ position = [s \in Symbols |-> position[s]]
  /\ \A s \in Symbols :
       /\ position[s] = [entry |-> position[s].entry, notional |-> position[s].notional,
                         strategy |-> position[s].strategy, regime |-> position[s].regime,
                         held |-> position[s].held]
       /\ position[s].notional \in Int /\ position[s].held \in Nat
  /\ order = [s \in Symbols |-> order[s]] /\ \A s \in Symbols : order[s].notional \in Int
  /\ bar = [s \in Symbols |-> bar[s]] /\ \A s \in Symbols : bar[s].ask \in Int
  /\ engine = [at |-> engine.at, plan |-> engine.plan, btc |-> engine.btc, symbol |-> engine.symbol,
               size |-> engine.size]
  /\ engine.symbol \in Symbols /\ engine.size \in Int

(* an order stands only beside an empty position, and so does the engine   *)
(* that is about to write one; a bar that ends a holding time has one      *)
OneOfBoth ==
  /\ \A s \in Symbols : Pending(s) => ~Holding(s)
  /\ engine.at = "order" => ~Holding(engine.symbol)
  /\ engine.at = "time" => Holding(engine.symbol)

CapitalInv == CapitalShapes /\ OneOfBoth /\ cash + Taking(position) = InitialEquity + realized

LEMMA CryptoNumbers ==
  /\ Btc \in Symbols /\ IsFiniteSet(Symbols) /\ Asks \subseteq Nat /\ Results \subseteq Int
  /\ GrossCap \in Nat /\ StrategyCap \in Nat /\ RegimeCap \in Nat /\ InitialEquity \in Nat
BY CryptoAssumption DEF CryptoAssumption

LEMMA NotionalChanges ==
  ASSUME NEW pos, NEW next, NEW none, NEW x \in Symbols,
         \A s \in Symbols : pos[s].notional \in Int /\ next[s].notional \in Int,
         \A s \in Symbols : s # x => next[s] = pos[s]
  PROVE  /\ NotionalOf(pos, none) \in Int /\ NotionalOf(next, none) \in Int
         /\ Part(pos[x], none) \in Int /\ Part(next[x], none) \in Int
         /\ NotionalOf(next, none) - Part(next[x], none) = NotionalOf(pos, none) - Part(pos[x], none)
<1> DEFINE F(q) == [s \in Symbols |-> q[s].notional]
           E(q) == {s \in Symbols : q[s] # none}
<1>f. IsFiniteSet(Symbols)
  BY CryptoNumbers
<1>1. ASSUME NEW q, \A s \in Symbols : q[s].notional \in Int
      PROVE  /\ IsFiniteSet(E(q) \ {x}) /\ NotionalOf(q, none) \in Int /\ Part(q[x], none) \in Int
             /\ SumFunctionOnSet(F(q), E(q) \ {x}) \in Int
             /\ NotionalOf(q, none) = Part(q[x], none) + SumFunctionOnSet(F(q), E(q) \ {x})
  <2> DEFINE f == F(q)
             S == E(q)
  <2>1. IsFiniteSet(S) /\ IsFiniteSet(S \ {x})
    <3>1. S \subseteq Symbols /\ S \ {x} \subseteq Symbols
      OBVIOUS
    <3> HIDE DEF S
    <3> QED  BY <1>f, <3>1, FS_Subset
  <2>2. \A s \in S : f[s] \in Int
    BY <1>1
  <2>3. x \in S <=> q[x] # none
    OBVIOUS
  <2>4. f[x] = q[x].notional
    OBVIOUS
  <2>5. NotionalOf(q, none) = SumFunctionOnSet(f, S)
    BY DEF NotionalOf
  <2> HIDE DEF f, S
  <2>6. SumFunctionOnSet(f, S) \in Int /\ SumFunctionOnSet(f, S \ {x}) \in Int
    BY <2>1, <2>2, SumSame
  <2>7. CASE x \in S
    <3>1. SumFunctionOnSet(f, S) = f[x] + SumFunctionOnSet(f, S \ {x})
      BY <2>1, <2>2, <2>7, SumWithout
    <3> QED  BY <1>1, <2>1, <2>3, <2>4, <2>5, <2>6, <2>7, <3>1 DEF Part, f, S
  <2>8. CASE x \notin S
    <3>1. S \ {x} = S
      BY <2>8
    <3>2. Part(q[x], none) = 0
      BY <2>3, <2>8 DEF Part
    <3>s. SumFunctionOnSet(f, S \ {x}) = SumFunctionOnSet(f, S)
      BY <3>1
    <3>3. NotionalOf(q, none) = Part(q[x], none) + SumFunctionOnSet(f, S \ {x})
      BY <2>5, <2>6, <3>s, <3>2
    <3>4. NotionalOf(q, none) \in Int /\ Part(q[x], none) \in Int
      BY <2>5, <2>6, <3>2
    <3> QED  BY <2>1, <2>6, <3>3, <3>4 DEF f, S
  <2> QED  BY <2>7, <2>8
<1>2. SumFunctionOnSet(F(next), E(next) \ {x}) = SumFunctionOnSet(F(pos), E(pos) \ {x})
  <2> DEFINE f == F(pos)
             h == F(next)
             S == E(pos) \ {x}
  <2>1. E(next) \ {x} = S
    OBVIOUS
  <2>2. \A s \in S : f[s] \in Int /\ f[s] = h[s]
    OBVIOUS
  <2>3. IsFiniteSet(S)
    BY <1>1
  <2> HIDE DEF f, h, S
  <2>4. SumFunctionOnSet(f, S) = SumFunctionOnSet(h, S)
    BY <2>2, <2>3, SumSame
  <2> QED  BY <2>1, <2>4 DEF f, h, S
<1>3. /\ NotionalOf(pos, none) \in Int /\ Part(pos[x], none) \in Int
      /\ SumFunctionOnSet(F(pos), E(pos) \ {x}) \in Int
      /\ NotionalOf(pos, none) = Part(pos[x], none) + SumFunctionOnSet(F(pos), E(pos) \ {x})
  BY <1>1
<1>4. /\ NotionalOf(next, none) \in Int /\ Part(next[x], none) \in Int
      /\ NotionalOf(next, none) = Part(next[x], none) + SumFunctionOnSet(F(next), E(next) \ {x})
  BY <1>1
<1> HIDE DEF F, E
<1> QED  BY <1>2, <1>3, <1>4

LEMMA CountChanges ==
  ASSUME NEW pos, NEW next, NEW none, NEW x \in Symbols, \A s \in Symbols : s # x => next[s] = pos[s]
  PROVE  /\ CountOf(pos, none) \in Nat /\ CountOf(next, none) \in Nat
         /\ CountOf(next, none) - One(next[x], none) = CountOf(pos, none) - One(pos[x], none)
<1> DEFINE E(q) == {s \in Symbols : q[s] # none}
<1>1. ASSUME NEW q
      PROVE  /\ CountOf(q, none) \in Nat /\ Cardinality(E(q) \ {x}) \in Nat
             /\ CountOf(q, none) = Cardinality(E(q) \ {x}) + One(q[x], none)
  <2> DEFINE S == E(q)
  <2>1. S \subseteq Symbols /\ (x \in S <=> q[x] # none) /\ CountOf(q, none) = Cardinality(S)
    BY DEF CountOf
  <2> HIDE DEF S
  <2>2. IsFiniteSet(S)
    BY <2>1, CryptoNumbers, FS_Subset
  <2>3. IsFiniteSet(S \ {x}) /\ Cardinality(S \ {x}) = IF x \in S THEN Cardinality(S) - 1 ELSE Cardinality(S)
    BY <2>2, FS_RemoveElement
  <2>4. Cardinality(S) \in Nat /\ Cardinality(S \ {x}) \in Nat
    BY <2>2, <2>3, FS_CardinalityType
  <2>5. Cardinality(S) = Cardinality(S \ {x}) + One(q[x], none)
    BY <2>1, <2>3, <2>4 DEF One
  <2>6. CountOf(q, none) = Cardinality(S \ {x}) + One(q[x], none) /\ CountOf(q, none) \in Nat
    BY <2>1, <2>4, <2>5
  <2> QED  BY <2>4, <2>6 DEF S
<1>2. E(next) \ {x} = E(pos) \ {x}
  OBVIOUS
<1>3. /\ CountOf(pos, none) \in Nat /\ Cardinality(E(pos) \ {x}) \in Nat
      /\ CountOf(pos, none) = Cardinality(E(pos) \ {x}) + One(pos[x], none)
  BY <1>1
<1>4. CountOf(next, none) \in Nat /\ CountOf(next, none) = Cardinality(E(next) \ {x}) + One(next[x], none)
  BY <1>1
<1>5. One(pos[x], none) \in Nat /\ One(next[x], none) \in Nat
  BY DEF One
<1>6. Cardinality(E(next) \ {x}) = Cardinality(E(pos) \ {x})
  BY <1>2
<1> HIDE DEF E
<1>7. PICK c \in Nat : c = Cardinality(E(pos) \ {x}) /\ c = Cardinality(E(next) \ {x})
  BY <1>3, <1>6
<1>8. CountOf(pos, none) = c + One(pos[x], none) /\ CountOf(next, none) = c + One(next[x], none)
  BY <1>3, <1>4, <1>7
<1> QED  BY <1>3, <1>4, <1>5, <1>8

LEMMA TakingChanges ==
  ASSUME NEW pos, NEW next, NEW x \in Symbols,
         \A s \in Symbols : pos[s].notional \in Int /\ next[s].notional \in Int,
         \A s \in Symbols : s # x => next[s] = pos[s]
  PROVE  /\ Taking(pos) \in Int /\ Taking(next) \in Int /\ PartOf(pos[x]) \in Int /\ PartOf(next[x]) \in Int
         /\ Taking(next) - PartOf(next[x]) = Taking(pos) - PartOf(pos[x])
BY NotionalChanges DEF Taking, PartOf

LEMMA NothingTaken ==
  ASSUME NEW pos, \A s \in Symbols : pos[s] = NoPosition
  PROVE  Taking(pos) = 0
<1>1. {s \in Symbols : pos[s] # NoPosition} = {}
  OBVIOUS
<1> QED  BY <1>1, SumOfNone DEF Taking, NotionalOf

LEMMA SmallestOfTwo ==
  ASSUME NEW a \in Int, NEW b \in Int
  PROVE  Min({a, b}) \in Int
<1>1. \E x \in {a, b} : \A y \in {a, b} : x <= y
  OBVIOUS
<1> QED  BY <1>1 DEF Min

LEMMA SmallestOfFour ==
  ASSUME NEW a \in Int, NEW b \in Int, NEW c \in Int, NEW d \in Int
  PROVE  Min({a, b, c, d}) \in Int
<1>1. PICK x \in {a, b} : x <= a /\ x <= b
  OBVIOUS
<1>2. PICK y \in {c, d} : y <= c /\ y <= d
  OBVIOUS
<1>3. \E z \in {a, b, c, d} : \A u \in {a, b, c, d} : z <= u
  <2>1. x \in {a, b, c, d} /\ y \in {a, b, c, d} /\ x \in Int /\ y \in Int
    OBVIOUS
  <2>2. CASE x <= y
    BY <1>1, <1>2, <2>1, <2>2
  <2>3. CASE ~(x <= y)
    BY <1>1, <1>2, <2>1, <2>3
  <2> QED  BY <2>2, <2>3
<1> QED  BY <1>3 DEF Min

LEMMA ExposureIsInt ==
  ASSUME CapitalShapes, NEW P, NEW W, P \subseteq Symbols, W \subseteq Symbols
  PROVE  Exposure(P, W) \in Int
<1> DEFINE f == [s \in Symbols |-> position[s].notional]
           h == [s \in Symbols |-> order[s].notional]
<1>1. IsFiniteSet(P) /\ IsFiniteSet(W)
  BY CryptoNumbers, FS_Subset
<1>2. (\A s \in P : f[s] \in Int) /\ (\A s \in W : h[s] \in Int)
  BY DEF CapitalShapes
<1>3. Exposure(P, W) = SumFunctionOnSet(f, P) + SumFunctionOnSet(h, W)
  BY DEF Exposure
<1> HIDE DEF f, h
<1>4. SumFunctionOnSet(f, P) \in Int /\ SumFunctionOnSet(h, W) \in Int
  BY <1>1, <1>2, SumSame
<1> QED  BY <1>3, <1>4

LEMMA RoomsAreInt ==
  ASSUME CapitalShapes, NEW route
  PROVE  /\ Gross \in Int /\ Room(GrossCap, Gross) \in Int
         /\ Room(StrategyCap, InStrategy(route.strategy)) \in Int
         /\ Room(RegimeCap, InRegime(route.regime)) \in Int
<1>1. Entered \subseteq Symbols /\ Waiting \subseteq Symbols
  BY DEF Entered, Waiting
<1>2. Gross \in Int /\ InStrategy(route.strategy) \in Int /\ InRegime(route.regime) \in Int
  <2>1. Gross \in Int
    BY <1>1, ExposureIsInt DEF Gross
  <2>2. InStrategy(route.strategy) \in Int
    <3>1. {s \in Entered : position[s].strategy = route.strategy} \subseteq Symbols
          /\ {s \in Waiting : order[s].strategy = route.strategy} \subseteq Symbols
      BY <1>1
    <3> QED  BY <3>1, ExposureIsInt DEF InStrategy
  <2>3. InRegime(route.regime) \in Int
    <3>1. {s \in Entered : position[s].regime = route.regime} \subseteq Symbols
          /\ {s \in Waiting : order[s].regime = route.regime} \subseteq Symbols
      BY <1>1
    <3> QED  BY <3>1, ExposureIsInt DEF InRegime
  <2> QED  BY <2>1, <2>2, <2>3
<1>3. \A cap, used \in Int : Room(cap, used) \in Int
  BY DEF Room
<1>4. GrossCap \in Int /\ StrategyCap \in Int /\ RegimeCap \in Int
  BY CryptoNumbers
<1>5. /\ Room(GrossCap, Gross) \in Int /\ Room(StrategyCap, InStrategy(route.strategy)) \in Int
      /\ Room(RegimeCap, InRegime(route.regime)) \in Int
  BY <1>2, <1>3, <1>4
<1> QED
  BY <1>2, <1>5

LEMMA ApprovedIsInt ==
  ASSUME CapitalShapes, NEW ask \in Int, NEW route
  PROVE  Approved(ask, route) \in Int
<1>5. /\ Room(GrossCap, Gross) \in Int /\ Room(StrategyCap, InStrategy(route.strategy)) \in Int
      /\ Room(RegimeCap, InRegime(route.regime)) \in Int
  BY RoomsAreInt
<1> DEFINE m == Min({ask, Room(GrossCap, Gross), Room(StrategyCap, InStrategy(route.strategy)),
                     Room(RegimeCap, InRegime(route.regime))})
<1>6. m \in Int
  BY <1>5, SmallestOfFour
<1>7. Approved(ask, route) \in {0, m}
  BY DEF Approved
<1> HIDE DEF m
<1> QED  BY <1>6, <1>7

LEMMA CapitalInvInit == CryptoInit => CapitalInv
<1> SUFFICES ASSUME CryptoInit PROVE CapitalInv
  OBVIOUS
<1>1. \A s \in Symbols : position[s] = NoPosition /\ order[s] = NoOrder /\ bar[s] = NoBar
  BY DEF CryptoInit
<1>2. CapitalShapes
  BY CryptoNumbers DEF CryptoInit, CapitalShapes, NoPosition, NoOrder, NoBar
<1>3. OneOfBoth
  BY <1>1 DEF OneOfBoth, CryptoInit, Pending, Holding
<1>4. Taking(position) = 0
  BY <1>1, NothingTaken
<1> QED
  BY <1>2, <1>3, <1>4, CryptoNumbers DEF CapitalInv, CryptoInit

LEMMA CapitalInvStep == CapitalInv /\ [CryptoNext]_cryptoVars => CapitalInv'
<1> SUFFICES ASSUME CapitalInv, [CryptoNext]_cryptoVars PROVE CapitalInv'
  OBVIOUS
<1>a. /\ cash \in Int /\ realized \in Int
      /\ position = [s \in Symbols |-> position[s]]
      /\ \A s \in Symbols :
           /\ position[s] = [entry |-> position[s].entry, notional |-> position[s].notional,
                             strategy |-> position[s].strategy, regime |-> position[s].regime,
                             held |-> position[s].held]
           /\ position[s].notional \in Int /\ position[s].held \in Nat
      /\ order = [s \in Symbols |-> order[s]] /\ \A s \in Symbols : order[s].notional \in Int
      /\ bar = [s \in Symbols |-> bar[s]] /\ \A s \in Symbols : bar[s].ask \in Int
      /\ engine = [at |-> engine.at, plan |-> engine.plan, btc |-> engine.btc, symbol |-> engine.symbol,
                   size |-> engine.size]
      /\ engine.symbol \in Symbols /\ engine.size \in Int
  BY DEF CapitalInv, CapitalShapes
<1>o. /\ \A s \in Symbols : order[s] # NoOrder => position[s] = NoPosition
      /\ engine.at = "order" => position[engine.symbol] = NoPosition
      /\ engine.at = "time" => position[engine.symbol] # NoPosition
  BY DEF CapitalInv, OneOfBoth, Pending, Holding
<1>c. cash + Taking(position) = InitialEquity + realized /\ InitialEquity \in Int
  BY CryptoNumbers DEF CapitalInv
<1>n. NoPosition.notional = 0 /\ NoPosition.held = 0 /\ NoPosition.notional \in Int /\ NoPosition.held \in Nat
  BY DEF NoPosition
(* the account, untouched *)
<1>q. ASSUME UNCHANGED <<cash, realized, position>>
      PROVE  cash' + Taking(position') = InitialEquity + realized'
  BY <1>c, <1>q
(* the engine, with one field or more replaced *)
<1>e. ASSUME NEW at, NEW plan, NEW btc, NEW symbol, NEW size,
             engine' = [at |-> at, plan |-> plan, btc |-> btc, symbol |-> symbol, size |-> size],
             symbol \in Symbols, size \in Int
      PROVE  /\ engine' = [at |-> engine'.at, plan |-> engine'.plan, btc |-> engine'.btc,
                           symbol |-> engine'.symbol, size |-> engine'.size]
             /\ engine'.symbol \in Symbols /\ engine'.size \in Int
             /\ engine'.at = at /\ engine'.symbol = symbol
  BY <1>e
<1>m. ASSUME NEW at, engine' = [engine EXCEPT !.at = at]
      PROVE  /\ engine' = [at |-> engine'.at, plan |-> engine'.plan, btc |-> engine'.btc,
                           symbol |-> engine'.symbol, size |-> engine'.size]
             /\ engine'.symbol \in Symbols /\ engine'.size \in Int
             /\ engine'.at = at /\ engine'.symbol = engine.symbol
  <2>1. engine' = [at |-> at, plan |-> engine.plan, btc |-> engine.btc, symbol |-> engine.symbol,
                   size |-> engine.size]
    BY <1>a, <1>m
  <2> QED  BY <1>a, <1>e, <2>1
<1>x. ASSUME NEW plan, engine' = NextEvent(plan)
      PROVE  /\ engine' = [at |-> engine'.at, plan |-> engine'.plan, btc |-> engine'.btc,
                           symbol |-> engine'.symbol, size |-> engine'.size]
             /\ engine'.symbol \in Symbols /\ engine'.size \in Int /\ engine'.at \in {"idle", "next"}
  <2>1. CASE plan = {}
    <3>1. engine' = [at |-> "idle", plan |-> {}, btc |-> 0, symbol |-> engine.symbol, size |-> 0]
      BY <1>a, <1>x, <2>1 DEF NextEvent
    <3>2. 0 \in Int
      OBVIOUS
    <3> QED  BY <1>a, <1>e, <3>1, <3>2
  <2>2. CASE plan # {}
    <3>1. engine' = [at |-> "next", plan |-> engine.plan, btc |-> engine.btc, symbol |-> engine.symbol, size |-> 0]
      BY <1>a, <1>x, <2>2 DEF NextEvent
    <3>2. 0 \in Int
      OBVIOUS
    <3> QED  BY <1>a, <1>e, <3>1, <3>2
  <2> QED  BY <2>1, <2>2
(* a position is replaced *)
<1>p. ASSUME NEW s \in Symbols, NEW p, position' = [position EXCEPT ![s] = p],
             p = [entry |-> p.entry, notional |-> p.notional, strategy |-> p.strategy, regime |-> p.regime,
                  held |-> p.held],
             p.notional \in Int, p.held \in Nat
      PROVE  /\ position' = [z \in Symbols |-> position'[z]]
             /\ position'[s] = p /\ \A z \in Symbols : z # s => position'[z] = position[z]
             /\ \A z \in Symbols :
                  /\ position'[z] = [entry |-> position'[z].entry, notional |-> position'[z].notional,
                                     strategy |-> position'[z].strategy, regime |-> position'[z].regime,
                                     held |-> position'[z].held]
                  /\ position'[z].notional \in Int /\ position'[z].held \in Nat
             /\ Taking(position') - PartOf(p) = Taking(position) - PartOf(position[s])
             /\ Taking(position') \in Int /\ Taking(position) \in Int /\ PartOf(p) \in Int
             /\ PartOf(position[s]) \in Int
  <2>1. /\ position' = [z \in Symbols |-> position'[z]] /\ position'[s] = p
        /\ \A z \in Symbols : z # s => position'[z] = position[z]
    BY <1>a, <1>p
  <2>2. \A z \in Symbols :
          /\ position'[z] = [entry |-> position'[z].entry, notional |-> position'[z].notional,
                             strategy |-> position'[z].strategy, regime |-> position'[z].regime,
                             held |-> position'[z].held]
          /\ position'[z].notional \in Int /\ position'[z].held \in Nat
    <3> SUFFICES ASSUME NEW z \in Symbols
                 PROVE  /\ position'[z] = [entry |-> position'[z].entry, notional |-> position'[z].notional,
                                           strategy |-> position'[z].strategy, regime |-> position'[z].regime,
                                           held |-> position'[z].held]
                        /\ position'[z].notional \in Int /\ position'[z].held \in Nat
      OBVIOUS
    <3>1. CASE z = s
      BY <1>p, <2>1, <3>1
    <3>2. CASE z # s
      BY <1>a, <2>1, <3>2
    <3> QED  BY <3>1, <3>2
  <2>3. PICK next : next = position'
    OBVIOUS
  <2>4. \A z \in Symbols : position[z].notional \in Int /\ next[z].notional \in Int
    BY <1>a, <2>2, <2>3
  <2>5. \A z \in Symbols : z # s => next[z] = position[z]
    BY <2>1, <2>3
  <2>6. /\ Taking(position) \in Int /\ Taking(next) \in Int /\ PartOf(position[s]) \in Int
        /\ PartOf(next[s]) \in Int
        /\ Taking(next) - PartOf(next[s]) = Taking(position) - PartOf(position[s])
    BY <2>4, <2>5, TakingChanges
  <2> QED  BY <2>1, <2>2, <2>3, <2>6
(* a close: the notional comes back with the result *)
<1>l. ASSUME NEW result \in Int, Close(engine.symbol, result), position[engine.symbol] # NoPosition,
             engine' = [engine EXCEPT !.at = "decide"], UNCHANGED <<order, bar>>
      PROVE  CapitalInv'
  <2> DEFINE s == engine.symbol
  <2>s. s \in Symbols
    BY <1>a
  <2>1. /\ cash' = cash + position[s].notional + result /\ realized' = realized + result
        /\ position' = [position EXCEPT ![s] = NoPosition]
    BY <1>l DEF Close
  <2>2. NoPosition = [entry |-> NoPosition.entry, notional |-> NoPosition.notional,
                      strategy |-> NoPosition.strategy, regime |-> NoPosition.regime, held |-> NoPosition.held]
    BY DEF NoPosition
  <2>3. /\ position' = [z \in Symbols |-> position'[z]]
        /\ position'[s] = NoPosition /\ \A z \in Symbols : z # s => position'[z] = position[z]
        /\ \A z \in Symbols :
             /\ position'[z] = [entry |-> position'[z].entry, notional |-> position'[z].notional,
                                strategy |-> position'[z].strategy, regime |-> position'[z].regime,
                                held |-> position'[z].held]
             /\ position'[z].notional \in Int /\ position'[z].held \in Nat
        /\ Taking(position') - PartOf(NoPosition) = Taking(position) - PartOf(position[s])
        /\ Taking(position') \in Int /\ Taking(position) \in Int
    BY <1>n, <1>p, <2>s, <2>1, <2>2
  <2>4. PartOf(NoPosition) = 0 /\ PartOf(position[s]) = position[s].notional
    BY <1>l DEF PartOf, Part
  <2>5. cash' + Taking(position') = InitialEquity + realized'
    <3>1. position[s].notional \in Int /\ cash \in Int /\ realized \in Int
      BY <1>a, <2>s
    <3>2. Taking(position') = Taking(position) - position[s].notional
          /\ Taking(position') \in Int /\ Taking(position) \in Int
      <4>1. /\ Taking(position') - PartOf(NoPosition) = Taking(position) - PartOf(position[s])
            /\ Taking(position') \in Int /\ Taking(position) \in Int
        BY <2>3
      <4> QED  BY <2>4, <3>1, <4>1
    <3>3. cash' = cash + position[s].notional + result /\ realized' = realized + result
      BY <2>1
    <3>4. PICK n, t \in Int : n = position[s].notional /\ t = Taking(position)
      BY <3>1, <3>2
    <3>5. cash' = cash + n + result /\ Taking(position') = t - n /\ cash + t = InitialEquity + realized
      BY <1>c, <3>2, <3>3, <3>4
    <3> QED  BY <1>c, <1>l, <3>1, <3>3, <3>5
  <2>6. /\ engine' = [at |-> engine'.at, plan |-> engine'.plan, btc |-> engine'.btc,
                      symbol |-> engine'.symbol, size |-> engine'.size]
        /\ engine'.symbol \in Symbols /\ engine'.size \in Int /\ engine'.at = "decide"
    BY <1>l, <1>m
  <2>7. cash' \in Int /\ realized' \in Int
    BY <1>a, <1>l, <2>s, <2>1
  <2>8. CapitalShapes'
    BY <1>a, <1>l, <2>3, <2>6, <2>7 DEF CapitalShapes
  <2>9. OneOfBoth'
    BY <1>l, <1>o, <2>3, <2>6 DEF OneOfBoth, Pending, Holding
  <2> QED  BY <2>5, <2>8, <2>9 DEF CapitalInv
(* nothing but the engine, which goes neither to an order nor to the end of a holding time *)
<1>w. ASSUME UNCHANGED <<cash, realized, position, order, bar>>,
             engine' = [at |-> engine'.at, plan |-> engine'.plan, btc |-> engine'.btc,
                        symbol |-> engine'.symbol, size |-> engine'.size],
             engine'.symbol \in Symbols, engine'.size \in Int, engine'.at \notin {"order", "time"}
      PROVE  CapitalInv'
  <2>1. CapitalShapes'
    BY <1>a, <1>w DEF CapitalShapes
  <2>2. OneOfBoth'
    BY <1>o, <1>w DEF OneOfBoth, Pending, Holding
  <2> QED  BY <1>q, <1>w, <2>1, <2>2 DEF CapitalInv
<1>1. ASSUME NEW s \in Symbols, BarCloses(s) PROVE CapitalInv'
  <2>1. UNCHANGED <<cash, realized, position, order, bar, engine>>
    BY <1>1 DEF BarCloses
  <2>2. CapitalShapes' /\ OneOfBoth'
    BY <1>a, <1>o, <2>1 DEF CapitalShapes, OneOfBoth, Pending, Holding
  <2> QED  BY <1>q, <2>1, <2>2 DEF CapitalInv
<1>2. CASE StartCycle
  <2>1. PICK plan, btc : engine' = [engine EXCEPT !.at = "next", !.plan = plan, !.btc = btc]
    BY <1>2 DEF StartCycle
  <2>2. engine' = [at |-> "next", plan |-> plan, btc |-> btc, symbol |-> engine.symbol, size |-> engine.size]
    BY <1>a, <2>1
  <2> QED  BY <1>2, <1>a, <1>e, <1>w, <2>2 DEF StartCycle
<1>3. ASSUME NEW s \in Symbols, NEW exit \in {"none", "price"}, NEW r \in Routes, NEW a \in Asks,
             BeginBar(s, exit, r, a)
      PROVE  CapitalInv'
  <2>1. PICK b, late, plan :
          /\ bar' = [bar EXCEPT ![s] = [bar |-> b, exit |-> exit, late |-> late, route |-> r, ask |-> a]]
          /\ engine' = [engine EXCEPT !.at = "fill", !.symbol = s, !.plan = plan]
    BY <1>3 DEF BeginBar
  <2>2. engine' = [at |-> "fill", plan |-> plan, btc |-> engine.btc, symbol |-> s, size |-> engine.size]
    BY <1>a, <2>1
  <2>3. /\ engine' = [at |-> engine'.at, plan |-> engine'.plan, btc |-> engine'.btc,
                      symbol |-> engine'.symbol, size |-> engine'.size]
        /\ engine'.symbol \in Symbols /\ engine'.size \in Int /\ engine'.at = "fill"
    BY <1>a, <1>e, <2>2
  <2>4. bar' = [z \in Symbols |-> bar'[z]] /\ \A z \in Symbols : bar'[z].ask \in Int
    <3>1. a \in Int
      BY CryptoNumbers
    <3> QED  BY <1>a, <2>1, <3>1
  <2>5. UNCHANGED <<cash, realized, position, order>>
    BY <1>3 DEF BeginBar
  <2>6. CapitalShapes'
    BY <1>a, <2>3, <2>4, <2>5 DEF CapitalShapes
  <2>7. OneOfBoth'
    BY <1>o, <2>3, <2>5 DEF OneOfBoth, Pending, Holding
  <2> QED  BY <1>q, <2>5, <2>6, <2>7 DEF CapitalInv
<1>4. ASSUME NEW r \in Routes, FillPending(r) PROVE CapitalInv'
  <2> DEFINE s == engine.symbol
             paid == Min({order[s].notional, cash})
  <2>s. s \in Symbols
    BY <1>a
  <2>1. engine' = [engine EXCEPT !.at = "manage"] /\ UNCHANGED <<realized, bar>>
    BY <1>4 DEF FillPending
  <2>2. /\ engine' = [at |-> engine'.at, plan |-> engine'.plan, btc |-> engine'.btc,
                      symbol |-> engine'.symbol, size |-> engine'.size]
        /\ engine'.symbol \in Symbols /\ engine'.size \in Int /\ engine'.at = "manage"
    BY <1>m, <2>1
  <2>3. paid \in Int
    BY <1>a, <2>s, SmallestOfTwo
  <2>n. NoOrder.notional \in Int
    BY DEF NoOrder
  <2>4. CASE UNCHANGED <<cash, order, position>>
    BY <1>w, <2>1, <2>2, <2>4
  <2>5. CASE order' = [order EXCEPT ![s] = NoOrder] /\ UNCHANGED <<cash, position>>
    <3>1. /\ order' = [z \in Symbols |-> order'[z]] /\ \A z \in Symbols : order'[z].notional \in Int
          /\ \A z \in Symbols : order'[z] = NoOrder \/ order'[z] = order[z]
      BY <1>a, <2>n, <2>5
    <3>2. CapitalShapes'
      BY <1>a, <2>1, <2>2, <2>5, <3>1 DEF CapitalShapes
    <3>3. OneOfBoth'
      BY <1>o, <2>2, <2>5, <3>1 DEF OneOfBoth, Pending, Holding
    <3> QED  BY <1>q, <2>1, <2>5, <3>2, <3>3 DEF CapitalInv
  <2>6. CASE /\ Pending(s) /\ ~(paid <= 0) /\ cash' = cash - paid /\ order' = [order EXCEPT ![s] = NoOrder]
             /\ position' = [position EXCEPT ![s] =
                  [entry |-> bar[s].bar, notional |-> paid, strategy |-> r.strategy, regime |-> r.regime,
                   held |-> 0]]
    <3>1. PICK p : p = [entry |-> bar[s].bar, notional |-> paid, strategy |-> r.strategy,
                        regime |-> r.regime, held |-> 0]
      OBVIOUS
    <3> HIDE DEF paid
    <3>2. /\ p = [entry |-> p.entry, notional |-> p.notional, strategy |-> p.strategy, regime |-> p.regime,
                  held |-> p.held]
          /\ p.notional = paid /\ p.notional \in Int /\ p.held \in Nat
      BY <2>3, <3>1
    <3>3. position' = [position EXCEPT ![s] = p]
      BY <2>6, <3>1 DEF paid
    <3>4. /\ position' = [z \in Symbols |-> position'[z]]
          /\ position'[s] = p /\ \A z \in Symbols : z # s => position'[z] = position[z]
          /\ \A z \in Symbols :
               /\ position'[z] = [entry |-> position'[z].entry, notional |-> position'[z].notional,
                                  strategy |-> position'[z].strategy, regime |-> position'[z].regime,
                                  held |-> position'[z].held]
               /\ position'[z].notional \in Int /\ position'[z].held \in Nat
          /\ Taking(position') - PartOf(p) = Taking(position) - PartOf(position[s])
          /\ Taking(position') \in Int /\ Taking(position) \in Int
      BY <1>p, <2>s, <3>2, <3>3
    <3>5. PartOf(position[s]) = 0 /\ PartOf(p) = paid
      <4>1. position[s] = NoPosition
        BY <1>o, <2>s, <2>6 DEF Pending
      <4>2. p # NoPosition
        BY <1>n, <2>3, <2>6, <3>2
      <4> QED  BY <3>2, <4>1, <4>2 DEF PartOf, Part
    <3>6. cash' = cash - paid
      BY <2>6
    <3>7. cash' + Taking(position') = InitialEquity + realized' /\ cash' \in Int
      BY <1>a, <1>c, <2>1, <2>3, <3>4, <3>5, <3>6
    <3>8. /\ order' = [z \in Symbols |-> order'[z]] /\ \A z \in Symbols : order'[z].notional \in Int
          /\ order'[s] = NoOrder /\ \A z \in Symbols : z # s => order'[z] = order[z]
      BY <1>a, <2>n, <2>s, <2>6
    <3>9. CapitalShapes'
      BY <1>a, <2>1, <2>2, <3>4, <3>7, <3>8 DEF CapitalShapes
    <3>10. OneOfBoth'
      BY <1>o, <2>2, <3>4, <3>8 DEF OneOfBoth, Pending, Holding
    <3> QED  BY <3>7, <3>9, <3>10 DEF CapitalInv
  <2> QED
    BY <1>4, <2>4, <2>5, <2>6 DEF FillPending
<1>5. ASSUME NEW x \in Results, ExitAtPrice(x) PROVE CapitalInv'
  <2>1. x \in Int
    BY CryptoNumbers
  <2> QED  BY <1>5, <1>l, <2>1 DEF ExitAtPrice, Holding
<1>6. CASE CountBar
  <2> DEFINE s == engine.symbol
  <2>s. s \in Symbols
    BY <1>a
  <2>1. PICK at : /\ position' = [position EXCEPT ![s].held = @ + 1] /\ position[s] # NoPosition
                  /\ engine' = [engine EXCEPT !.at = at] /\ at \in {"time", "decide"}
                  /\ UNCHANGED <<cash, realized, order, bar>>
    BY <1>6 DEF CountBar, Holding
  <2>2. PICK p : p = [position[s] EXCEPT !.held = @ + 1]
    OBVIOUS
  <2>3. /\ p = [entry |-> position[s].entry, notional |-> position[s].notional,
                strategy |-> position[s].strategy, regime |-> position[s].regime, held |-> position[s].held + 1]
    BY <1>a, <2>s, <2>2
  <2>4. /\ p = [entry |-> p.entry, notional |-> p.notional, strategy |-> p.strategy, regime |-> p.regime,
                held |-> p.held]
        /\ p.notional = position[s].notional /\ p.notional \in Int /\ p.held \in Nat /\ p.held # 0
    BY <1>a, <2>s, <2>3
  <2>5. position' = [position EXCEPT ![s] = p]
    BY <1>a, <2>s, <2>1, <2>2
  <2>6. /\ position' = [z \in Symbols |-> position'[z]]
        /\ position'[s] = p /\ \A z \in Symbols : z # s => position'[z] = position[z]
        /\ \A z \in Symbols :
             /\ position'[z] = [entry |-> position'[z].entry, notional |-> position'[z].notional,
                                strategy |-> position'[z].strategy, regime |-> position'[z].regime,
                                held |-> position'[z].held]
             /\ position'[z].notional \in Int /\ position'[z].held \in Nat
        /\ Taking(position') - PartOf(p) = Taking(position) - PartOf(position[s])
        /\ Taking(position') \in Int /\ Taking(position) \in Int
    BY <1>p, <2>s, <2>4, <2>5
  <2>7. p # NoPosition /\ PartOf(p) = p.notional /\ PartOf(position[s]) = p.notional
    <3>1. p # NoPosition
      BY <1>n, <2>4
    <3> QED  BY <2>1, <2>4, <3>1 DEF PartOf, Part
  <2>8. cash' + Taking(position') = InitialEquity + realized'
    <3>1. /\ Taking(position') - PartOf(p) = Taking(position) - PartOf(position[s])
          /\ Taking(position') \in Int /\ Taking(position) \in Int
      BY <2>6
    <3>2. Taking(position') = Taking(position)
      BY <2>4, <2>7, <3>1
    <3>3. cash' = cash /\ realized' = realized
      BY <2>1
    <3> QED  BY <1>c, <3>2, <3>3
  <2>9. /\ engine' = [at |-> engine'.at, plan |-> engine'.plan, btc |-> engine'.btc,
                      symbol |-> engine'.symbol, size |-> engine'.size]
        /\ engine'.symbol \in Symbols /\ engine'.size \in Int /\ engine'.at = at
        /\ engine'.symbol = engine.symbol
    BY <1>m, <2>1
  <2>10. CapitalShapes'
    BY <1>a, <2>1, <2>6, <2>9 DEF CapitalShapes
  <2>11. OneOfBoth'
    <3>1. \A z \in Symbols : order'[z] # NoOrder => position'[z] = NoPosition
      BY <1>o, <2>s, <2>1, <2>6
    <3>2. position'[engine'.symbol] # NoPosition /\ engine'.at # "order"
      BY <2>1, <2>6, <2>7, <2>9
    <3> QED  BY <3>1, <3>2 DEF OneOfBoth, Pending, Holding
  <2> QED  BY <2>8, <2>10, <2>11 DEF CapitalInv
<1>7. ASSUME NEW x \in Results, ExitInTime(x) PROVE CapitalInv'
  <2>1. x \in Int
    BY CryptoNumbers
  <2> QED  BY <1>7, <1>l, <1>o, <2>1 DEF ExitInTime
<1>8. CASE NothingHeld
  BY <1>8, <1>m, <1>w DEF NothingHeld
<1>9. CASE Decide
  <2> DEFINE s == engine.symbol
             route == bar[s].route
             ask == Min({cash, bar[s].ask})
             size == IF Holding(s) \/ Pending(s) \/ route.action # "ENTER" THEN 0 ELSE Approved(ask, route)
  <2>1. /\ engine' = [engine EXCEPT !.at = IF size > 0 THEN "order" ELSE "cursor", !.size = size]
        /\ UNCHANGED <<cash, realized, order, position, bar>>
    BY <1>9 DEF Decide
  <2>2. size \in Int
    <3>1. ask \in Int
      BY <1>a, SmallestOfTwo
    <3>2. Approved(ask, route) \in Int
      BY <3>1, ApprovedIsInt DEF CapitalInv
    <3> HIDE DEF ask, route
    <3> QED  BY <3>2
  <2>3. size > 0 => ~Holding(s)
    OBVIOUS
  <2> HIDE DEF size
  <2>4. PICK at : at = IF size > 0 THEN "order" ELSE "cursor"
    OBVIOUS
  <2>5. engine' = [at |-> at, plan |-> engine.plan, btc |-> engine.btc, symbol |-> s, size |-> size]
    BY <1>a, <2>1, <2>4
  <2>6. /\ engine' = [at |-> engine'.at, plan |-> engine'.plan, btc |-> engine'.btc,
                      symbol |-> engine'.symbol, size |-> engine'.size]
        /\ engine'.symbol \in Symbols /\ engine'.size \in Int /\ engine'.at = at /\ engine'.symbol = s
    BY <1>a, <1>e, <2>2, <2>5
  <2>7. CapitalShapes'
    BY <1>a, <2>1, <2>6 DEF CapitalShapes
  <2>8. OneOfBoth'
    BY <1>o, <2>1, <2>3, <2>4, <2>6 DEF OneOfBoth, Pending, Holding
  <2> QED  BY <1>q, <2>1, <2>7, <2>8 DEF CapitalInv
<1>10. CASE AddBuyOrder
  <2> DEFINE s == engine.symbol
  <2>s. s \in Symbols
    BY <1>a
  <2>o. PICK o : o = [bar |-> bar[s].bar, notional |-> engine.size, strategy |-> decision[s].strategy,
                      regime |-> decision[s].regime, late |-> bar[s].late, route |-> bar[s].route]
    OBVIOUS
  <2>1. /\ order' = [order EXCEPT ![s] = o] /\ o.notional = engine.size
        /\ engine.at = "order" /\ engine' = [engine EXCEPT !.at = "cursor"]
        /\ UNCHANGED <<cash, realized, position, bar>>
    BY <1>10, <2>o DEF AddBuyOrder
  <2>2. /\ engine' = [at |-> engine'.at, plan |-> engine'.plan, btc |-> engine'.btc,
                      symbol |-> engine'.symbol, size |-> engine'.size]
        /\ engine'.symbol \in Symbols /\ engine'.size \in Int /\ engine'.at = "cursor"
    BY <1>m, <2>1
  <2>3. /\ order' = [z \in Symbols |-> order'[z]] /\ \A z \in Symbols : order'[z].notional \in Int
        /\ \A z \in Symbols : z # s => order'[z] = order[z]
    BY <1>a, <2>s, <2>1
  <2>4. CapitalShapes'
    BY <1>a, <2>1, <2>2, <2>3 DEF CapitalShapes
  <2>5. OneOfBoth'
    BY <1>o, <2>1, <2>2, <2>3 DEF OneOfBoth, Pending, Holding
  <2> QED  BY <1>q, <2>1, <2>4, <2>5 DEF CapitalInv
<1>11. CASE SetLastProcessed
  <2>1. /\ bar' = [bar EXCEPT ![engine.symbol] = NoBar] /\ engine' = NextEvent(engine.plan)
        /\ UNCHANGED <<cash, realized, order, position>>
    BY <1>11 DEF SetLastProcessed
  <2>2. /\ engine' = [at |-> engine'.at, plan |-> engine'.plan, btc |-> engine'.btc,
                      symbol |-> engine'.symbol, size |-> engine'.size]
        /\ engine'.symbol \in Symbols /\ engine'.size \in Int /\ engine'.at \in {"idle", "next"}
    BY <1>x, <2>1
  <2>3. bar' = [z \in Symbols |-> bar'[z]] /\ \A z \in Symbols : bar'[z].ask \in Int
    <3>1. NoBar.ask \in Int
      BY DEF NoBar
    <3> QED  BY <1>a, <2>1, <3>1
  <2>4. CapitalShapes'
    BY <1>a, <2>1, <2>2, <2>3 DEF CapitalShapes
  <2>5. OneOfBoth'
    BY <1>o, <2>1, <2>2 DEF OneOfBoth, Pending, Holding
  <2> QED  BY <1>q, <2>1, <2>4, <2>5 DEF CapitalInv
<1>12. CASE BarFails
  <2>1. engine' = NextEvent(engine.plan) /\ UNCHANGED <<cash, realized, order, position, bar>>
    BY <1>12 DEF BarFails
  <2> QED  BY <1>w, <1>x, <2>1
<1>13. CASE EngineCut
  <2>1. engine' = NextEvent({}) /\ UNCHANGED <<cash, realized, order, position, bar>>
    BY <1>13 DEF EngineCut
  <2> QED  BY <1>w, <1>x, <2>1
<1>14. CASE UNCHANGED cryptoVars
  <2>1. UNCHANGED <<cash, realized, position, order, bar, engine>>
    BY <1>14 DEF cryptoVars
  <2>2. CapitalShapes' /\ OneOfBoth'
    BY <1>a, <1>o, <2>1 DEF CapitalShapes, OneOfBoth, Pending, Holding
  <2> QED  BY <1>q, <2>1, <2>2 DEF CapitalInv
<1> QED
  BY <1>1, <1>2, <1>3, <1>4, <1>5, <1>6, <1>7, <1>8, <1>9, <1>10, <1>11, <1>12, <1>13, <1>14 DEF CryptoNext

LEMMA CapitalFollows == CapitalInv => CapitalConserved
<1> SUFFICES ASSUME CapitalInv PROVE CapitalConserved
  OBVIOUS
<1>1. Exposure(Entered, {}) = Taking(position) + 0
  BY SumOfNone DEF Exposure, Taking, NotionalOf, Entered, Holding
<1>2. Taking(position) \in Int
  BY TakingChanges DEF CapitalInv, CapitalShapes
<1> QED
  BY <1>1, <1>2 DEF CapitalConserved, CapitalInv

(* Every unit of the account is in cash, in a position or in the realized  *)
(* results, through cuts, replays and failed bars (shadow_db.fill_buy,     *)
(* close_position).                                                        *)
THEOREM CapitalIsConserved == CryptoSpec => []CapitalConserved
BY CapitalInvInit, CapitalInvStep, CapitalFollows, PTL DEF CryptoSpec

-----------------------------------------------------------------------------
(* CryptoShadow: what was approved still fits when it is ordered and filled *)

(* An order or a position never makes the account hold more, or in more    *)
(* places, than the limits of the portfolio allow, whatever was cut        *)
(* between the decision and the fill (risk.govern_entry, RISK_LIMITS).     *)
WithinLimits ==
  /\ Gross <= GrossCap
  /\ Cardinality(Entered) + Cardinality(Waiting) <= MaxPositions

UsedBy(pos, orders) == NotionalOf(pos, NoPosition) + NotionalOf(orders, NoOrder)
PlacesOf(pos, orders) == CountOf(pos, NoPosition) + CountOf(orders, NoOrder)

NoneIsNegative == \A s \in Symbols : position[s].notional >= 0 /\ order[s].notional >= 0

(* what the engine is about to order was approved against the rows as they are *)
OrderFits ==
  engine.at = "order" =>
    /\ order[engine.symbol] = NoOrder /\ engine.size > 0
    /\ UsedBy(position, order) + engine.size <= GrossCap
    /\ PlacesOf(position, order) < MaxPositions

LimitsInv ==
  /\ CapitalInv /\ NoneIsNegative /\ OrderFits
  /\ UsedBy(position, order) <= GrossCap /\ PlacesOf(position, order) <= MaxPositions

LEMMA LimitNumbers == GrossCap \in Nat /\ MaxPositions \in Nat /\ MinEntry \in Nat /\ MinEntry > 0
BY CryptoAssumption DEF CryptoAssumption

LEMMA GrossIsUsed ==
  /\ Gross = UsedBy(position, order)
  /\ Cardinality(Entered) + Cardinality(Waiting) = PlacesOf(position, order)
BY DEF Gross, Exposure, UsedBy, PlacesOf, NotionalOf, CountOf, Entered, Waiting, Holding, Pending

Numbered(rows) == \A s \in Symbols : rows[s].notional \in Int
SameBut(x, rows, later) == \A s \in Symbols : s # x => later[s] = rows[s]

(* a position or an order of one symbol is replaced *)
LEMMA UsedChanges ==
  ASSUME NEW pos, NEW next, NEW orders, NEW later, NEW x \in Symbols,
         Numbered(pos), Numbered(next), Numbered(orders), Numbered(later),
         SameBut(x, pos, next), SameBut(x, orders, later)
  PROVE  /\ UsedBy(pos, orders) \in Int /\ UsedBy(next, later) \in Int
         /\ PlacesOf(pos, orders) \in Int /\ PlacesOf(next, later) \in Int
         /\ UsedBy(next, later) = UsedBy(pos, orders)
              + (Part(next[x], NoPosition) - Part(pos[x], NoPosition))
              + (Part(later[x], NoOrder) - Part(orders[x], NoOrder))
         /\ PlacesOf(next, later) = PlacesOf(pos, orders)
              + (One(next[x], NoPosition) - One(pos[x], NoPosition))
              + (One(later[x], NoOrder) - One(orders[x], NoOrder))
<1>1. /\ NotionalOf(pos, NoPosition) \in Int /\ NotionalOf(next, NoPosition) \in Int
      /\ Part(pos[x], NoPosition) \in Int /\ Part(next[x], NoPosition) \in Int
      /\ NotionalOf(next, NoPosition) - Part(next[x], NoPosition) =
           NotionalOf(pos, NoPosition) - Part(pos[x], NoPosition)
  BY NotionalChanges DEF Numbered, SameBut
<1>2. /\ NotionalOf(orders, NoOrder) \in Int /\ NotionalOf(later, NoOrder) \in Int
      /\ Part(orders[x], NoOrder) \in Int /\ Part(later[x], NoOrder) \in Int
      /\ NotionalOf(later, NoOrder) - Part(later[x], NoOrder) =
           NotionalOf(orders, NoOrder) - Part(orders[x], NoOrder)
  BY NotionalChanges DEF Numbered, SameBut
<1>3. /\ CountOf(pos, NoPosition) \in Nat /\ CountOf(next, NoPosition) \in Nat
      /\ CountOf(next, NoPosition) - One(next[x], NoPosition) = CountOf(pos, NoPosition) - One(pos[x], NoPosition)
  BY CountChanges DEF SameBut
<1>4. /\ CountOf(orders, NoOrder) \in Nat /\ CountOf(later, NoOrder) \in Nat
      /\ CountOf(later, NoOrder) - One(later[x], NoOrder) = CountOf(orders, NoOrder) - One(orders[x], NoOrder)
  BY CountChanges DEF SameBut
<1>5. /\ One(pos[x], NoPosition) \in Int /\ One(next[x], NoPosition) \in Int
      /\ One(orders[x], NoOrder) \in Int /\ One(later[x], NoOrder) \in Int
  BY DEF One
<1>6. /\ UsedBy(pos, orders) \in Int /\ UsedBy(next, later) \in Int
      /\ UsedBy(next, later) = UsedBy(pos, orders)
           + (Part(next[x], NoPosition) - Part(pos[x], NoPosition))
           + (Part(later[x], NoOrder) - Part(orders[x], NoOrder))
  BY <1>1, <1>2 DEF UsedBy
<1>7. PICK a \in Int, b \in Int, c \in Int, d \in Int :
        /\ a = CountOf(pos, NoPosition) /\ b = CountOf(next, NoPosition)
        /\ c = CountOf(orders, NoOrder) /\ d = CountOf(later, NoOrder)
  BY <1>3, <1>4
<1>8. PICK e \in Int, f \in Int, g \in Int, h \in Int :
        /\ e = One(pos[x], NoPosition) /\ f = One(next[x], NoPosition)
        /\ g = One(orders[x], NoOrder) /\ h = One(later[x], NoOrder)
  BY <1>5
<1>9. b - f = a - e /\ d - h = c - g /\ PlacesOf(pos, orders) = a + c /\ PlacesOf(next, later) = b + d
  BY <1>3, <1>4, <1>7, <1>8 DEF PlacesOf
<1>m. b = a + (f - e) /\ d = c + (h - g)
  <2>1. b - f = a - e /\ d - h = c - g
    BY <1>9
  <2> QED  BY <2>1
<1>10. b + d = a + c + (f - e) + (h - g)
  BY <1>m
<1>11. /\ PlacesOf(pos, orders) \in Int /\ PlacesOf(next, later) \in Int
       /\ PlacesOf(next, later) = PlacesOf(pos, orders)
            + (One(next[x], NoPosition) - One(pos[x], NoPosition))
            + (One(later[x], NoOrder) - One(orders[x], NoOrder))
  BY <1>7, <1>8, <1>9, <1>10
<1> QED  BY <1>6, <1>11

LEMMA SmallestOfFourIsLeast ==
  ASSUME NEW a \in Int, NEW b \in Int, NEW c \in Int, NEW d \in Int
  PROVE  Min({a, b, c, d}) <= b
<1>1. PICK x \in {a, b} : x <= a /\ x <= b
  OBVIOUS
<1>2. PICK y \in {c, d} : y <= c /\ y <= d
  OBVIOUS
<1>3. \E z \in {a, b, c, d} : \A u \in {a, b, c, d} : z <= u
  <2>1. x \in {a, b, c, d} /\ y \in {a, b, c, d} /\ x \in Int /\ y \in Int
    OBVIOUS
  <2>2. CASE x <= y
    BY <1>1, <1>2, <2>1, <2>2
  <2>3. CASE ~(x <= y)
    BY <1>1, <1>2, <2>1, <2>3
  <2> QED  BY <2>2, <2>3
<1> QED  BY <1>3 DEF Min

(* what govern_entry approves fits beside what there is *)
LEMMA ApprovedFits ==
  ASSUME CapitalShapes, NEW ask \in Int, NEW route, Approved(ask, route) > 0
  PROVE  Gross + Approved(ask, route) <= GrossCap /\ Cardinality(Entered) + Cardinality(Waiting) < MaxPositions
<1> DEFINE s == Room(StrategyCap, InStrategy(route.strategy))
           g == Room(RegimeCap, InRegime(route.regime))
           r == Room(GrossCap, Gross)
           m == Min({ask, r, s, g})
<1>1. s \in Int /\ g \in Int /\ r \in Int /\ Gross \in Int
  BY RoomsAreInt
<1>2. m <= r /\ m \in Int
  <2> HIDE DEF s, g, r
  <2> QED  BY <1>1, SmallestOfFour, SmallestOfFourIsLeast
<1>3. /\ Approved(ask, route) = m /\ ~(m < MinEntry)
      /\ ~(Cardinality(Entered) + Cardinality(Waiting) >= MaxPositions)
  BY DEF Approved
<1>4. Cardinality(Entered) + Cardinality(Waiting) \in Int
  <2>1. Entered \subseteq Symbols /\ Waiting \subseteq Symbols
    BY DEF Entered, Waiting
  <2>2. IsFiniteSet(Entered) /\ IsFiniteSet(Waiting)
    BY <2>1, CryptoNumbers, FS_Subset
  <2> QED  BY <2>2, FS_CardinalityType
<1>5. r > 0
  <2> HIDE DEF r, m
  <2> QED  BY <1>1, <1>2, <1>3, LimitNumbers
<1>6. r = GrossCap - Gross
  BY <1>5, LimitNumbers DEF Room
<1> HIDE DEF r, m
<1> QED  BY <1>1, <1>2, <1>3, <1>4, <1>6, LimitNumbers

(* a step that changes one symbol, by no more than there is room for *)
LEMMA LimitsMove ==
  ASSUME LimitsInv, CapitalInv', NEW x \in Symbols,
         \A s \in Symbols : s # x => position'[s] = position[s] /\ order'[s] = order[s],
         position'[x].notional >= 0, order'[x].notional >= 0, engine'.at # "order",
         NEW more \in Int, NEW places \in Int,
         Part(position'[x], NoPosition) + Part(order'[x], NoOrder)
           <= Part(position[x], NoPosition) + Part(order[x], NoOrder) + more,
         One(position'[x], NoPosition) + One(order'[x], NoOrder)
           <= One(position[x], NoPosition) + One(order[x], NoOrder) + places,
         UsedBy(position, order) + more <= GrossCap,
         PlacesOf(position, order) + places <= MaxPositions
  PROVE  LimitsInv'
<1>1. /\ \A s \in Symbols : position[s].notional \in Int /\ position'[s].notional \in Int
      /\ \A s \in Symbols : order[s].notional \in Int /\ order'[s].notional \in Int
  BY DEF LimitsInv, CapitalInv, CapitalShapes
<1>2. /\ UsedBy(position, order) \in Int /\ UsedBy(position', order') \in Int
      /\ PlacesOf(position, order) \in Int /\ PlacesOf(position', order') \in Int
      /\ UsedBy(position', order') = UsedBy(position, order)
           + (Part(position'[x], NoPosition) - Part(position[x], NoPosition))
           + (Part(order'[x], NoOrder) - Part(order[x], NoOrder))
      /\ PlacesOf(position', order') = PlacesOf(position, order)
           + (One(position'[x], NoPosition) - One(position[x], NoPosition))
           + (One(order'[x], NoOrder) - One(order[x], NoOrder))
  <2>1. \A s \in Symbols : position[s].notional \in Int /\ position'[s].notional \in Int
    BY <1>1
  <2>2. \A s \in Symbols : order[s].notional \in Int /\ order'[s].notional \in Int
    BY <1>1
  <2>3. \A s \in Symbols : s # x => position'[s] = position[s] /\ order'[s] = order[s]
    OBVIOUS
  <2>4. /\ Numbered(position) /\ Numbered(position') /\ Numbered(order) /\ Numbered(order')
        /\ SameBut(x, position, position') /\ SameBut(x, order, order')
    BY <2>1, <2>2, <2>3 DEF Numbered, SameBut
  <2> QED  BY <2>4, UsedChanges
<1>3. /\ Part(position[x], NoPosition) \in Int /\ Part(position'[x], NoPosition) \in Int
      /\ Part(order[x], NoOrder) \in Int /\ Part(order'[x], NoOrder) \in Int
  BY <1>1 DEF Part
<1>4. /\ One(position[x], NoPosition) \in Int /\ One(position'[x], NoPosition) \in Int
      /\ One(order[x], NoOrder) \in Int /\ One(order'[x], NoOrder) \in Int
  BY DEF One
<1>5. UsedBy(position', order') <= GrossCap
  BY <1>2, <1>3, LimitNumbers
<1>6. PlacesOf(position', order') <= MaxPositions
  BY <1>2, <1>4, LimitNumbers
<1>7. NoneIsNegative'
  BY DEF LimitsInv, NoneIsNegative
<1> QED
  BY <1>5, <1>6, <1>7 DEF LimitsInv, OrderFits

LEMMA LimitsKept ==
  ASSUME LimitsInv, CapitalInv', UNCHANGED <<position, order>>, engine'.at # "order"
  PROVE  LimitsInv'
BY DEF LimitsInv, NoneIsNegative, OrderFits

LEMMA LimitsInvInit == CryptoInit => LimitsInv
<1> SUFFICES ASSUME CryptoInit PROVE LimitsInv
  OBVIOUS
<1>1. /\ \A s \in Symbols : position[s] = NoPosition /\ order[s] = NoOrder
      /\ engine.at = "idle"
  BY DEF CryptoInit
<1>2. {s \in Symbols : position[s] # NoPosition} = {} /\ {s \in Symbols : order[s] # NoOrder} = {}
  BY <1>1
<1>3. UsedBy(position, order) = 0
  BY <1>2, SumOfNone DEF UsedBy, NotionalOf
<1>4. PlacesOf(position, order) = 0
  BY <1>2, FS_EmptySet DEF PlacesOf, CountOf
<1>5. NoneIsNegative
  BY <1>1 DEF NoneIsNegative, NoPosition, NoOrder
<1> QED
  BY <1>1, <1>3, <1>4, <1>5, CapitalInvInit, LimitNumbers DEF LimitsInv, OrderFits

LEMMA SmallestOfTwoIsLeast ==
  ASSUME NEW a \in Int, NEW b \in Int
  PROVE  Min({a, b}) <= a
<1>1. \E x \in {a, b} : \A y \in {a, b} : x <= y
  OBVIOUS
<1> QED  BY <1>1 DEF Min

LEMMA LimitsInvStep == LimitsInv /\ [CryptoNext]_cryptoVars => LimitsInv'
<1> SUFFICES ASSUME LimitsInv, [CryptoNext]_cryptoVars PROVE LimitsInv'
  OBVIOUS
<1>a. /\ cash \in Int
      /\ position = [s \in Symbols |-> position[s]]
      /\ \A s \in Symbols :
           /\ position[s] = [entry |-> position[s].entry, notional |-> position[s].notional,
                             strategy |-> position[s].strategy, regime |-> position[s].regime,
                             held |-> position[s].held]
           /\ position[s].notional \in Int /\ position[s].held \in Nat
      /\ order = [s \in Symbols |-> order[s]] /\ \A s \in Symbols : order[s].notional \in Int
      /\ \A s \in Symbols : bar[s].ask \in Int
      /\ engine = [at |-> engine.at, plan |-> engine.plan, btc |-> engine.btc, symbol |-> engine.symbol,
                   size |-> engine.size]
      /\ engine.symbol \in Symbols /\ engine.size \in Int
  BY DEF LimitsInv, CapitalInv, CapitalShapes
<1>b. CapitalInv'
  BY CapitalInvStep DEF LimitsInv
<1>c. \A s \in Symbols : position[s].notional >= 0 /\ order[s].notional >= 0
  BY DEF LimitsInv, NoneIsNegative
<1>d. UsedBy(position, order) <= GrossCap /\ PlacesOf(position, order) <= MaxPositions
  BY DEF LimitsInv
<1>e. UsedBy(position, order) \in Int /\ PlacesOf(position, order) \in Int
  <2>1. /\ Numbered(position) /\ Numbered(order)
        /\ SameBut(engine.symbol, position, position) /\ SameBut(engine.symbol, order, order)
    BY <1>a DEF Numbered, SameBut
  <2> QED  BY <1>a, <2>1, UsedChanges
<1>f. UsedBy(position, order) + 0 <= GrossCap /\ PlacesOf(position, order) + 0 <= MaxPositions
  BY <1>d, <1>e
<1>n. NoPosition.notional = 0 /\ NoOrder.notional = 0 /\ 0 \in Int
  BY DEF NoPosition, NoOrder
<1>p. \A s \in Symbols : /\ Part(position[s], NoPosition) \in Int /\ Part(position[s], NoPosition) >= 0
                         /\ Part(order[s], NoOrder) \in Int /\ Part(order[s], NoOrder) >= 0
  BY <1>a, <1>c DEF Part
<1>u. \A r, none : One(r, none) \in Int /\ One(r, none) >= 0 /\ One(r, none) <= 1
  BY DEF One
<1>z. /\ Part(NoPosition, NoPosition) = 0 /\ Part(NoOrder, NoOrder) = 0
      /\ One(NoPosition, NoPosition) = 0 /\ One(NoOrder, NoOrder) = 0
  BY DEF Part, One
(* a position is closed, or an order expires *)
<1>l. ASSUME NEW s \in Symbols, position' = [position EXCEPT ![s] = NoPosition], order' = order,
             engine'.at # "order"
      PROVE  LimitsInv'
  <2>1. /\ \A t \in Symbols : t # s => position'[t] = position[t] /\ order'[t] = order[t]
        /\ position'[s] = NoPosition /\ order'[s] = order[s]
    BY <1>a, <1>l
  <2>2. position'[s].notional >= 0 /\ order'[s].notional >= 0
    BY <1>c, <1>n, <2>1
  <2>3. Part(position'[s], NoPosition) + Part(order'[s], NoOrder)
          <= Part(position[s], NoPosition) + Part(order[s], NoOrder) + 0
    BY <1>p, <1>z, <2>1
  <2>4. One(position'[s], NoPosition) + One(order'[s], NoOrder)
          <= One(position[s], NoPosition) + One(order[s], NoOrder) + 0
    BY <1>u, <1>z, <2>1
  <2> QED  BY <1>b, <1>f, <1>n, <1>l, <2>1, <2>2, <2>3, <2>4, LimitsMove
<1>1. ASSUME NEW s \in Symbols, BarCloses(s) PROVE LimitsInv'
  BY <1>1, <1>b DEF BarCloses, LimitsInv, NoneIsNegative, OrderFits
<1>2. CASE StartCycle
  <2>1. engine'.at = "next" /\ UNCHANGED <<position, order>>
    BY <1>2, <1>a DEF StartCycle
  <2> QED  BY <1>b, <2>1, LimitsKept
<1>3. ASSUME NEW s \in Symbols, NEW exit \in {"none", "price"}, NEW r \in Routes, NEW a \in Asks,
             BeginBar(s, exit, r, a)
      PROVE  LimitsInv'
  <2>1. engine'.at = "fill" /\ UNCHANGED <<position, order>>
    BY <1>3, <1>a DEF BeginBar
  <2> QED  BY <1>b, <2>1, LimitsKept
<1>4. ASSUME NEW r \in Routes, FillPending(r) PROVE LimitsInv'
  <2> DEFINE s == engine.symbol
             paid == Min({order[s].notional, cash})
  <2>s. s \in Symbols
    BY <1>a
  <2>1. engine'.at = "manage" /\ engine'.at # "order"
    BY <1>4, <1>a DEF FillPending
  <2>3. paid \in Int /\ paid <= order[s].notional
    BY <1>a, <2>s, SmallestOfTwo, SmallestOfTwoIsLeast
  <2>4. CASE UNCHANGED <<cash, order, position>>
    BY <1>b, <2>1, <2>4, LimitsKept
  <2>5. CASE order' = [order EXCEPT ![s] = NoOrder] /\ UNCHANGED <<cash, position>>
    <3>1. /\ \A t \in Symbols : t # s => position'[t] = position[t] /\ order'[t] = order[t]
          /\ position'[s] = position[s] /\ order'[s] = NoOrder
      BY <1>a, <2>5
    <3>2. position'[s].notional >= 0 /\ order'[s].notional >= 0
      BY <1>c, <1>n, <2>s, <3>1
    <3>3. Part(position'[s], NoPosition) + Part(order'[s], NoOrder)
            <= Part(position[s], NoPosition) + Part(order[s], NoOrder) + 0
      BY <1>p, <1>z, <2>s, <3>1
    <3>4. One(position'[s], NoPosition) + One(order'[s], NoOrder)
            <= One(position[s], NoPosition) + One(order[s], NoOrder) + 0
      BY <1>u, <1>z, <3>1
    <3> QED  BY <1>b, <1>f, <1>n, <2>s, <2>1, <3>1, <3>2, <3>3, <3>4, LimitsMove
  <2>6. CASE /\ Pending(s) /\ ~(paid <= 0) /\ order' = [order EXCEPT ![s] = NoOrder]
             /\ position' = [position EXCEPT ![s] =
                  [entry |-> bar[s].bar, notional |-> paid, strategy |-> r.strategy, regime |-> r.regime,
                   held |-> 0]]
    <3> HIDE DEF paid
    <3>1. /\ \A t \in Symbols : t # s => position'[t] = position[t] /\ order'[t] = order[t]
          /\ position'[s].notional = paid /\ order'[s] = NoOrder
      BY <1>a, <2>6
    <3>2. position'[s].notional >= 0 /\ order'[s].notional >= 0
      BY <1>n, <2>3, <2>6, <3>1
    <3>5. position[s] = NoPosition /\ order[s] # NoOrder
      BY <2>s, <2>6 DEF Pending, LimitsInv, CapitalInv, OneOfBoth, Holding
    <3>6. Part(position'[s], NoPosition) <= paid /\ Part(position'[s], NoPosition) \in Int
      BY <2>3, <2>6, <3>1 DEF Part
    <3>7. Part(order[s], NoOrder) = order[s].notional
      BY <3>5 DEF Part
    <3>8. order[s].notional \in Int
      BY <1>a, <2>s
    <3>3. Part(position'[s], NoPosition) + Part(order'[s], NoOrder)
            <= Part(position[s], NoPosition) + Part(order[s], NoOrder) + 0
      BY <1>z, <2>3, <3>1, <3>5, <3>6, <3>7, <3>8
    <3>9. One(order[s], NoOrder) = 1
      BY <3>5 DEF One
    <3>4. One(position'[s], NoPosition) + One(order'[s], NoOrder)
            <= One(position[s], NoPosition) + One(order[s], NoOrder) + 0
      BY <1>u, <1>z, <3>1, <3>5, <3>9
    <3> QED  BY <1>b, <1>f, <1>n, <2>s, <2>1, <3>1, <3>2, <3>3, <3>4, LimitsMove
  <2> QED
    BY <1>4, <2>4, <2>5, <2>6 DEF FillPending
<1>5. ASSUME NEW x \in Results, ExitAtPrice(x) PROVE LimitsInv'
  <2>1. engine'.at # "order"
    BY <1>5, <1>a DEF ExitAtPrice
  <2> QED  BY <1>5, <1>a, <1>l, <2>1 DEF ExitAtPrice, Close
<1>6. CASE CountBar
  <2> DEFINE s == engine.symbol
  <2>s. s \in Symbols
    BY <1>a
  <2>1. /\ position' = [position EXCEPT ![s].held = @ + 1] /\ position[s] # NoPosition /\ order' = order
        /\ engine'.at # "order"
    BY <1>6, <1>a DEF CountBar, Holding
  <2>2. position'[s] = [entry |-> position[s].entry, notional |-> position[s].notional,
                        strategy |-> position[s].strategy, regime |-> position[s].regime,
                        held |-> position[s].held + 1]
    BY <1>a, <2>s, <2>1
  <2>3. /\ \A t \in Symbols : t # s => position'[t] = position[t] /\ order'[t] = order[t]
        /\ position'[s].notional = position[s].notional /\ order'[s] = order[s]
    BY <1>a, <2>1, <2>2
  <2>4. position'[s].notional >= 0 /\ order'[s].notional >= 0
    BY <1>c, <2>s, <2>3
  <2>5. Part(position'[s], NoPosition) <= position[s].notional /\ Part(position'[s], NoPosition) \in Int
    BY <1>a, <1>c, <2>s, <2>3 DEF Part
  <2>6. Part(position[s], NoPosition) = position[s].notional /\ One(position[s], NoPosition) = 1
    BY <2>1 DEF Part, One
  <2>7. Part(position'[s], NoPosition) + Part(order'[s], NoOrder)
          <= Part(position[s], NoPosition) + Part(order[s], NoOrder) + 0
    BY <1>p, <2>s, <2>3, <2>5, <2>6
  <2>8. One(position'[s], NoPosition) + One(order'[s], NoOrder)
          <= One(position[s], NoPosition) + One(order[s], NoOrder) + 0
    BY <1>u, <2>3, <2>6
  <2> QED  BY <1>b, <1>f, <1>n, <2>s, <2>1, <2>3, <2>4, <2>7, <2>8, LimitsMove
<1>7. ASSUME NEW x \in Results, ExitInTime(x) PROVE LimitsInv'
  <2>1. engine'.at # "order"
    BY <1>7, <1>a DEF ExitInTime
  <2> QED  BY <1>7, <1>a, <1>l, <2>1 DEF ExitInTime, Close
<1>8. CASE NothingHeld
  <2>1. engine'.at = "decide" /\ UNCHANGED <<position, order>>
    BY <1>8, <1>a DEF NothingHeld
  <2> QED  BY <1>b, <2>1, LimitsKept
<1>9. CASE Decide
  <2> DEFINE s == engine.symbol
             route == bar[s].route
             ask == Min({cash, bar[s].ask})
             size == IF Holding(s) \/ Pending(s) \/ route.action # "ENTER" THEN 0 ELSE Approved(ask, route)
  <2>1. /\ engine' = [engine EXCEPT !.at = IF size > 0 THEN "order" ELSE "cursor", !.size = size]
        /\ UNCHANGED <<order, position>>
    BY <1>9 DEF Decide
  <2>2. ask \in Int
    BY <1>a, SmallestOfTwo
  <2>3. ASSUME size > 0
        PROVE  order[s] = NoOrder /\ Gross + size <= GrossCap
               /\ Cardinality(Entered) + Cardinality(Waiting) < MaxPositions
    <3>1. ~Pending(s) /\ size = Approved(ask, route)
      BY <2>3
    <3>2. Approved(ask, route) > 0
      BY <2>3, <3>1
    <3>3. CapitalShapes
      BY DEF LimitsInv, CapitalInv
    <3>4. Gross + Approved(ask, route) <= GrossCap
          /\ Cardinality(Entered) + Cardinality(Waiting) < MaxPositions
      BY <2>2, <3>2, <3>3, ApprovedFits
    <3> HIDE DEF size
    <3> QED  BY <3>1, <3>4 DEF Pending
  <2> HIDE DEF size
  <2>4. /\ engine'.symbol = s /\ engine'.size = size
        /\ engine'.at = "order" => size > 0
    BY <1>a, <2>1
  <2>5. OrderFits'
    BY <2>1, <2>3, <2>4, GrossIsUsed DEF OrderFits
  <2> QED  BY <1>b, <1>c, <1>d, <2>1, <2>5 DEF LimitsInv, NoneIsNegative
<1>10. CASE AddBuyOrder
  <2> DEFINE s == engine.symbol
  <2>s. s \in Symbols
    BY <1>a
  <2>1. /\ order'[s].notional = engine.size /\ position' = position /\ engine.at = "order"
        /\ engine'.at # "order" /\ \A t \in Symbols : t # s => order'[t] = order[t]
    BY <1>10, <1>a DEF AddBuyOrder
  <2>2. /\ order[s] = NoOrder /\ engine.size > 0
        /\ UsedBy(position, order) + engine.size <= GrossCap
        /\ PlacesOf(position, order) < MaxPositions
    BY <2>1 DEF LimitsInv, OrderFits
  <2>3. engine.size \in Int /\ 1 \in Int
    BY <1>a
  <2>4. PlacesOf(position, order) + 1 <= MaxPositions
    BY <1>e, <2>2, LimitNumbers
  <2>5. position'[s].notional >= 0 /\ order'[s].notional >= 0
    BY <1>c, <2>s, <2>1, <2>2, <2>3
  <2>6. Part(order'[s], NoOrder) <= engine.size /\ Part(order'[s], NoOrder) \in Int
    BY <2>1, <2>2, <2>3 DEF Part
  <2>7. Part(position'[s], NoPosition) + Part(order'[s], NoOrder)
          <= Part(position[s], NoPosition) + Part(order[s], NoOrder) + engine.size
    BY <1>p, <1>z, <2>s, <2>1, <2>2, <2>3, <2>6
  <2>8. One(position'[s], NoPosition) + One(order'[s], NoOrder)
          <= One(position[s], NoPosition) + One(order[s], NoOrder) + 1
    BY <1>u, <1>z, <2>1, <2>2
  <2>9. \A t \in Symbols : t # s => position'[t] = position[t] /\ order'[t] = order[t]
    BY <2>1
  <2> QED  BY <1>b, <2>s, <2>1, <2>2, <2>3, <2>4, <2>5, <2>7, <2>8, <2>9, LimitsMove
<1>x. \A plan : NextEvent(plan).at \in {"idle", "next"}
  BY <1>a DEF NextEvent
<1>11. CASE SetLastProcessed
  BY <1>11, <1>b, <1>x, LimitsKept DEF SetLastProcessed
<1>12. CASE BarFails
  BY <1>12, <1>b, <1>x, LimitsKept DEF BarFails
<1>13. CASE EngineCut
  BY <1>13, <1>b, <1>x, LimitsKept DEF EngineCut
<1>14. CASE UNCHANGED cryptoVars
  BY <1>14, <1>b DEF cryptoVars, LimitsInv, NoneIsNegative, OrderFits
<1> QED
  BY <1>1, <1>2, <1>3, <1>4, <1>5, <1>6, <1>7, <1>8, <1>9, <1>10, <1>11, <1>12, <1>13, <1>14 DEF CryptoNext

LEMMA LimitsFollow == LimitsInv => WithinLimits
BY GrossIsUsed DEF LimitsInv, WithinLimits

(* In every reachable state the positions and the orders together stay     *)
(* under the gross limit and the number of positions, though the rows the  *)
(* approval was read from are written by later transactions, and a bar may *)
(* be cut, fail and be gone over again in between (risk.govern_entry,      *)
(* shadow_db.add_buy_order, fill_buy).                                     *)
THEOREM LimitsHold == CryptoSpec => []WithinLimits
BY LimitsInvInit, LimitsInvStep, LimitsFollow, PTL DEF CryptoSpec

-----------------------------------------------------------------------------
(* CryptoResearch: the plan holds only bars that have closed               *)

Engines == [at : {"idle", "advance", "record", "follow", "decide", "cursor"}, bar : 0..FinalBar,
            plan : SUBSET (1..FinalBar)]

BarOfPlan == research.at # "idle" => research.bar \in 1..FinalBar

ResearchShape == ResearchTypeOK /\ BarOfPlan

LEMMA ResearchNumbers ==
  FinalBar \in Nat /\ MaxBreaks \in Nat /\ Horizon \in Nat /\ MaxHolding \in Nat
BY ResearchAssumption DEF ResearchAssumption

LEMMA UpcomingType ==
  ASSUME NEW plan \in SUBSET (1..FinalBar)
  PROVE  Upcoming(plan) \in Engines /\ (Upcoming(plan).at # "idle" => Upcoming(plan).bar \in 1..FinalBar)
<1>1. CASE plan = {}
  BY <1>1, ResearchNumbers DEF Upcoming, Nowhere, Engines
<1>2. CASE plan # {}
  <2>1. \E b \in plan : \A c \in plan : b <= c
    <3>1. plan \subseteq Nat
      BY ResearchNumbers
    <3> QED  BY <1>2, <3>1, LeastOf
  <2>2. PICK b \in plan : Upcoming(plan) = [at |-> "advance", bar |-> b, plan |-> plan \ {b}]
    BY <1>2, <2>1 DEF Upcoming
  <2> QED  BY <2>2, ResearchNumbers DEF Engines
<1> QED  BY <1>1, <1>2

LEMMA RowTypes ==
  ASSUME research.bar \in 1..FinalBar
  PROVE  \A d \in Evaluations, touch \in BOOLEAN :
           Advanced(d) \in Evaluations /\ Followed(d, touch) \in Evaluations
<1> SUFFICES ASSUME NEW d \in Evaluations, NEW touch \in BOOLEAN
             PROVE  Advanced(d) \in Evaluations /\ Followed(d, touch) \in Evaluations
  OBVIOUS
<1> DEFINE b == research.bar
           Row(status, entry, exit, held, seen) ==
             [decided |-> d.decided, status |-> status, entry |-> entry, exit |-> exit, held |-> held,
              bars |-> seen]
<1>a. /\ d.decided \in 1..FinalBar /\ d.status \in {"PENDING_ENTRY", "OPEN", "CLOSED"}
      /\ d.entry \in 0..FinalBar /\ d.exit \in 0..FinalBar /\ d.held \in Nat /\ d.bars \in SUBSET (1..FinalBar)
      /\ d = Row(d.status, d.entry, d.exit, d.held, d.bars)
  BY DEF Evaluations
<1>b. b \in 1..FinalBar /\ b \in 0..FinalBar
  BY ResearchNumbers
<1>r. ASSUME NEW status \in {"PENDING_ENTRY", "OPEN", "CLOSED"}, NEW entry \in 0..FinalBar,
             NEW exit \in 0..FinalBar, NEW held \in Nat, NEW seen \in SUBSET (1..FinalBar)
      PROVE  Row(status, entry, exit, held, seen) \in Evaluations
  BY <1>a DEF Evaluations
<1>1. EnteredRow(d) \in Evaluations
  <2>1. CASE d.status # "PENDING_ENTRY"
    BY <2>1 DEF EnteredRow
  <2>2. CASE d.status = "PENDING_ENTRY"
    <3>1. EnteredRow(d) = Row("OPEN", b, d.exit, d.held, d.bars)
      BY <1>a, <2>2 DEF EnteredRow
    <3> QED  BY <1>a, <1>b, <1>r, <3>1
  <2> QED  BY <2>1, <2>2
<1>2. PICK e : e = EnteredRow(d)
  OBVIOUS
<1>e. /\ e \in Evaluations /\ e.held \in Nat /\ e.decided \in 1..FinalBar /\ e.entry \in 0..FinalBar
      /\ e.status \in {"PENDING_ENTRY", "OPEN", "CLOSED"} /\ e.exit \in 0..FinalBar /\ e.bars \in SUBSET (1..FinalBar)
  BY <1>1, <1>2 DEF Evaluations
<1>3. PICK f : f = Counted(e)
  OBVIOUS
<1>4. f = [decided |-> e.decided, status |-> e.status, entry |-> e.entry, exit |-> e.exit,
           held |-> e.held + 1, bars |-> e.bars \union {b}]
  BY <1>3, <1>e DEF Counted, Evaluations
<1>5. f \in Evaluations
  BY <1>4, <1>e, <1>b DEF Evaluations
<1>6. [f EXCEPT !.status = "CLOSED", !.exit = b] \in Evaluations
  BY <1>5, <1>b DEF Evaluations
<1>7. [e EXCEPT !.status = "CLOSED", !.exit = b, !.bars = e.bars \union {b}] \in Evaluations
  BY <1>e, <1>b DEF Evaluations
<1>8. Advanced(d) \in {d, f, [f EXCEPT !.status = "CLOSED", !.exit = b]}
  BY <1>2, <1>3 DEF Advanced
<1>9. Followed(d, touch) \in {d, f, [f EXCEPT !.status = "CLOSED", !.exit = b],
                             [e EXCEPT !.status = "CLOSED", !.exit = b, !.bars = e.bars \union {b}]}
  BY <1>2, <1>3 DEF Followed
<1> QED
  BY <1>5, <1>6, <1>7, <1>8, <1>9

LEMMA NewRowType ==
  ASSUME NEW b \in 1..FinalBar
  PROVE  NewRow(b) \in Evaluations
BY ResearchNumbers DEF NewRow, Evaluations

LEMMA ResearchShapeInit == ResearchInit => ResearchShape
BY ResearchNumbers DEF ResearchInit, ResearchShape, ResearchTypeOK, BarOfPlan, Nowhere

LEMMA ResearchShapeStep == ResearchShape /\ [ResearchNext]_researchVars => ResearchShape'
<1> SUFFICES ASSUME ResearchShape, [ResearchNext]_researchVars PROVE ResearchShape'
  OBVIOUS
<1>a. /\ ended \in 0..FinalBar /\ cursor \in 0..FinalBar /\ since \in -1..FinalBar
      /\ decisions \in Seq(Evaluations) /\ blocked \in Seq(Evaluations)
      /\ research \in Engines /\ breaks \in 0..MaxBreaks
      /\ (research.at # "idle" => research.bar \in 1..FinalBar)
  BY DEF ResearchShape, ResearchTypeOK, BarOfPlan, Engines
<1>b. ASSUME ended' \in 0..FinalBar, cursor' \in 0..FinalBar, since' \in -1..FinalBar,
             decisions' \in Seq(Evaluations), blocked' \in Seq(Evaluations), breaks' \in 0..MaxBreaks,
             research' \in Engines, research'.at # "idle" => research'.bar \in 1..FinalBar
      PROVE  ResearchShape'
  BY <1>b DEF ResearchShape, ResearchTypeOK, BarOfPlan, Engines
<1>p. research.plan \in SUBSET (1..FinalBar)
  BY <1>a DEF Engines
<1>u. Upcoming(research.plan) \in Engines
      /\ (Upcoming(research.plan).at # "idle" => Upcoming(research.plan).bar \in 1..FinalBar)
  BY <1>p, UpcomingType
(* on to another place of the same bar *)
<1>m. ASSUME NEW at \in {"advance", "record", "follow", "decide", "cursor"}, research.at # "idle",
             research' = [research EXCEPT !.at = at]
      PROVE  research' \in Engines /\ research'.bar \in 1..FinalBar
  BY <1>a, <1>m DEF Engines
<1>1. CASE BarEnds
  BY <1>1, <1>a, <1>b, ResearchNumbers DEF BarEnds
<1>2. CASE StartResearch
  <2> DEFINE plan == IF cursor = 0 THEN {ended} ELSE (cursor + 1)..ended
  <2>1. plan \in SUBSET (1..FinalBar)
    BY <1>2, <1>a, ResearchNumbers DEF StartResearch
  <2>2. research' = Upcoming(plan)
    BY <1>2 DEF StartResearch
  <2> HIDE DEF plan
  <2>3. research' \in Engines /\ (research'.at # "idle" => research'.bar \in 1..FinalBar)
    BY <2>1, <2>2, UpcomingType
  <2>4. since' \in -1..FinalBar
    BY <1>2, <1>a, ResearchNumbers DEF StartResearch
  <2> QED  BY <1>2, <1>a, <1>b, <2>3, <2>4 DEF StartResearch
<1>3. CASE AdvanceEvaluations
  <2>1. \A n \in DOMAIN decisions : Advanced(decisions[n]) \in Evaluations
    <3>1. research.bar \in 1..FinalBar
      BY <1>3, <1>a DEF AdvanceEvaluations
    <3>2. \A n \in DOMAIN decisions : decisions[n] \in Evaluations
      BY <1>a
    <3> QED  BY <3>1, <3>2, RowTypes
  <2>2. decisions' = [n \in 1..Len(decisions) |-> Advanced(decisions[n])] /\ DOMAIN decisions = 1..Len(decisions)
        /\ Len(decisions) \in Nat
    BY <1>3, <1>a DEF AdvanceEvaluations
  <2>3. decisions' \in Seq(Evaluations)
    BY <2>1, <2>2
  <2> QED  BY <1>3, <1>a, <1>b, <1>m, <2>3 DEF AdvanceEvaluations
<1>4. CASE RecordDecision
  <2>1. decisions' = decisions \/ decisions' = Append(decisions, NewRow(research.bar))
    BY <1>4 DEF RecordDecision
  <2>2. decisions' \in Seq(Evaluations)
    BY <1>4, <1>a, <2>1, NewRowType DEF RecordDecision
  <2> QED  BY <1>4, <1>a, <1>b, <1>m, <2>2 DEF RecordDecision
<1>5. ASSUME NEW touch \in BOOLEAN, FollowBlocked(touch) PROVE ResearchShape'
  <2>1. \A n \in DOMAIN blocked : Followed(blocked[n], touch) \in Evaluations /\ blocked[n] \in Evaluations
    <3>1. research.bar \in 1..FinalBar
      BY <1>5, <1>a DEF FollowBlocked
    <3>2. \A n \in DOMAIN blocked : blocked[n] \in Evaluations
      BY <1>a
    <3> QED  BY <3>1, <3>2, RowTypes
  <2>2. blocked' = [n \in 1..Len(blocked) |-> IF n \in Active(blocked) THEN Followed(blocked[n], touch)
                                              ELSE blocked[n]]
        /\ DOMAIN blocked = 1..Len(blocked) /\ Len(blocked) \in Nat
    BY <1>5, <1>a DEF FollowBlocked
  <2>3. blocked' \in Seq(Evaluations)
    BY <2>1, <2>2
  <2> QED  BY <1>5, <1>a, <1>b, <1>m, <2>3 DEF FollowBlocked
<1>6. CASE BlockEntry
  <2>1. blocked' = Append(blocked, NewRow(research.bar)) /\ research.bar \in 1..FinalBar
    BY <1>6, <1>a DEF BlockEntry
  <2>2. blocked' \in Seq(Evaluations)
    BY <1>a, <2>1, NewRowType
  <2> QED  BY <1>6, <1>a, <1>b, <1>m, <2>2 DEF BlockEntry
<1>7. CASE NothingBlocked
  BY <1>7, <1>a, <1>b, <1>m DEF NothingBlocked
<1>8. CASE MoveCursor
  BY <1>8, <1>a, <1>b, <1>u, ResearchNumbers DEF MoveCursor
<1>9. CASE ResearchFails
  BY <1>9, <1>a, <1>b, <1>u, ResearchNumbers DEF ResearchFails
<1>10. CASE ResearchCut
  <2>1. Nowhere \in Engines /\ Nowhere.at = "idle"
    BY ResearchNumbers DEF Nowhere, Engines
  <2> QED  BY <1>10, <1>a, <1>b, <2>1, ResearchNumbers DEF ResearchCut
<1>11. CASE UNCHANGED researchVars
  BY <1>11, <1>a, <1>b DEF researchVars
<1> QED
  BY <1>1, <1>2, <1>3, <1>4, <1>5, <1>6, <1>7, <1>8, <1>9, <1>10, <1>11 DEF ResearchNext

(* The rows of the research ledger and the engine's plan keep their types: *)
(* every bar they name has closed (research_engine.py).                    *)
THEOREM ResearchTypeCorrect == ResearchSpec => []ResearchTypeOK
<1>1. ResearchShape => ResearchTypeOK
  BY DEF ResearchShape
<1> QED
  BY <1>1, ResearchShapeInit, ResearchShapeStep, PTL DEF ResearchSpec
-----------------------------------------------------------------------------
(* CryptoResearch: what an evaluation counts twice, or out of its order,   *)
(* has been paid for by a bar that failed or an engine that was cut.  Per  *)
(* row: the bars it holds in order, and those that a plan begun after the  *)
(* cursor may reach again, differ from its count by the breaks at most     *)

(* the bar that the engine has counted already; the bar a row counts       *)
(* first; of the bars of a row those in their order; the bars after "prev" *)
(* that a plan would count again on the row, or before its first           *)
BegunBar == IF research.at \in {"record", "follow", "decide", "cursor"} THEN {research.bar} ELSE {}

FirstBar(d) == IF d.status = "PENDING_ENTRY" THEN d.decided + 1 ELSE d.entry

InOrder(d) == {b \in d.bars : b >= FirstBar(d)}

Again(d, prev, begun) ==
  {b \in 1..FinalBar : b > prev /\ b \notin begun /\ (b \in d.bars \/ (prev > 0 /\ b < FirstBar(d)))}

RowEntered(d) ==
  /\ d.status = "PENDING_ENTRY" => d.bars = {} /\ d.held = 0
  /\ d.status # "PENDING_ENTRY" => d.entry \in d.bars /\ d.entry > d.decided
  /\ d.status = "OPEN" => d.held < Horizon

(* what was counted twice, or may still be, has been paid for by breaks *)
RowPaid(d, prev, begun, k) ==
  /\ Cardinality(d.bars) <= d.held
  /\ d.held - Cardinality(InOrder(d)) + Cardinality(Again(d, prev, begun)) <= k

RowForward(d, k) ==
  /\ k < 2 => \A b \in d.bars : b >= FirstBar(d)
  /\ d.status = "CLOSED" => d.held = Horizon /\ d.exit - d.decided >= Horizon - k

RowSound(d, prev, begun, k) == RowEntered(d) /\ RowPaid(d, prev, begun, k) /\ RowForward(d, k)

RowBehind(d, e) == d.decided <= e /\ \A b \in d.bars : b <= e

LEMMA SetsOfBars ==
  ASSUME NEW S, S \subseteq 1..FinalBar
  PROVE  /\ IsFiniteSet(S) /\ Cardinality(S) \in Nat
         /\ \A T \in SUBSET S : Cardinality(T) <= Cardinality(S)
<1>1. IsFiniteSet(1..FinalBar)
  BY ResearchNumbers, FS_Interval
<1>2. IsFiniteSet(S)
  BY <1>1, FS_Subset
<1>3. ASSUME NEW T \in SUBSET S PROVE Cardinality(T) <= Cardinality(S)
  BY <1>2, FS_Subset
<1>4. Cardinality(S) \in Nat
  BY <1>2, FS_CardinalityType
<1> QED
  BY <1>2, <1>3, <1>4

LEMMA RowNumbers ==
  ASSUME NEW d \in Evaluations
  PROVE  /\ d.decided \in 1..FinalBar /\ d.entry \in 0..FinalBar /\ d.exit \in 0..FinalBar /\ d.held \in Nat
         /\ d.status \in {"PENDING_ENTRY", "OPEN", "CLOSED"} /\ d.bars \subseteq 1..FinalBar
         /\ FirstBar(d) \in Nat
BY ResearchNumbers DEF Evaluations, FirstBar

LEMMA RowSets ==
  ASSUME NEW d \in Evaluations, NEW prev, NEW begun
  PROVE  /\ InOrder(d) \subseteq d.bars /\ InOrder(d) \subseteq 1..FinalBar
         /\ Again(d, prev, begun) \subseteq 1..FinalBar
         /\ Cardinality(d.bars) \in Nat /\ Cardinality(InOrder(d)) \in Nat
         /\ Cardinality(Again(d, prev, begun)) \in Nat
         /\ Cardinality(InOrder(d)) <= Cardinality(d.bars)
<1>1. InOrder(d) \subseteq d.bars /\ d.bars \subseteq 1..FinalBar /\ Again(d, prev, begun) \subseteq 1..FinalBar
  BY RowNumbers DEF InOrder, Again
<1> QED
  BY <1>1, SetsOfBars

(* an interruption: the bar that was being counted may be begun again *)
LEMMA RowBroken ==
  ASSUME NEW d \in Evaluations, NEW prev \in 0..FinalBar, NEW begun, NEW b \in 1..FinalBar, NEW k \in Nat,
         begun \subseteq {b}, RowSound(d, prev, begun, k)
  PROVE  RowSound(d, prev, {}, k + 1)
<1> DEFINE A == Again(d, prev, begun)
           B == Again(d, prev, {})
<1>1. B \subseteq A \union {b}
  BY DEF Again
<1>2. A \subseteq 1..FinalBar
  BY RowSets
<1> HIDE DEF A, B
<1>3. Cardinality(B) <= Cardinality(A) + 1 /\ Cardinality(B) \in Nat /\ Cardinality(A) \in Nat
  <2>1. Cardinality(A \union {b}) <= Cardinality(A) + 1 /\ Cardinality(A) \in Nat
    <3>1. IsFiniteSet(A) /\ Cardinality(A) \in Nat
      BY <1>2, SetsOfBars
    <3>2. Cardinality(A \union {b}) = IF b \in A THEN Cardinality(A) ELSE Cardinality(A) + 1
      BY <3>1, FS_AddElement
    <3> QED  BY <3>1, <3>2
  <2>2. A \union {b} \subseteq 1..FinalBar
    BY <1>2
  <2>3. Cardinality(B) <= Cardinality(A \union {b}) /\ Cardinality(A \union {b}) \in Nat
    BY <1>1, <2>2, SetsOfBars
  <2>4. Cardinality(B) \in Nat
    BY <1>1, <2>2, SetsOfBars
  <2> QED  BY <2>1, <2>3, <2>4
<1>4. Cardinality(d.bars) \in Nat /\ Cardinality(InOrder(d)) \in Nat
  BY RowSets
<1>5. d.held \in Nat /\ d.exit \in 0..FinalBar /\ d.decided \in 1..FinalBar
  BY RowNumbers
<1>6. RowPaid(d, prev, {}, k + 1)
  BY <1>3, <1>4, <1>5 DEF RowSound, RowPaid, A, B
<1>7. RowForward(d, k + 1)
  BY <1>5, ResearchNumbers DEF RowSound, RowForward
<1> QED
  BY <1>6, <1>7 DEF RowSound

(* the cursor moves: what it passed will not be begun again *)
LEMMA RowPassed ==
  ASSUME NEW d \in Evaluations, NEW prev \in 0..FinalBar, NEW b \in 1..FinalBar, NEW k \in Nat,
         RowSound(d, prev, {b}, k), b > prev, prev = 0 => RowBehind(d, b)
  PROVE  RowSound(d, b, {}, k)
<1> DEFINE A == Again(d, prev, {b})
           B == Again(d, b, {})
<1>1. B \subseteq A
  <2>1. CASE prev > 0
    BY <2>1, RowNumbers DEF Again
  <2>2. CASE prev = 0
    <3>1. RowBehind(d, b)
      BY <2>2
    <3>2. FirstBar(d) <= b + 1
      BY <3>1, RowNumbers DEF FirstBar, RowSound, RowEntered, RowBehind
    <3>3. B = {}
      BY <3>1, <3>2, RowNumbers DEF Again, RowBehind
    <3> QED  BY <3>3
  <2> QED  BY <2>1, <2>2
<1>2. A \subseteq 1..FinalBar
  BY RowSets
<1> HIDE DEF A, B
<1>3. Cardinality(B) <= Cardinality(A) /\ Cardinality(B) \in Nat /\ Cardinality(A) \in Nat
  BY <1>1, <1>2, SetsOfBars
<1>4. Cardinality(d.bars) \in Nat /\ Cardinality(InOrder(d)) \in Nat /\ d.held \in Nat
  BY RowSets, RowNumbers
<1>5. RowPaid(d, b, {}, k)
  BY <1>3, <1>4 DEF RowSound, RowPaid, A, B
<1> QED
  BY <1>5 DEF RowSound

(* the bars that a plan begun after "prev" failed on before b *)
LEMMA Skipped ==
  ASSUME NEW S, NEW prev \in 0..FinalBar, NEW b \in 1..FinalBar, NEW k \in Nat, b > prev,
         prev > 0 => b - 1 - prev <= k,
         \A c \in S : prev > 0 /\ c \in Nat /\ c > prev /\ c < b
  PROVE  Cardinality(S) \in Nat /\ Cardinality(S) <= k
<1>1. CASE prev = 0
  <2>1. S = {}
    BY <1>1
  <2> QED  BY <2>1, FS_EmptySet
<1>2. CASE prev > 0
  <2>1. S \subseteq (prev + 1)..(b - 1) /\ prev + 1 \in Int /\ b - 1 \in Int
    BY <1>2
  <2>2. IsFiniteSet((prev + 1)..(b - 1)) /\ Cardinality((prev + 1)..(b - 1)) <= k
    <3>1. /\ IsFiniteSet((prev + 1)..(b - 1))
          /\ Cardinality((prev + 1)..(b - 1)) = IF prev + 1 > b - 1 THEN 0 ELSE (b - 1) - (prev + 1) + 1
      BY <2>1, FS_Interval
    <3> QED  BY <1>2, <3>1
  <2>3. Cardinality(S) <= Cardinality((prev + 1)..(b - 1)) /\ Cardinality(S) \in Nat
        /\ Cardinality((prev + 1)..(b - 1)) \in Nat
    BY <2>1, <2>2, FS_Subset, FS_CardinalityType
  <2> QED  BY <2>2, <2>3
<1> QED  BY <1>1, <1>2

LEMMA RowRecorded ==
  ASSUME NEW prev \in 0..FinalBar, NEW b \in 1..FinalBar, NEW k \in Nat, b > prev,
         prev > 0 => b - 1 - prev <= k
  PROVE  RowSound(NewRow(b), prev, {b}, k)
<1> DEFINE d == NewRow(b)
<1>1. d.status = "PENDING_ENTRY" /\ d.bars = {} /\ d.held = 0 /\ d.decided = b /\ FirstBar(d) = b + 1
      /\ InOrder(d) = {}
  BY DEF NewRow, FirstBar, InOrder
<1> HIDE DEF d
<1>2. \A c \in Again(d, prev, {b}) : prev > 0 /\ c \in Nat /\ c > prev /\ c < b
  BY <1>1 DEF Again
<1>3. Cardinality(Again(d, prev, {b})) \in Nat /\ Cardinality(Again(d, prev, {b})) <= k
  BY <1>2, Skipped
<1>4. RowPaid(d, prev, {b}, k)
  BY <1>1, <1>3, FS_EmptySet DEF RowPaid
<1>5. RowEntered(d) /\ RowForward(d, k)
  BY <1>1 DEF RowEntered, RowForward
<1> QED
  BY <1>4, <1>5 DEF RowSound, d

(* what the bar b makes of a row that does not wait for a later one *)
Booked(d, b) ==
  [decided |-> d.decided,
   status  |-> IF d.held + 1 < Horizon THEN "OPEN" ELSE "CLOSED",
   entry   |-> IF d.status = "PENDING_ENTRY" THEN b ELSE d.entry,
   exit    |-> IF d.held + 1 < Horizon THEN d.exit ELSE b,
   held    |-> d.held + 1,
   bars    |-> d.bars \union {b}]

LEMMA AdvancedIsBooked ==
  ASSUME NEW d \in Evaluations, ~Waits(d)
  PROVE  Advanced(d) = Booked(d, research.bar)
<1> DEFINE b == research.bar
<1>a. /\ d.held \in Nat /\ d.status \in {"PENDING_ENTRY", "OPEN"}
      /\ d = [decided |-> d.decided, status |-> d.status, entry |-> d.entry, exit |-> d.exit, held |-> d.held,
              bars |-> d.bars]
  BY DEF Evaluations, Waits
<1>1. PICK e : e = EnteredRow(d)
  OBVIOUS
<1>2. e = [decided |-> d.decided, status |-> "OPEN",
           entry |-> IF d.status = "PENDING_ENTRY" THEN b ELSE d.entry, exit |-> d.exit, held |-> d.held,
           bars |-> d.bars]
  <2>1. CASE d.status = "PENDING_ENTRY"
    BY <1>1, <1>a, <2>1 DEF EnteredRow
  <2>2. CASE d.status = "OPEN"
    BY <1>1, <1>a, <2>2 DEF EnteredRow
  <2> QED  BY <1>a, <2>1, <2>2
<1>3. PICK f : f = Counted(e)
  OBVIOUS
<1>4. f = [decided |-> d.decided, status |-> "OPEN",
           entry |-> IF d.status = "PENDING_ENTRY" THEN b ELSE d.entry, exit |-> d.exit, held |-> d.held + 1,
           bars |-> d.bars \union {b}]
  BY <1>2, <1>3 DEF Counted
<1>5. Advanced(d) = IF f.held < Horizon THEN f ELSE [f EXCEPT !.status = "CLOSED", !.exit = b]
  BY <1>1, <1>3 DEF Advanced
<1>6. CASE d.held + 1 < Horizon
  BY <1>4, <1>5, <1>6 DEF Booked
<1>7. CASE ~(d.held + 1 < Horizon)
  BY <1>4, <1>5, <1>7 DEF Booked
<1> QED  BY <1>6, <1>7

(* where the engine is when it counts a bar, after the cursor *)
LEMMA RowBegun ==
  ASSUME NEW d \in Evaluations, NEW prev \in 0..FinalBar, NEW b \in 1..FinalBar, NEW k \in Nat,
         RowSound(d, prev, {}, k), b > prev, prev > 0 => b - 1 - prev <= k, prev = 0 => RowBehind(d, b)
  PROVE  RowSound(d, prev, {b}, k)
<1>1. Again(d, prev, {b}) \subseteq Again(d, prev, {}) /\ Again(d, prev, {}) \subseteq 1..FinalBar
  BY DEF Again
<1>2. Cardinality(Again(d, prev, {b})) <= Cardinality(Again(d, prev, {}))
  BY <1>1, SetsOfBars
<1>3. /\ Cardinality(Again(d, prev, {b})) \in Nat /\ Cardinality(Again(d, prev, {})) \in Nat
      /\ Cardinality(InOrder(d)) \in Nat /\ d.held \in Nat
  BY RowSets, RowNumbers
<1>4. RowPaid(d, prev, {b}, k)
  BY <1>2, <1>3 DEF RowSound, RowPaid
<1> QED  BY <1>4 DEF RowSound

LEMMA EntryBooked ==
  ASSUME NEW d \in Evaluations, NEW prev \in 0..FinalBar, NEW b \in 1..FinalBar, NEW k \in Nat,
         RowSound(d, prev, {}, k), b > prev, prev > 0 => b - 1 - prev <= k,
         d.status = "PENDING_ENTRY", d.decided < b, Booked(d, b) \in Evaluations
  PROVE  RowSound(Booked(d, b), prev, {b}, k)
<1>a. d.bars = {} /\ d.held = 0 /\ d.decided \in 1..FinalBar /\ Horizon \in Nat /\ Horizon > 0
  BY RowNumbers, ResearchAssumption DEF RowSound, RowEntered, ResearchAssumption
<1>1. PICK f : f = Booked(d, b)
  OBVIOUS
<1>2. f = [decided |-> d.decided, status |-> IF 1 < Horizon THEN "OPEN" ELSE "CLOSED", entry |-> b,
           exit |-> IF 1 < Horizon THEN d.exit ELSE b, held |-> 1, bars |-> {b}]
  BY <1>1, <1>a DEF Booked
<1>3. FirstBar(f) = b /\ f.bars = {b} /\ f.held = 1 /\ f.status # "PENDING_ENTRY"
  BY <1>2 DEF FirstBar
<1>4. InOrder(f) = {b}
  BY <1>3 DEF InOrder
<1>5. \A c \in Again(f, prev, {b}) : prev > 0 /\ c \in Nat /\ c > prev /\ c < b
  BY <1>3 DEF Again
<1>6. Cardinality(Again(f, prev, {b})) \in Nat /\ Cardinality(Again(f, prev, {b})) <= k
  BY <1>5, Skipped
<1>7. Cardinality({b}) = 1
  BY FS_Singleton
<1>8. RowPaid(f, prev, {b}, k)
  BY <1>3, <1>4, <1>6, <1>7 DEF RowPaid
<1>9. RowEntered(f)
  BY <1>2, <1>a DEF RowEntered
<1>10. RowForward(f, k)
  <2>1. \A c \in f.bars : c >= FirstBar(f)
    BY <1>3
  <2>2. f.status = "CLOSED" => f.held = Horizon /\ f.exit - f.decided >= Horizon - k
    BY <1>2, <1>a
  <2> QED  BY <2>1, <2>2 DEF RowForward
<1> QED
  BY <1>1, <1>8, <1>9, <1>10 DEF RowSound

LEMMA OpenBooked ==
  ASSUME NEW d \in Evaluations, NEW prev \in 0..FinalBar, NEW b \in 1..FinalBar, NEW k \in Nat,
         RowSound(d, prev, {}, k), b > prev, prev = 0 => RowBehind(d, b),
         d.status = "OPEN", Booked(d, b) \in Evaluations
  PROVE  RowSound(Booked(d, b), prev, {b}, k)
<1>a. /\ d.held \in Nat /\ d.held < Horizon /\ d.entry \in d.bars /\ d.entry > d.decided
      /\ d.entry \in 1..FinalBar /\ d.decided \in 1..FinalBar /\ d.exit \in 0..FinalBar
      /\ FirstBar(d) = d.entry /\ d.bars \subseteq 1..FinalBar
  BY RowNumbers DEF RowSound, RowEntered, FirstBar
<1>n. Horizon \in Nat /\ FinalBar \in Nat
  BY ResearchNumbers
<1>1. PICK f : f = Booked(d, b)
  OBVIOUS
<1>2. f = [decided |-> d.decided, status |-> IF d.held + 1 < Horizon THEN "OPEN" ELSE "CLOSED", entry |-> d.entry,
           exit |-> IF d.held + 1 < Horizon THEN d.exit ELSE b, held |-> d.held + 1, bars |-> d.bars \union {b}]
  BY <1>1 DEF Booked
<1>3. FirstBar(f) = d.entry /\ f.status # "PENDING_ENTRY" /\ f.bars = d.bars \union {b} /\ f.held = d.held + 1
      /\ f.decided = d.decided /\ f \in Evaluations
  BY <1>1, <1>2 DEF FirstBar
<1> DEFINE A == Again(d, prev, {})
           B == Again(f, prev, {b})
           G == InOrder(d)
           H == InOrder(f)
<1>4. B \subseteq A \ {b} /\ A \subseteq 1..FinalBar
  BY <1>a, <1>3 DEF Again
<1>5. G \subseteq H /\ H \subseteq 1..FinalBar /\ G \subseteq d.bars
  BY <1>a, <1>3 DEF InOrder
<1>6. b >= d.entry => H = G \union {b}
  BY <1>a, <1>3 DEF InOrder
<1>7. b \in G => b \in A
  BY <1>a DEF Again, InOrder
<1>8. b < d.entry => b \in A /\ d.entry \in A /\ prev > 0
  <2>1. b < d.entry => prev > 0
    BY <1>a DEF RowBehind
  <2> QED
    BY <1>a, <2>1 DEF Again
<1>9. \A x \in H : x > d.decided /\ x \in Nat /\ (x > b => x \in B)
  BY <1>a, <1>3 DEF InOrder, Again
<1>10. ASSUME b < d.decided, NEW c \in (b + 1)..d.decided PROVE c \in B /\ c \notin H
  <2>1. c \in Nat /\ c > b /\ c <= d.decided /\ c < d.entry /\ c \in 1..FinalBar
    BY <1>10, <1>a, <1>n
  <2>2. prev > 0 /\ c > prev /\ c \notin {b}
    BY <1>10, <1>a, <1>8, <2>1
  <2>3. c \in B
    BY <1>3, <2>1, <2>2 DEF Again
  <2>4. c \notin H
    BY <1>3, <2>1, <1>a DEF InOrder
  <2> QED  BY <2>3, <2>4
<1>11. Cardinality(d.bars) <= d.held /\ d.held - Cardinality(G) + Cardinality(A) <= k
       /\ Cardinality(G) <= Cardinality(d.bars)
  BY RowSets DEF RowSound, RowPaid
<1> HIDE DEF A, B, G, H
<1>12. /\ IsFiniteSet(A) /\ IsFiniteSet(B) /\ IsFiniteSet(G) /\ IsFiniteSet(H)
       /\ Cardinality(A) \in Nat /\ Cardinality(B) \in Nat /\ Cardinality(G) \in Nat /\ Cardinality(H) \in Nat
       /\ Cardinality(d.bars) \in Nat
  <2>1. B \subseteq 1..FinalBar /\ G \subseteq 1..FinalBar
    BY <1>4, <1>5
  <2> QED
    BY <1>4, <1>5, <1>a, <2>1, SetsOfBars
<1>13. Cardinality(B) <= IF b \in A THEN Cardinality(A) - 1 ELSE Cardinality(A)
  <2>1. IsFiniteSet(A \ {b}) /\ Cardinality(A \ {b}) = IF b \in A THEN Cardinality(A) - 1 ELSE Cardinality(A)
    BY <1>12, FS_RemoveElement
  <2>2. Cardinality(B) <= Cardinality(A \ {b})
    BY <1>4, <2>1, FS_Subset
  <2> QED  BY <2>1, <2>2
<1>14. Cardinality(G) <= Cardinality(H) /\ (b \notin A => Cardinality(H) = Cardinality(G) + 1)
  <2>1. Cardinality(G) <= Cardinality(H)
    BY <1>5, <1>12, FS_Subset
  <2>2. ASSUME b \notin A PROVE Cardinality(H) = Cardinality(G) + 1
    <3>1. b >= d.entry
      BY <1>8, <1>a, <2>2
    <3>2. b \notin G /\ H = G \union {b}
      BY <1>6, <1>7, <2>2, <3>1
    <3> QED  BY <3>2, <1>12, FS_AddElement
  <2> QED  BY <2>1, <2>2
<1>15. d.held + 1 - Cardinality(H) + Cardinality(B) <= k
  <2>1. CASE b \in A
    <3>1. Cardinality(B) <= Cardinality(A) - 1
      BY <1>13, <2>1
    <3> QED  BY <1>11, <1>12, <1>14, <1>a, <3>1
  <2>2. CASE b \notin A
    <3>1. Cardinality(B) <= Cardinality(A)
      BY <1>13, <2>2
    <3>2. Cardinality(H) = Cardinality(G) + 1
      BY <1>14, <2>2
    <3> QED  BY <1>11, <1>12, <1>a, <3>1, <3>2
  <2> QED  BY <2>1, <2>2
<1>16. Cardinality(f.bars) <= d.held + 1
  <2>1. IsFiniteSet(d.bars)
    BY <1>a, SetsOfBars
  <2>2. Cardinality(d.bars \union {b}) = IF b \in d.bars THEN Cardinality(d.bars) ELSE Cardinality(d.bars) + 1
    BY <2>1, FS_AddElement
  <2> QED  BY <1>3, <1>11, <1>12, <1>a, <2>2
<1>17. RowPaid(f, prev, {b}, k)
  BY <1>3, <1>15, <1>16, <1>a, <1>12 DEF RowPaid, B, H
<1>18. RowEntered(f)
  BY <1>2, <1>a, <1>n DEF RowEntered
<1>19. k < 2 => \A x \in f.bars : x >= FirstBar(f)
  <2>1. ASSUME k < 2 PROVE \A x \in d.bars : x >= d.entry
    BY <2>1, <1>a DEF RowSound, RowForward
  <2>2. ASSUME b < d.entry PROVE k >= 2
    <3>1. b \in A /\ d.entry \in A /\ b # d.entry
      BY <2>2, <1>8, <1>a
    <3>2. Cardinality({b}) = 1 /\ IsFiniteSet({b})
      BY FS_Singleton
    <3>3. Cardinality({b} \union {d.entry}) = 2
      <4>1. Cardinality({b} \union {d.entry}) =
              IF d.entry \in {b} THEN Cardinality({b}) ELSE Cardinality({b}) + 1
        BY <3>2, FS_AddElement
      <4> QED  BY <3>1, <3>2, <4>1
    <3>4. {b} \union {d.entry} \subseteq A
      BY <3>1
    <3>5. Cardinality({b} \union {d.entry}) <= Cardinality(A)
      BY <1>12, <3>4, FS_Subset
    <3>6. PICK x \in Nat, g \in Nat, n \in Nat, h \in Nat :
            x = Cardinality(A) /\ g = Cardinality(G) /\ n = Cardinality(d.bars) /\ h = d.held
      BY <1>12, <1>a
    <3>7. 2 <= x /\ n <= h /\ h - g + x <= k /\ g <= n
      BY <1>11, <3>3, <3>5, <3>6
    <3> QED  BY <3>7
  <2> QED  BY <1>3, <1>a, <2>1, <2>2
<1>20. ASSUME f.status = "CLOSED" PROVE f.held = Horizon /\ f.exit - f.decided >= Horizon - k
  <2>1. d.held + 1 = Horizon /\ f.exit = b
    BY <1>2, <1>20, <1>a, <1>n
  <2>2. Cardinality(H) <= b - d.decided + Cardinality(B)
    <3>1. CASE b >= d.decided
      <4> DEFINE T == (d.decided + 1)..b
      <4>1. IsFiniteSet(T) /\ Cardinality(T) = b - d.decided
        <5>1. IsFiniteSet(T) /\ Cardinality(T) = IF d.decided + 1 > b THEN 0 ELSE b - (d.decided + 1) + 1
          <6>1. d.decided + 1 \in Int /\ b \in Int
            BY <1>a
          <6> QED  BY <6>1, FS_Interval
        <5> QED  BY <1>a, <3>1, <5>1
      <4>2. H \subseteq T \union B
        BY <1>9, <1>a
      <4> HIDE DEF T
      <4>3. IsFiniteSet(T \union B) /\ Cardinality(T \union B) <= Cardinality(T) + Cardinality(B)
        <5>1. /\ IsFiniteSet(T \union B)
              /\ Cardinality(T \union B) = Cardinality(T) + Cardinality(B) - Cardinality(T \cap B)
          BY <1>12, <4>1, FS_Union
        <5>2. IsFiniteSet(T \cap B)
          BY <4>1, FS_Subset
        <5>3. Cardinality(T \cap B) \in Nat /\ Cardinality(T) \in Nat
          BY <4>1, <5>2, FS_CardinalityType
        <5> QED  BY <5>1, <5>3, <1>12
      <4>4. Cardinality(H) <= Cardinality(T \union B) /\ Cardinality(T \union B) \in Nat
        BY <4>2, <4>3, FS_Subset, FS_CardinalityType
      <4> QED  BY <4>1, <4>3, <4>4, <1>12, <1>a
    <3>2. CASE b < d.decided
      <4> DEFINE T == (b + 1)..d.decided
      <4>1. IsFiniteSet(T) /\ Cardinality(T) = d.decided - b
        <5>1. IsFiniteSet(T) /\ Cardinality(T) = IF b + 1 > d.decided THEN 0 ELSE d.decided - (b + 1) + 1
          <6>1. b + 1 \in Int /\ d.decided \in Int
            BY <1>a
          <6> QED  BY <6>1, FS_Interval
        <5> QED  BY <1>a, <3>2, <5>1
      <4>2. T \subseteq B /\ T \cap H = {} /\ H \subseteq B
        BY <1>9, <1>10, <1>a, <3>2
      <4> HIDE DEF T
      <4>3. Cardinality(H \union T) = Cardinality(H) + Cardinality(T)
        <5>1. Cardinality(H \union T) = Cardinality(H) + Cardinality(T) - Cardinality(H \cap T)
          BY <1>12, <4>1, FS_Union
        <5>2. Cardinality(H \cap T) = 0
          <6>1. H \cap T = {}
            BY <4>2
          <6> QED  BY <6>1, FS_EmptySet
        <5>3. Cardinality(T) \in Nat /\ Cardinality(H) \in Nat
          BY <1>12, <4>1, FS_CardinalityType
        <5> QED  BY <5>1, <5>2, <5>3
      <4>4. Cardinality(H \union T) <= Cardinality(B)
        <5>1. H \union T \subseteq B
          BY <4>2
        <5> QED  BY <5>1, <1>12, FS_Subset
      <4> QED  BY <4>1, <4>3, <4>4, <1>12, <1>a
    <3> QED  BY <3>1, <3>2, <1>a
  <2> QED  BY <2>1, <2>2, <1>3, <1>12, <1>15, <1>a, <1>n
<1> QED
  BY <1>1, <1>17, <1>18, <1>19, <1>20 DEF RowSound, RowForward

(* the engine counts bar b on every row *)
LEMMA RowAdvanced ==
  ASSUME NEW d \in Evaluations, NEW prev \in 0..FinalBar, NEW k \in Nat, research.bar \in 1..FinalBar,
         RowSound(d, prev, {}, k), research.bar > prev, prev > 0 => research.bar - 1 - prev <= k,
         prev = 0 => RowBehind(d, research.bar)
  PROVE  RowSound(Advanced(d), prev, {research.bar}, k)
<1> DEFINE b == research.bar
<1>b. b \in 1..FinalBar
  OBVIOUS
<1>1. CASE Waits(d)
  <2>1. Advanced(d) = d
    BY <1>1 DEF Advanced
  <2> QED
    BY <2>1, RowBegun
<1>2. CASE ~Waits(d)
  <2>1. Advanced(d) = Booked(d, b) /\ Advanced(d) \in Evaluations
    BY <1>2, AdvancedIsBooked, RowTypes
  <2>2. (d.status = "PENDING_ENTRY" /\ d.decided < b) \/ d.status = "OPEN"
    BY <1>2, RowNumbers DEF Waits
  <2>3. Booked(d, b) \in Evaluations
    BY <2>1
  <2>4. CASE d.status = "PENDING_ENTRY" /\ d.decided < b
    BY <2>1, <2>3, <2>4, EntryBooked
  <2>5. CASE d.status = "OPEN"
    BY <2>1, <2>3, <2>5, OpenBooked
  <2> QED  BY <2>2, <2>4, <2>5
<1> QED  BY <1>1, <1>2

RowsSound == \A n \in DOMAIN decisions : RowSound(decisions[n], cursor, BegunBar, breaks)

RowsBehind == \A n \in DOMAIN decisions : RowBehind(decisions[n], ended)

(* the engine that has no cursor yet processes the last bar only *)
FirstBarIsLast ==
  cursor = 0 /\ research.at # "idle" =>
    research.plan = {} /\ \A n \in DOMAIN decisions : RowBehind(decisions[n], research.bar)

GapsAreBreaks ==
  research.at # "idle" =>
    /\ research.bar > cursor /\ research.bar <= ended
    /\ cursor > 0 => research.bar - 1 - cursor <= breaks

Runs(plan, b, e) == \A c \in plan : c > b /\ c <= e /\ (c = b + 1 \/ c - 1 \in plan)

PlanRuns ==
  /\ research.at = "idle" => research.plan = {}
  /\ Runs(research.plan, research.bar, ended)

DecidedOnce ==
  /\ research.at # "idle" => since # -1
  /\ decisions # <<>> => since # -1
  /\ \A n \in DOMAIN decisions : decisions[n].decided > since
  /\ \A n, m \in DOMAIN decisions : n # m => decisions[n].decided # decisions[m].decided

EvidenceInv ==
  /\ ResearchShape /\ RowsSound /\ RowsBehind /\ FirstBarIsLast
  /\ GapsAreBreaks /\ PlanRuns /\ DecidedOnce

LEMMA Onward ==
  ASSUME NEW e \in 0..FinalBar, NEW b \in 0..FinalBar, NEW plan \in SUBSET (1..FinalBar), Runs(plan, b, e)
  PROVE  /\ plan = {} => Upcoming(plan) = Nowhere
         /\ plan # {} =>
              /\ Upcoming(plan) = [at |-> "advance", bar |-> b + 1, plan |-> plan \ {b + 1}]
              /\ b + 1 \in plan /\ Runs(plan \ {b + 1}, b + 1, e)
<1>1. CASE plan = {}
  BY <1>1 DEF Upcoming
<1>2. CASE plan # {}
  <2>a. plan \subseteq Nat /\ b \in Nat /\ e \in Nat
    BY ResearchNumbers
  <2>1. \E x \in plan : \A c \in plan : x <= c
    BY <1>2, <2>a, LeastOf
  <2>2. PICK x \in plan : /\ \A c \in plan : x <= c
                          /\ Upcoming(plan) = [at |-> "advance", bar |-> x, plan |-> plan \ {x}]
    BY <1>2, <2>1 DEF Upcoming
  <2>3. x = b + 1
    <3>1. x \in Nat /\ x > b /\ (x = b + 1 \/ x - 1 \in plan)
      BY <2>a DEF Runs
    <3>2. ~(x - 1 \in plan)
      BY <2>2, <3>1
    <3> QED  BY <3>1, <3>2
  <2>4. Runs(plan \ {b + 1}, b + 1, e)
    <3> SUFFICES ASSUME NEW c \in plan \ {b + 1}
                 PROVE  c > b + 1 /\ c <= e /\ (c = b + 1 + 1 \/ c - 1 \in plan \ {b + 1})
      BY DEF Runs
    <3>1. c \in Nat /\ c > b /\ c <= e /\ (c = b + 1 \/ c - 1 \in plan)
      BY <2>a DEF Runs
    <3> QED  BY <3>1, <2>a
  <2> QED  BY <1>2, <2>2, <2>3, <2>4
<1> QED  BY <1>1, <1>2

LEMMA EvidenceInit == ResearchInit => EvidenceInv
<1> SUFFICES ASSUME ResearchInit PROVE EvidenceInv
  OBVIOUS
<1>1. ResearchShape
  BY ResearchShapeInit
<1>2. decisions = <<>> /\ DOMAIN decisions = {} /\ research.at = "idle" /\ research.plan = {}
  BY DEF ResearchInit, Nowhere
<1> QED
  BY <1>1, <1>2 DEF EvidenceInv, RowsSound, RowsBehind, FirstBarIsLast, GapsAreBreaks, PlanRuns, Runs, DecidedOnce

(* a step on the way of the same bar, and one to another bar or to none *)
LEMMA EvidenceStep == EvidenceInv /\ [ResearchNext]_researchVars => EvidenceInv'
<1> SUFFICES ASSUME EvidenceInv, [ResearchNext]_researchVars PROVE EvidenceInv'
  OBVIOUS
<1>s. ResearchShape'
  BY ResearchShapeStep DEF EvidenceInv
<1>a. /\ ended \in 0..FinalBar /\ cursor \in 0..FinalBar /\ since \in -1..FinalBar
      /\ decisions \in Seq(Evaluations) /\ breaks \in Nat /\ ended \in Nat /\ cursor \in Nat
      /\ research.at \in {"idle", "advance", "record", "follow", "decide", "cursor"}
      /\ research.bar \in 0..FinalBar /\ research.plan \in SUBSET (1..FinalBar)
      /\ research = [at |-> research.at, bar |-> research.bar, plan |-> research.plan]
      /\ (research.at # "idle" => research.bar \in 1..FinalBar)
  BY ResearchNumbers DEF EvidenceInv, ResearchShape, ResearchTypeOK, BarOfPlan
<1>r. \A n \in DOMAIN decisions :
         /\ decisions[n] \in Evaluations /\ RowSound(decisions[n], cursor, BegunBar, breaks)
         /\ RowBehind(decisions[n], ended)
  BY <1>a DEF EvidenceInv, RowsSound, RowsBehind
<1>c. /\ FirstBarIsLast /\ GapsAreBreaks /\ PlanRuns /\ DecidedOnce
      /\ Runs(research.plan, research.bar, ended)
  BY DEF EvidenceInv, PlanRuns
<1>b. ASSUME RowsSound', RowsBehind', FirstBarIsLast', GapsAreBreaks', PlanRuns', DecidedOnce'
      PROVE  EvidenceInv'
  BY <1>b, <1>s DEF EvidenceInv
<1>n. FinalBar \in Nat
  BY ResearchNumbers
(* on to another place of the same bar, the rows untouched *)
<1>m. ASSUME NEW at \in {"follow", "decide", "cursor"}, research.at \in {"record", "follow", "decide"},
             research' = [research EXCEPT !.at = at], UNCHANGED <<ended, cursor, since, decisions, breaks>>
      PROVE  EvidenceInv'
  <2>1. research'.at = at /\ research'.bar = research.bar /\ research'.plan = research.plan
    BY <1>m, <1>a
  <2>2. BegunBar' = BegunBar
    BY <1>m, <2>1 DEF BegunBar
  <2>3. RowsSound' /\ RowsBehind'
    BY <1>m, <1>r, <2>2 DEF RowsSound, RowsBehind
  <2>4. FirstBarIsLast' /\ GapsAreBreaks' /\ PlanRuns' /\ DecidedOnce'
    BY <1>m, <1>c, <2>1 DEF FirstBarIsLast, GapsAreBreaks, PlanRuns, DecidedOnce
  <2> QED  BY <1>b, <2>3, <2>4
(* to the next bar of the plan or to none *)
<1>o. ASSUME NEW plan \in SUBSET (1..FinalBar), NEW b \in 0..FinalBar, Runs(plan, b, ended),
             research' = Upcoming(plan), UNCHANGED <<ended, decisions>>, RowsSound', DecidedOnce',
             b >= cursor', cursor' \in Nat, cursor' > 0 => b - cursor' <= breaks', breaks' \in Nat,
             cursor' = 0 => plan \subseteq {ended}
      PROVE  EvidenceInv'
  <2>1. CASE plan = {}
    <3>1. research' = Nowhere
      BY <1>o, <1>a, <2>1, Onward
    <3>2. research'.at = "idle" /\ research'.plan = {}
      BY <3>1 DEF Nowhere
    <3>3. FirstBarIsLast' /\ GapsAreBreaks' /\ PlanRuns'
      BY <3>2 DEF FirstBarIsLast, GapsAreBreaks, PlanRuns, Runs
    <3>4. RowsBehind'
      BY <1>o, <1>r DEF RowsBehind
    <3> QED  BY <1>o, <1>b, <3>3, <3>4
  <2>2. CASE plan # {}
    <3>1. /\ research' = [at |-> "advance", bar |-> b + 1, plan |-> plan \ {b + 1}]
          /\ b + 1 \in plan /\ Runs(plan \ {b + 1}, b + 1, ended)
      <4>1. ended \in 0..FinalBar
        BY <1>a
      <4> QED  BY <1>o, <2>2, <4>1, Onward
    <3>2. research'.at = "advance" /\ research'.bar = b + 1 /\ research'.plan = plan \ {b + 1} /\ b + 1 <= ended
      BY <3>1, <1>o DEF Runs
    <3>3. RowsBehind'
      BY <1>o, <1>r DEF RowsBehind
    <3>4. FirstBarIsLast'
      <4>1. ASSUME cursor' = 0 PROVE plan = {ended} /\ b + 1 = ended
        BY <1>o, <3>1, <4>1
      <4> QED
        BY <1>o, <1>r, <3>2, <4>1 DEF FirstBarIsLast
    <3>5. GapsAreBreaks'
      BY <1>o, <1>n, <3>2 DEF GapsAreBreaks
    <3>6. PlanRuns'
      BY <1>o, <3>1, <3>2 DEF PlanRuns
    <3> QED  BY <1>o, <1>b, <3>3, <3>4, <3>5, <3>6
  <2> QED  BY <2>1, <2>2
(* an interruption *)
<1>k. ASSUME breaks' = breaks + 1, UNCHANGED <<cursor, decisions>>, research'.at \in {"idle", "advance"},
             research.at # "idle"
      PROVE  RowsSound'
  <2>1. BegunBar' = {} /\ BegunBar \subseteq {research.bar} /\ research.bar \in 1..FinalBar
    BY <1>k, <1>a DEF BegunBar
  <2>2. ASSUME NEW n \in DOMAIN decisions PROVE RowSound(decisions[n], cursor, {}, breaks + 1)
    <3>1. decisions[n] \in Evaluations /\ RowSound(decisions[n], cursor, BegunBar, breaks)
      BY <1>r
    <3> QED  BY <1>a, <2>1, <3>1, RowBroken
  <2> QED  BY <1>k, <2>1, <2>2 DEF RowsSound
<1>u. ASSUME NEW plan \in SUBSET (1..FinalBar) PROVE Upcoming(plan).at \in {"idle", "advance"}
  BY DEF Upcoming, Nowhere
<1>1. CASE BarEnds
  <2>1. ended' = ended + 1 /\ UNCHANGED <<cursor, since, decisions, research, breaks>> /\ BegunBar' = BegunBar
    BY <1>1 DEF BarEnds, BegunBar
  <2>2. RowsSound'
    BY <1>r, <2>1 DEF RowsSound
  <2>3. RowsBehind'
    <3>1. ASSUME NEW n \in DOMAIN decisions PROVE RowBehind(decisions[n], ended + 1)
      <4>1. decisions[n] \in Evaluations /\ RowBehind(decisions[n], ended)
        BY <1>r
      <4> QED  BY <1>a, <1>n, <4>1, RowNumbers, SMTT(30) DEF RowBehind
    <3> QED  BY <2>1, <3>1 DEF RowsBehind
  <2>4. FirstBarIsLast' /\ DecidedOnce'
    BY <1>c, <2>1 DEF FirstBarIsLast, DecidedOnce
  <2>5. GapsAreBreaks'
    BY <1>a, <1>c, <2>1 DEF GapsAreBreaks
  <2>6. PlanRuns'
    <3>1. Runs(research.plan, research.bar, ended + 1)
      BY <1>a, <1>c, <1>n DEF Runs
    <3> QED  BY <1>c, <2>1, <3>1 DEF PlanRuns
  <2> QED  BY <1>b, <2>2, <2>3, <2>4, <2>5, <2>6
<1>2. CASE StartResearch
  <2> DEFINE plan == IF cursor = 0 THEN {ended} ELSE (cursor + 1)..ended
             b == IF cursor = 0 THEN ended - 1 ELSE cursor
  <2>1. /\ research.at = "idle" /\ ended > cursor /\ research' = Upcoming(plan)
        /\ UNCHANGED <<ended, cursor, decisions, breaks>>
        /\ since' = IF since = -1 THEN ended ELSE since
    BY <1>2 DEF StartResearch
  <2>2. plan \in SUBSET (1..FinalBar) /\ b \in 0..FinalBar /\ Runs(plan, b, ended)
        /\ b >= cursor /\ (cursor > 0 => b - cursor <= breaks) /\ (cursor = 0 => plan \subseteq {ended})
    <3>1. CASE cursor = 0
      BY <1>a, <1>n, <2>1, <3>1 DEF Runs
    <3>2. CASE cursor > 0
      <4>1. plan = (cursor + 1)..ended /\ b = cursor
        BY <3>2
      <4>2. \A c \in plan : c \in Nat /\ c > b /\ c <= ended /\ (c = b + 1 \/ c - 1 \in plan)
        BY <1>a, <4>1
      <4>3. Runs(plan, b, ended)
        BY <4>2 DEF Runs
      <4> HIDE DEF plan, b
      <4> QED  BY <1>a, <1>n, <3>2, <4>1, <4>3
    <3> QED  BY <1>a, <3>1, <3>2
  <2> HIDE DEF plan, b
  <2>3. RowsSound'
    <3>1. BegunBar = {} /\ BegunBar' = {}
      BY <1>u, <2>1, <2>2 DEF BegunBar
    <3> QED  BY <1>r, <2>1, <3>1 DEF RowsSound
  <2>4. DecidedOnce'
    <3>1. since' # -1 /\ (decisions # <<>> => since' = since)
      BY <1>a, <1>c, <2>1 DEF DecidedOnce
    <3>2. decisions = <<>> => DOMAIN decisions = {}
      OBVIOUS
    <3> QED  BY <1>c, <2>1, <3>1, <3>2 DEF DecidedOnce
  <2> QED  BY <1>o, <1>a, <2>1, <2>2, <2>3, <2>4
<1>3. CASE AdvanceEvaluations
  <2> DEFINE b == research.bar
  <2>1. /\ research.at = "advance" /\ research' = [research EXCEPT !.at = "record"]
        /\ UNCHANGED <<ended, cursor, since, breaks>>
        /\ decisions' = [n \in DOMAIN decisions |-> Advanced(decisions[n])]
    BY <1>3 DEF AdvanceEvaluations
  <2>2. research'.at = "record" /\ research'.bar = b /\ research'.plan = research.plan
        /\ BegunBar = {} /\ BegunBar' = {b} /\ b \in 1..FinalBar /\ b \in Nat
    BY <1>a, <2>1 DEF BegunBar
  <2>g. b > cursor /\ b <= ended /\ (cursor > 0 => b - 1 - cursor <= breaks)
    BY <1>c, <2>1 DEF GapsAreBreaks
  <2>3. ASSUME NEW n \in DOMAIN decisions
        PROVE  /\ RowSound(Advanced(decisions[n]), cursor, {b}, breaks)
               /\ Advanced(decisions[n]).decided = decisions[n].decided
               /\ Advanced(decisions[n]).bars \subseteq decisions[n].bars \union {b}
    <3>1. PICK d : d = decisions[n]
      OBVIOUS
    <3>2. d \in Evaluations /\ RowSound(d, cursor, {}, breaks) /\ (cursor = 0 => RowBehind(d, b))
      BY <1>r, <1>c, <2>1, <2>2, <3>1 DEF FirstBarIsLast
    <3>3. RowSound(Advanced(d), cursor, {b}, breaks)
      BY <1>a, <2>2, <2>g, <3>2, RowAdvanced
    <3>4. Advanced(d) = d \/ Advanced(d) = Booked(d, b)
      BY <3>2, AdvancedIsBooked DEF Advanced
    <3>5. Advanced(d).decided = d.decided /\ Advanced(d).bars \subseteq d.bars \union {b}
      BY <3>4 DEF Booked
    <3> QED  BY <3>1, <3>3, <3>5
  <2>4. DOMAIN decisions' = DOMAIN decisions /\ \A n \in DOMAIN decisions : decisions'[n] = Advanced(decisions[n])
    BY <2>1
  <2>5. RowsSound'
    BY <2>1, <2>2, <2>3, <2>4 DEF RowsSound
  <2>6. RowsBehind'
    <3>1. \A n \in DOMAIN decisions : RowBehind(decisions'[n], ended)
      BY <1>r, <2>3, <2>4, <2>g DEF RowBehind
    <3> QED  BY <2>1, <2>4, <3>1 DEF RowsBehind
  <2>7. FirstBarIsLast'
    <3>1. ASSUME cursor = 0 PROVE research.plan = {} /\ \A n \in DOMAIN decisions : RowBehind(decisions'[n], b)
      <4>1. research.plan = {} /\ \A n \in DOMAIN decisions : RowBehind(decisions[n], b)
        BY <1>c, <2>1, <3>1 DEF FirstBarIsLast
      <4> QED  BY <4>1, <2>2, <2>3, <2>4 DEF RowBehind
    <3> QED  BY <2>1, <2>2, <2>4, <3>1 DEF FirstBarIsLast
  <2>8. GapsAreBreaks' /\ PlanRuns'
    BY <1>c, <2>1, <2>2, <2>g DEF GapsAreBreaks, PlanRuns
  <2>9. DecidedOnce'
    <3>1. since # -1
      BY <1>c, <2>1 DEF DecidedOnce
    <3>2. \A n \in DOMAIN decisions : decisions'[n].decided = decisions[n].decided
      BY <2>3, <2>4
    <3> QED  BY <1>c, <2>1, <2>4, <3>1, <3>2 DEF DecidedOnce
  <2> QED  BY <1>b, <2>5, <2>6, <2>7, <2>8, <2>9
<1>4. CASE RecordDecision
  <2> DEFINE b == research.bar
  <2>1. /\ research.at = "record" /\ research' = [research EXCEPT !.at = "follow"]
        /\ UNCHANGED <<ended, cursor, since, breaks>>
        /\ decisions' = IF b <= since \/ \E n \in DOMAIN decisions : decisions[n].decided = b
                        THEN decisions ELSE Append(decisions, NewRow(b))
    BY <1>4 DEF RecordDecision
  <2>2. CASE decisions' = decisions
    BY <1>m, <2>1, <2>2
  <2>3. CASE decisions' # decisions
    <3>1. /\ decisions' = Append(decisions, NewRow(b)) /\ b > since
          /\ \A n \in DOMAIN decisions : decisions[n].decided # b
      BY <1>a, <2>1, <2>3
    <3>2. research'.at = "follow" /\ research'.bar = b /\ research'.plan = research.plan
          /\ BegunBar = {b} /\ BegunBar' = {b} /\ b \in 1..FinalBar /\ b \in Nat
      BY <1>a, <2>1 DEF BegunBar
    <3>g. b > cursor /\ b <= ended /\ (cursor > 0 => b - 1 - cursor <= breaks)
      BY <1>c, <2>1 DEF GapsAreBreaks
    <3>3. PICK l \in Nat : l = Len(decisions)
      BY <1>a
    <3>4. /\ DOMAIN decisions = 1..l /\ DOMAIN decisions' = 1..(l + 1)
          /\ \A n \in 1..l : decisions'[n] = decisions[n]
          /\ decisions'[l + 1] = NewRow(b)
      <4>1. NewRow(b) \in Evaluations
        BY <3>2, NewRowType
      <4> QED  BY <1>a, <3>1, <3>3, <4>1
    <3>5. RowSound(NewRow(b), cursor, {b}, breaks)
      BY <1>a, <3>2, <3>g, RowRecorded
    <3>6. NewRow(b).decided = b /\ NewRow(b).bars = {}
      BY DEF NewRow
    <3>7. \A n \in 1..(l + 1) : n \in 1..l \/ n = l + 1
      BY <3>3
    <3>8. RowsSound'
      <4>1. \A n \in 1..(l + 1) : RowSound(decisions'[n], cursor, {b}, breaks)
        BY <1>r, <3>2, <3>4, <3>5, <3>7
      <4> QED  BY <2>1, <3>2, <3>4, <4>1 DEF RowsSound
    <3>9. RowsBehind'
      <4>1. \A n \in 1..(l + 1) : RowBehind(decisions'[n], ended)
        BY <1>r, <3>4, <3>6, <3>7, <3>g DEF RowBehind
      <4> QED  BY <2>1, <3>4, <4>1 DEF RowsBehind
    <3>10. FirstBarIsLast'
      <4>1. ASSUME cursor = 0
            PROVE  research.plan = {} /\ \A n \in 1..(l + 1) : RowBehind(decisions'[n], b)
        <5>1. research.plan = {} /\ \A n \in 1..l : RowBehind(decisions[n], b)
          BY <1>c, <2>1, <3>4, <4>1 DEF FirstBarIsLast
        <5> QED  BY <5>1, <3>2, <3>4, <3>6, <3>7 DEF RowBehind
      <4> QED  BY <2>1, <3>2, <3>4, <4>1 DEF FirstBarIsLast
    <3>11. GapsAreBreaks' /\ PlanRuns'
      BY <1>c, <2>1, <3>2, <3>g DEF GapsAreBreaks, PlanRuns
    <3>12. DecidedOnce'
      <4>1. since # -1
        BY <1>c, <2>1 DEF DecidedOnce
      <4>2. \A n \in 1..(l + 1) : decisions'[n].decided > since
        BY <1>c, <3>1, <3>4, <3>6, <3>7 DEF DecidedOnce
      <4>3. \A n, m \in 1..(l + 1) : n # m => decisions'[n].decided # decisions'[m].decided
        BY <1>c, <3>1, <3>4, <3>6, <3>7 DEF DecidedOnce
      <4> QED  BY <2>1, <3>4, <4>1, <4>2, <4>3 DEF DecidedOnce
    <3> QED  BY <1>b, <3>8, <3>9, <3>10, <3>11, <3>12
  <2> QED  BY <2>2, <2>3
<1>5. ASSUME NEW touch \in BOOLEAN, FollowBlocked(touch) PROVE EvidenceInv'
  BY <1>5, <1>m DEF FollowBlocked
<1>6. CASE BlockEntry
  BY <1>6, <1>m DEF BlockEntry
<1>7. CASE NothingBlocked
  BY <1>7, <1>m DEF NothingBlocked
<1>8. CASE MoveCursor
  <2> DEFINE b == research.bar
  <2>1. /\ research.at = "cursor" /\ cursor' = b /\ research' = Upcoming(research.plan)
        /\ UNCHANGED <<ended, since, decisions, breaks>>
    BY <1>8 DEF MoveCursor
  <2>2. BegunBar = {b} /\ BegunBar' = {} /\ b \in 1..FinalBar /\ b \in Nat /\ b > cursor
    <3>1. research'.at \in {"idle", "advance"}
      BY <1>a, <1>u, <2>1
    <3> QED  BY <1>a, <1>c, <2>1, <3>1 DEF BegunBar, GapsAreBreaks
  <2>3. RowsSound'
    <3>1. ASSUME NEW n \in DOMAIN decisions PROVE RowSound(decisions[n], b, {}, breaks)
      <4>1. decisions[n] \in Evaluations /\ RowSound(decisions[n], cursor, {b}, breaks)
        BY <1>r, <2>2
      <4>2. cursor = 0 => RowBehind(decisions[n], b)
        BY <1>c, <2>1 DEF FirstBarIsLast
      <4> QED  BY <1>a, <2>2, <4>1, <4>2, RowPassed
    <3> QED  BY <2>1, <2>2, <3>1 DEF RowsSound
  <2>4. DecidedOnce'
    BY <1>c, <2>1 DEF DecidedOnce
  <2>5. cursor' > 0 => b - cursor' <= breaks'
    BY <1>a, <2>1, <2>2
  <2> QED  BY <1>o, <1>a, <1>c, <2>1, <2>2, <2>3, <2>4, <2>5
<1>9. CASE ResearchFails
  <2> DEFINE b == research.bar
  <2>1. /\ research.at # "idle" /\ breaks' = breaks + 1 /\ research' = Upcoming(research.plan)
        /\ UNCHANGED <<ended, cursor, since, decisions>>
    BY <1>9 DEF ResearchFails
  <2>2. RowsSound'
    BY <1>a, <1>k, <1>u, <2>1
  <2>3. DecidedOnce'
    BY <1>c, <2>1 DEF DecidedOnce
  <2>4. b >= cursor' /\ (cursor' > 0 => b - cursor' <= breaks') /\ b \in 0..FinalBar
    BY <1>a, <1>c, <2>1 DEF GapsAreBreaks
  <2>5. cursor' = 0 => research.plan \subseteq {ended}
    BY <1>c, <2>1 DEF FirstBarIsLast
  <2> QED  BY <1>o, <1>a, <1>c, <2>1, <2>2, <2>3, <2>4, <2>5
<1>10. CASE ResearchCut
  <2>1. /\ research.at # "idle" /\ breaks' = breaks + 1 /\ research' = Nowhere
        /\ UNCHANGED <<ended, cursor, since, decisions>>
    BY <1>10 DEF ResearchCut
  <2>2. research'.at = "idle" /\ research'.plan = {}
    BY <2>1 DEF Nowhere
  <2>3. RowsSound'
    BY <1>k, <2>1, <2>2
  <2>4. RowsBehind'
    BY <1>r, <2>1 DEF RowsBehind
  <2>5. FirstBarIsLast' /\ GapsAreBreaks' /\ PlanRuns'
    BY <2>2 DEF FirstBarIsLast, GapsAreBreaks, PlanRuns, Runs
  <2>6. DecidedOnce'
    BY <1>c, <2>1, <2>2 DEF DecidedOnce
  <2> QED  BY <1>b, <2>3, <2>4, <2>5, <2>6
<1>11. CASE UNCHANGED researchVars
  <2>1. UNCHANGED <<ended, cursor, since, decisions, research, breaks>> /\ BegunBar' = BegunBar
    BY <1>11 DEF researchVars, BegunBar
  <2>2. RowsSound' /\ RowsBehind'
    BY <1>r, <2>1 DEF RowsSound, RowsBehind
  <2>3. FirstBarIsLast' /\ GapsAreBreaks' /\ PlanRuns' /\ DecidedOnce'
    BY <1>c, <2>1 DEF FirstBarIsLast, GapsAreBreaks, PlanRuns, DecidedOnce
  <2> QED  BY <1>b, <2>2, <2>3
<1> QED
  BY <1>1, <1>2, <1>3, <1>4, <1>5, <1>6, <1>7, <1>8, <1>9, <1>10, <1>11 DEF ResearchNext

LEMMA EvidenceFollows == EvidenceInv => EvaluationsAreForward
<1> SUFFICES ASSUME EvidenceInv, NEW n \in DOMAIN decisions
             PROVE  LET d == decisions[n]
                    IN  /\ d.decided > since
                        /\ \A m \in DOMAIN decisions : m # n => decisions[m].decided # d.decided
                        /\ breaks < 2 => \A b \in d.bars : b > d.decided /\ b >= d.entry
                        /\ d.held - Cardinality(d.bars) \in 0..breaks
                        /\ d.status = "CLOSED" =>
                             /\ d.held = Horizon
                             /\ d.exit - d.decided >= Horizon - breaks
  BY DEF EvaluationsAreForward
<1>1. PICK d : d = decisions[n]
  OBVIOUS
<1>2. d \in Evaluations /\ RowSound(d, cursor, BegunBar, breaks) /\ breaks \in Nat
  BY <1>1, ResearchNumbers DEF EvidenceInv, RowsSound, ResearchShape, ResearchTypeOK
<1>3. d.decided > since /\ \A m \in DOMAIN decisions : m # n => decisions[m].decided # d.decided
  BY <1>1 DEF EvidenceInv, DecidedOnce
<1>4. /\ Cardinality(d.bars) \in Nat /\ Cardinality(InOrder(d)) \in Nat /\ d.held \in Nat
      /\ Cardinality(Again(d, cursor, BegunBar)) \in Nat /\ Cardinality(InOrder(d)) <= Cardinality(d.bars)
  BY <1>2, RowSets, RowNumbers
<1>5. d.held - Cardinality(d.bars) \in 0..breaks
  BY <1>2, <1>4 DEF RowSound, RowPaid
<1>6. ASSUME breaks < 2, NEW b \in d.bars PROVE b > d.decided /\ b >= d.entry
  <2>1. d.status # "PENDING_ENTRY" /\ d.entry > d.decided /\ FirstBar(d) = d.entry
    BY <1>2, <1>6 DEF RowSound, RowEntered, FirstBar
  <2>2. b >= d.entry /\ b \in Nat /\ d.entry \in Nat /\ d.decided \in Nat
    BY <1>2, <1>6, <2>1, RowNumbers DEF RowSound, RowForward
  <2> QED  BY <2>1, <2>2
<1>7. d.status = "CLOSED" => d.held = Horizon /\ d.exit - d.decided >= Horizon - breaks
  BY <1>2 DEF RowSound, RowForward
<1> QED
  BY <1>1, <1>3, <1>5, <1>6, <1>7

(* Evaluations are evidence of the future of their decisions: one row of a *)
(* bar, none from before the registration, and each interruption costs an  *)
(* evaluation one bar and no more; a bar out of order takes two            *)
(* (research_engine._process_bar, advance_bidirectional_evaluations).      *)
THEOREM EvidenceIsForward == ResearchSpec => []EvaluationsAreForward
BY EvidenceInit, EvidenceStep, EvidenceFollows, PTL DEF ResearchSpec
=============================================================================
