------------------------------ MODULE MarketCache ------------------------------
(***************************************************************************)
(* The bars of one pair in the cache (src/src/market_cache.py) and in the  *)
(* answers of the exchange.  The answer to a request ends with the bar     *)
(* that is still open, so a row is final only if it was fetched after its  *)
(* bar had closed.  The workers read through ensure, which asks at most    *)
(* every Refresh units, and closed_only, which looks at the time of a bar  *)
(* and not at when its row was fetched.                                    *)
(***************************************************************************)
EXTENDS Integers, FiniteSets

CONSTANTS
  BarLength,    \* length of a bar
  Refresh,      \* min_refresh_seconds
  Overlap,      \* bars before the last cached one that are asked for again
  MaxNow        \* bound: the clock

CacheAssumption ==
  /\ BarLength \in Nat \ {0} /\ Refresh \in Nat /\ Overlap \in Nat /\ MaxNow \in Nat
ASSUME CacheAssumption

VARIABLES
  now,
  final, partial,   \* the bars of the rows, by whether they had closed
  lastAttempt       \* fetch_state, or -1

cacheVars == <<now, final, partial, lastAttempt>>

CacheInit ==
  /\ now = 0 /\ final = {} /\ partial = {} /\ lastAttempt = -1

AllBars == 1..(MaxNow + 1)
Cached == final \union partial

(* bar b is [(b - 1) * BarLength, b * BarLength) *)
HasClosed(b) == b * BarLength <= now
HasBegun(b) == (b - 1) * BarLength <= now

ClockTicks ==
  /\ now < MaxNow
  /\ now' = now + 1
  /\ UNCHANGED <<final, partial, lastAttempt>>

-----------------------------------------------------------------------------
(* ensure *)

Due(force) == force \/ lastAttempt = -1 \/ now - lastAttempt >= Refresh

(* mutant: only bars after the last row are asked for *)
AnswerWithoutOverlap(force) ==
  {b \in AllBars : HasBegun(b) /\ (force \/ \A c \in Cached : b > c)}

(* the answer: all that has begun, from a little before the last row *)
Answer(force) ==
  {b \in AllBars : HasBegun(b) /\ (force \/ \A c \in Cached : b >= c - Overlap)}

EnsureFetches(force) ==
  /\ Due(force)
  /\ lastAttempt' = now
  /\ final' = (final \ Answer(force)) \union {b \in Answer(force) : HasClosed(b)}
  /\ partial' = (partial \ Answer(force)) \union {b \in Answer(force) : ~HasClosed(b)}
  /\ UNCHANGED now

(* the attempt is noted before the request: it fails, or the worker dies *)
EnsureFails(force) ==
  /\ Due(force)
  /\ lastAttempt' = now
  /\ UNCHANGED <<now, final, partial>>

(* a new container starts with an empty cache *)
CacheLost ==
  /\ final' = {} /\ partial' = {} /\ lastAttempt' = -1
  /\ UNCHANGED now

(* closed_only: what a reader takes for closed at this moment *)
ClosedOnly == {b \in Cached : HasClosed(b)}

CacheNext ==
  \/ ClockTicks
  \/ \E force \in BOOLEAN : EnsureFetches(force)
  \/ \E force \in BOOLEAN : EnsureFails(force)
  \/ CacheLost

CacheSpec == CacheInit /\ [][CacheNext]_cacheVars

-----------------------------------------------------------------------------
CacheTypeOK ==
  /\ now \in 0..MaxNow /\ lastAttempt \in -1..MaxNow
  /\ final \subseteq AllBars /\ partial \subseteq AllBars

(* Whatever requests failed, the rows leave no gap, and no row but the     *)
(* last can be one that was fetched before its bar had closed: the next    *)
(* answer begins early enough to replace it (the overlap of ensure).       *)
OnlyLastRowIsPartial ==
  /\ final \intersect partial = {}
  /\ \A c \in Cached : 1..c \subseteq Cached
  /\ \A b \in partial : \A c \in Cached : c <= b
=============================================================================
