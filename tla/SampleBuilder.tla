--------------------------- MODULE SampleBuilder ----------------------------
(***************************************************************************)
(* How the research campaigns make samples of the series on disk           *)
(* (src/research/campaign_01, _02, _04 and _05, build_samples.py; campaign *)
(* 03 uses 02's), for one symbol, while the series grow.                   *)
(*                                                                         *)
(* A series is a set of rows [at, value], one per instant.  Arithmetic is  *)
(* exact: a decimal's rounding is a function of what is rounded.  A reading*)
(* is of open interest in campaigns 01 and 05, of funding in 02 and 04.    *)
(***************************************************************************)
EXTENDS Numbers, FiniteSets, FiniteSetsExt

CONSTANTS Campaign,      \* campaigns that may run
          ReadingAt, MarkAt, \* ReadingAt[t], MarkAt[t]: what may be observed at instant t
          Day,           \* instants in a day
          Horizon,       \* horizon_hours
          Spacing,       \* sample_spacing_hours
          Window,        \* window_days
          Lookback,      \* lookback_hours of the velocity, lookback_days of the regime
          WarmupDays,    \* warmup_days
          Tolerance,     \* tolerance_ms
          RegimeBar      \* threshold of the regime

(* Instants are whole numbers, durations are not negative, and the grid    *)
(* moves.                                                                  *)
ASSUME BuilderAssumption ==
    /\ Campaign \subseteq {"open_interest", "funding_rate", "funding_delta", "oi_velocity"}
    /\ DOMAIN ReadingAt \subseteq Int /\ DOMAIN MarkAt \subseteq Int
    /\ Day \in Nat \ {0} /\ Spacing \in Nat \ {0}
    /\ {Horizon, Window, Lookback, WarmupDays, Tolerance} \subseteq Nat

VARIABLES campaign, readings, marks,
          built          \* samples some call of build_samples returned

builderVars == <<campaign, readings, marks, built>>

InstantsOf(rows) == {r.at : r \in rows}
UpTo(rows, t) == {r \in rows : r.at <= t}

-----------------------------------------------------------------------------
(* The row in force at t, unless a gap made it stale. *)
LatestAtOrBefore(rows, t) ==
    LET past == {r \in UpTo(rows, t) : t - Max(InstantsOf(UpTo(rows, t))) <= Tolerance}
    IN IF past = {} THEN None ELSE (CHOOSE r \in past : r.at = Max(InstantsOf(past))).value

(* A trailing window, which never holds the current row. *)
WindowValues(rows, start, end) == {r \in rows : start <= r.at /\ r.at < end}

SumOf(rows, Value(_)) == FoldSet(LAMBDA r, sum : Plus(sum, Value(r)), Zero, rows)

PercentileRankCentered(window, current) ==
    LET below == Cardinality({r \in window : Lt(r.value, current)})
        equal == Cardinality({r \in window : r.value = current})
    IN Minus(Q(2 * below + equal, 2 * Cardinality(window)), Q(1, 2))

(* The distance from the mean and the variance, whose root it is divided   *)
(* by; a constant window has no scale.                                     *)
Zscore(window, current) ==
    LET size == Num(Cardinality(window))
        mean == Over(SumOf(window, LAMBDA r : r.value), size)
        variance == Over(SumOf(window, LAMBDA r : Times(Minus(r.value, mean), Minus(r.value, mean))),
                         size)
    IN IF variance = Zero THEN None ELSE <<Minus(current, mean), variance>>

(* Bull, bear or chop, from the price alone. *)
RegimeLabel(prices, t) ==
    LET now == LatestAtOrBefore(prices, t)
        past == LatestAtOrBefore(prices, t - Lookback)
        change == Minus(Over(now, past), One)
    IN IF now = None \/ past \in {None, Zero} THEN "unknown"
       ELSE IF Lt(RegimeBar, change) THEN "bull"
       ELSE IF Lt(change, Minus(Zero, RegimeBar)) THEN "bear" ELSE "chop"

-----------------------------------------------------------------------------
(* build_samples.  A sample is made at t if its feature and both marks can *)
(* be had; a missing one is never replaced by a guess.                     *)

Realized(prices, t) ==
    LET markT == LatestAtOrBefore(prices, t)
        markFwd == LatestAtOrBefore(prices, t + Horizon)
    IN IF markT \in {None, Zero} \/ markFwd = None THEN None
       ELSE Minus(Over(markFwd, markT), One)

SamplesAt(grid, prices, kind, Feature(_)) ==
    {[kind |-> kind, at |-> t, seen |-> t + Horizon, feature |-> Feature(t),
      outcome |-> Realized(prices, t), regime |-> RegimeLabel(prices, t)] :
        t \in {u \in grid : Feature(u) # None /\ Realized(prices, u) # None}}

(* Slip: the last sample's outcome need not have been observed yet. *)
LastFeasibleEarly(rows, prices) == Min({Max(InstantsOf(rows)), Max(InstantsOf(prices))})

(* There is a mark at or after the end of the last sample's outcome. *)
LastFeasible(rows, prices) == Min({Max(InstantsOf(rows)), Max(InstantsOf(prices)) - Horizon})

Midnight(t) == (t \div Day) * Day

(* From a midnight after the first feasible instant, Spacing apart. *)
Grid(rows, prices, first, days) ==
    LET start == Midnight(first) + days * Day
    IN IF rows = {} \/ prices = {} THEN {}
       ELSE IF LastFeasible(rows, prices) <= first THEN {}
       ELSE {t \in start..LastFeasible(rows, prices) : (t - start) % Spacing = 0}

FirstAt(rows) == IF rows = {} THEN 0 ELSE Min(InstantsOf(rows))

(* Campaign 01: how extreme open interest is, by rank and by deviation. *)
Extremeness(rows, t, Score(_, _)) ==
    LET current == LatestAtOrBefore(rows, t)
        window == WindowValues(rows, t - Window, t)
    IN IF current = None \/ Cardinality(window) < 2 THEN None ELSE Score(window, current)

BuildOpenInterest(rows, prices) ==
    LET grid == Grid(rows, prices, FirstAt(rows) + Window, 1)
    IN SamplesAt(grid, prices, "pctrank", LAMBDA t : Extremeness(rows, t, PercentileRankCentered))
         \cup SamplesAt(grid, prices, "zscore", LAMBDA t : Extremeness(rows, t, Zscore))

(* Campaign 02: the funding rate as it was settled. *)
BuildFundingRate(rows, prices) ==
    SamplesAt(Grid(rows, prices, FirstAt(rows), 1), prices, "rate",
              LAMBDA t : LatestAtOrBefore(rows, t))

(* Campaign 04: its change since the settlement before. *)
DeltaPairs(rows) ==
    {[at |-> x[1].at, value |-> Minus(x[1].value, x[2].value)] :
        x \in {y \in rows \X rows :
                 y[1].at > y[2].at /\ \A q \in rows : q.at <= y[2].at \/ q.at >= y[1].at}}

BuildFundingDelta(rows, prices) ==
    LET deltas == DeltaPairs(rows)
    IN SamplesAt(Grid(deltas, prices, FirstAt(deltas), 1), prices, "delta",
                 LAMBDA t : LatestAtOrBefore(deltas, t))

(* Campaign 05: the fractional change of open interest; a reading that is  *)
(* not positive is a hole in the archive.                                  *)
Velocity(rows, t) ==
    LET now == LatestAtOrBefore(rows, t)
        past == LatestAtOrBefore(rows, t - Lookback)
    IN IF None \in {now, past} THEN None
       ELSE IF Leq(now, Zero) \/ Leq(past, Zero) THEN None ELSE Minus(Over(now, past), One)

BuildOiVelocity(rows, prices) ==
    SamplesAt(Grid(rows, prices, FirstAt(rows), WarmupDays), prices, "velocity",
              LAMBDA t : Velocity(rows, t))

BuildSamples(which, rows, prices) ==
    CASE which = "open_interest" -> BuildOpenInterest(rows, prices)
      [] which = "funding_rate"  -> BuildFundingRate(rows, prices)
      [] which = "funding_delta" -> BuildFundingDelta(rows, prices)
      [] which = "oi_velocity"   -> BuildOiVelocity(rows, prices)

-----------------------------------------------------------------------------
BuilderInit ==
    /\ campaign \in Campaign
    /\ readings = {} /\ marks = {} /\ built = {}

(* A series is collected up to an instant it had not reached. *)
Later(rows, t) == \A r \in rows : r.at < t

CollectReading(t) ==
    /\ Later(readings, t)
    /\ readings' = readings \cup {[at |-> t, value |-> ReadingAt[t]]}
    /\ UNCHANGED <<campaign, marks, built>>

CollectMark(t) ==
    /\ Later(marks, t)
    /\ marks' = marks \cup {[at |-> t, value |-> MarkAt[t]]}
    /\ UNCHANGED <<campaign, readings, built>>

(* A campaign runs; samples whose outcomes would overlap are refused. *)
RunBuild ==
    /\ Spacing >= Horizon
    /\ built' = built \cup BuildSamples(campaign, readings, marks)
    /\ UNCHANGED <<campaign, readings, marks>>

BuilderNext ==
    \/ \E t \in DOMAIN ReadingAt : CollectReading(t)
    \/ \E t \in DOMAIN MarkAt : CollectMark(t)
    \/ RunBuild

BuilderSpec == BuilderInit /\ [][BuilderNext]_builderVars

-----------------------------------------------------------------------------
FeatureAt(kind, rows, t) ==
    CASE kind = "pctrank"  -> Extremeness(rows, t, PercentileRankCentered)
      [] kind = "zscore"   -> Extremeness(rows, t, Zscore)
      [] kind = "rate"     -> LatestAtOrBefore(rows, t)
      [] kind = "delta"    -> LatestAtOrBefore(DeltaPairs(rows), t)
      [] kind = "velocity" -> Velocity(rows, t)

(* Samples are made with hindsight and show none of it: a sample is what   *)
(* somebody who stopped reading at its own instant (for the outcome, when  *)
(* that was observed) would have made, later rows neither change nor       *)
(* withdraw it, and outcomes do not overlap (build_samples: "NO            *)
(* LOOK-AHEAD", "NON-OVERLAPPING OUTCOMES").                               *)
SamplesStand ==
    /\ built \subseteq BuildSamples(campaign, readings, marks)
    /\ \A s \in built :
         /\ s.feature = FeatureAt(s.kind, UpTo(readings, s.at), s.at)
         /\ s.outcome = Realized(UpTo(marks, s.seen), s.at)
         /\ s.regime = RegimeLabel(UpTo(marks, s.at), s.at)
         /\ \A r \in built : r.kind = s.kind /\ r.at < s.at => r.seen <= s.at
=============================================================================
