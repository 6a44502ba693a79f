---------------------------- MODULE AlphaStrategy ----------------------------
(***************************************************************************)
(* ApprovedFundingAlphaStrategy (src/alpha_engine/execution_bridge) and    *)
(* what it calls: the funding-rate provider, feature and candidate, and    *)
(* the selection of signals.                                               *)
(*                                                                         *)
(* A specification: version, universe (a sequence), cadence, threshold,    *)
(* convention, owned (its type and feature are the family's), stop, t1 and *)
(* t2 (fractions, None if not declared).  All are of the one family, so    *)
(* (name, version) is the version.  Symbols are numbers, in the order of   *)
(* their names.  market gives each symbol a rate and a mark, None if the   *)
(* read fails, and the rate's timestamp.                                   *)
(***************************************************************************)
EXTENDS Numbers, FiniteSets, SequencesExt

CONSTANT MaxStaleness   \* _DEFAULT_MAX_STALENESS_SECONDS

-----------------------------------------------------------------------------
(* Construction *)

(* CandidateSpecification.__post_init__ *)
SpecificationOk(spec) == spec.universe # <<>> /\ spec.cadence > 0

FractionOk(x) == x # None /\ Lt(Zero, x)

(* __init__: the threshold is not looked at. *)
StrategyOk(specs, watchlist) ==
    /\ specs # <<>>
    /\ \A i \in DOMAIN specs :
         /\ SpecificationOk(specs[i])
         /\ FractionOk(specs[i].stop) /\ Lt(specs[i].stop, One)
         /\ specs[i].t1 # None => FractionOk(specs[i].t1)
         /\ specs[i].t2 # None => FractionOk(specs[i].t2)
         /\ Range(specs[i].universe) \subseteq watchlist

-----------------------------------------------------------------------------
(* From a reading to a signal *)

(* FundingRateProvider.fetch and FundingRateFeature.compute: a rate, or    *)
(* None.  A rate stamped after the fetch is not used either.               *)
Reading(market, sym, at) ==
    LET age == at - market.at[sym]
    IN IF age < 0 \/ age > MaxStaleness THEN None ELSE market.rate[sym]

(* evaluate raises for a specification the rule cannot interpret. *)
RuleOk(spec) ==
    /\ spec.owned
    /\ spec.threshold # None /\ Lt(Zero, spec.threshold)
    /\ spec.convention \in {"contrarian", "momentum"}

Direction(rate, spec) ==
    LET contrarian == spec.convention = "contrarian"
    IN CASE rate = None -> "UNAVAILABLE"
         [] rate # None /\ Lt(spec.threshold, rate) -> IF contrarian THEN "SHORT" ELSE "LONG"
         [] rate # None /\ Lt(rate, Minus(Zero, spec.threshold)) ->
              IF contrarian THEN "LONG" ELSE "SHORT"
         [] OTHER -> "FLAT"

Signal(spec, sym, market, at) ==
    [sym |-> sym, direction |-> Direction(Reading(market, sym, at), spec), spec |-> spec]

(* select_signals: refuse a disputed symbol, keep the first by version, *)
(* in the order of the symbols.                                         *)
Nth(S, i) == CHOOSE x \in S : Cardinality({y \in S : y < x}) = i - 1

SelectSignals(signals) ==
    LET directional == {s \in signals : s.direction \in {"LONG", "SHORT"}}
        symbols == {s.sym : s \in directional}
        group(sym) == {s \in directional : s.sym = sym}
        agreed == {sym \in symbols : Cardinality({s.direction : s \in group(sym)}) = 1}
        first(sym) == CHOOSE s \in group(sym) :
                        \A o \in group(sym) : s.spec.version <= o.spec.version
    IN [i \in 1..Cardinality(agreed) |-> first(Nth(agreed, i))]

(* generate_intents: the order a signal becomes; None on a bad mark or     *)
(* degenerate levels.                                                      *)
Beyond(mark, fraction, up) ==
    Times(mark, IF up THEN Plus(One, fraction) ELSE Minus(One, fraction))

IntentOf(signal, market) ==
    LET spec == signal.spec
        mark == market.mark[signal.sym]
        long == signal.direction = "LONG"
        target(f) == IF f = None THEN None ELSE Beyond(mark, f, long)
        levels == {Beyond(mark, spec.stop, ~ long), target(spec.t1), target(spec.t2)} \ {None}
    IN IF mark = None \/ ~ Lt(Zero, mark) \/ \E p \in levels : ~ Lt(Zero, p)
       THEN <<>>
       ELSE << [sym |-> signal.sym, side |-> IF long THEN "BUY" ELSE "SELL",
                type |-> "LIMIT", tif |-> "GTC", reduce |-> FALSE,
                stop |-> Beyond(mark, spec.stop, ~ long), conv |-> None, limit |-> mark,
                t1 |-> target(spec.t1), t2 |-> target(spec.t2)] >>

-----------------------------------------------------------------------------
(* The cadence.  last: the version's last evaluation, -1 for none.         *)

(* Slip: the cadence must have been exceeded. *)
IsDueStrictly(spec, last, at) == last = -1 \/ at - last > spec.cadence

IsDue(spec, last, at) == last = -1 \/ at - last >= spec.cadence

(* The rule is reached, and may raise, for a symbol the cycle trades. *)
Raises(spec, universe) == ~ RuleOk(spec) /\ Range(spec.universe) \cap universe # {}

(* One pass over the live specifications, up to the first that raises: the *)
(* specifications evaluated, and when each version was last evaluated.     *)
EvaluateOne(so, n, spec, live, universe, at) ==
    IF so.raised \/ n \notin live \/ ~ IsDue(spec, so.last[spec.version], at) THEN so
    ELSE IF Raises(spec, universe) THEN [so EXCEPT !.raised = TRUE]
    ELSE [so EXCEPT !.ran = @ \cup {n}, !.last[spec.version] = at]

Evaluated(specs, live, lastAt, universe, at) ==
    LET after[n \in 0..Len(specs)] ==
            IF n = 0 THEN [ran |-> {}, last |-> lastAt, raised |-> FALSE]
            ELSE EvaluateOne(after[n - 1], n, specs[n], live, universe, at)
    IN  after[Len(specs)]

(* evaluated: the specifications that were. *)
GenerateIntents(evaluated, universe, market, at) ==
    LET signals == UNION {{Signal(spec, sym, market, at) :
                             sym \in Range(spec.universe) \cap universe} : spec \in evaluated}
        selected == SelectSignals(signals)
    IN FlattenSeq([i \in DOMAIN selected |-> IntentOf(selected[i], market)])
=============================================================================
