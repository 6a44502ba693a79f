------------------------------ MODULE Research -------------------------------
(***************************************************************************)
(* One research cycle (src/alpha_engine/research.py): a hypothesis is      *)
(* registered, scored on its samples in five stages                        *)
(* (src/alpha_engine/validation) and sealed with its evidence.  What the   *)
(* registry makes of the calls is ExperimentRegistry's.                    *)
(*                                                                         *)
(* A specification is AlphaStrategy's with its acceptance criteria, a      *)
(* function of the keys declared.  A sample: sym, at and zone (the instant *)
(* its feature was computed and how it is written), rate (None if it was   *)
(* unavailable), outcome, seen (when the outcome was measured) and regime; *)
(* the last two are <<value>>, or None if not recorded.                    *)
(***************************************************************************)
EXTENDS AlphaStrategy

CONSTANTS Hypothesis,   \* specifications that may be studied
          Data,         \* sequences of samples
          FoldCount,    \* numbers of folds asked for
          Draws(_),     \* what the generator may draw from n samples, a draw a resample
          Watchlist,    \* symbols research may use
          Digits        \* significant digits of decimal.Decimal (28)

VARIABLE study          \* the experiment, its state in the registry and its evidence

(* A decimal result: rounded half even to Digits digits. *)
Dec(a) ==
    LET scale == Power(Digits - 1 - Adjusted(a))
    IN IF a = Zero THEN a ELSE Q(Nearest(Times(a, Num(scale))), scale)

-----------------------------------------------------------------------------
(* run_validation *)

CriterionOk(key, required) ==
    /\ key = "min_hit_rate" => Leq(Zero, required) /\ Leq(required, One)
    /\ key = "min_signaled_samples" => required[2] = 1 /\ Leq(Zero, required)

(* A criterion nothing can be said about does not pass. *)
CriterionPasses(key, required, hitRate, signaled) ==
    CASE key = "min_hit_rate" -> hitRate # None /\ Leq(required, hitRate)
      [] key = "min_signaled_samples" -> Leq(required, Num(signaled))
      [] OTHER -> FALSE

(* A zero outcome is signaled and no hit. *)
RunValidation(spec, samples) ==
    LET direction(s) == Direction(s.rate, spec)
        signaled == SelectSeq(samples, LAMBDA s : direction(s) \in {"LONG", "SHORT"})
        hits == SelectSeq(signaled, LAMBDA s :
                   IF direction(s) = "LONG" THEN s.outcome > 0 ELSE s.outcome < 0)
        hitRate == IF signaled = <<>> THEN None ELSE Dec(Q(Len(hits), Len(signaled)))
    IN [hitRate |-> hitRate,
        passed  |-> \A key \in DOMAIN spec.criteria :
                      CriterionPasses(key, spec.criteria[key], hitRate, Len(signaled))]

-----------------------------------------------------------------------------
(* The other stages *)

(* Duplicates are looked for as they are written. *)
CausalityPasses(samples) ==
    /\ \A i, j \in DOMAIN samples :
         (/\ samples[i].sym = samples[j].sym
          /\ samples[i].at = samples[j].at /\ samples[i].zone = samples[j].zone) => i = j
    /\ \A i \in DOMAIN samples : samples[i].seen # None /\ samples[i].seen[1] > samples[i].at

Chronological(samples) ==
    LET order == SetToSortSeq(DOMAIN samples, LAMBDA i, j :
                    samples[i].at < samples[j].at \/ (samples[i].at = samples[j].at /\ i < j))
    IN [r \in DOMAIN order |-> samples[order[r]]]

(* Slip: equal folds, and what is left over is in none. *)
FoldStartEqual(i, n, folds) == (i - 1) * (n \div folds)

(* Where fold i starts, counted from 0: the first n % folds folds have one *)
(* more.                                                                   *)
FoldStart(i, n, folds) ==
    (i - 1) * (n \div folds) + (IF i - 1 < n % folds THEN i - 1 ELSE n % folds)

Folds(samples, folds) ==
    LET n == Len(samples)
    IN [i \in 1..folds |-> SubSeq(Chronological(samples), FoldStart(i, n, folds) + 1,
                                  FoldStart(i + 1, n, folds))]

WalkForwardPasses(spec, samples, folds) ==
    \A i \in 1..folds : RunValidation(spec, Folds(samples, folds)[i]).passed

RegimesPass(spec, samples) ==
    LET labels == {samples[i].regime : i \in DOMAIN samples}
        group(label) == SelectSeq(samples, LAMBDA s : s.regime = label)
    IN None \notin labels /\ \A label \in labels : RunValidation(spec, group(label)).passed

(* The hit rates of the resamples that had one. *)
ResampledRates(spec, samples, draw) ==
    LET scored == [r \in DOMAIN draw |->
                     RunValidation(spec, [k \in DOMAIN samples |-> samples[draw[r][k]]]).hitRate]
    IN SelectSeq(scored, LAMBDA rate : rate # None)

(* The mean adds decimals, each sum rounded, and BootstrapResult refuses a *)
(* mean outside what was observed.                                         *)
BootstrapOk(rates) ==
    LET mean == Dec(Over(FoldLeft(LAMBDA sum, rate : Dec(Plus(sum, rate)), Zero, rates),
                         Num(Len(rates))))
    IN rates # <<>> => /\ \E r \in DOMAIN rates : Leq(rates[r], mean)
                       /\ \E r \in DOMAIN rates : Leq(mean, rates[r])

-----------------------------------------------------------------------------
(* run_research_cycle *)

NoStudy == [state |-> "none", running |-> FALSE]

ResearchInit == study = NoStudy

(* Created, sealed and validating; a specification outside the watchlist   *)
(* is refused before anything is registered, as is another family's name.  *)
BeginCycle(spec, samples, folds) ==
    /\ study = NoStudy
    /\ SpecificationOk(spec)
    /\ Range(spec.universe) \subseteq Watchlist
    /\ study' = [state |-> "VALIDATING", running |-> TRUE, spec |-> spec, samples |-> samples,
                 folds |-> folds, passed |-> <<>>]

(* A stage that raises leaves the experiment validating, for good. *)
StageRaises(draw) ==
    \/ study.samples = <<>>
    \/ ~ RuleOk(study.spec)
    \/ \E key \in DOMAIN study.spec.criteria : ~ CriterionOk(key, study.spec.criteria[key])
    \/ study.folds < 1 \/ study.folds > Len(study.samples)
    \/ ~ BootstrapOk(ResampledRates(study.spec, study.samples, draw))

StageResults ==
    [single_pass             |-> RunValidation(study.spec, study.samples).passed,
     leakage_causality_audit |-> CausalityPasses(study.samples),
     walk_forward            |-> WalkForwardPasses(study.spec, study.samples, study.folds),
     regime_stratification   |-> RegimesPass(study.spec, study.samples)]

Validate(draw) ==
    /\ study.running
    /\ study' = IF StageRaises(draw) THEN [study EXCEPT !.running = FALSE]
                ELSE [study EXCEPT !.running = FALSE, !.state = "EVIDENCE_SEALED",
                                   !.passed = StageResults]

(* A campaign puts its study to review and decides by the evidence alone. *)
PassedAll == \A stage \in DOMAIN study.passed : study.passed[stage]

RecordGovernance ==
    /\ study.state = "EVIDENCE_SEALED"
    /\ study' = [study EXCEPT !.state = IF PassedAll THEN "APPROVED" ELSE "REJECTED"]

ResearchNext ==
    \/ \E spec \in Hypothesis, samples \in Data, folds \in FoldCount : BeginCycle(spec, samples, folds)
    \/ study.running /\ \E draw \in Draws(Len(study.samples)) : Validate(draw)
    \/ RecordGovernance

-----------------------------------------------------------------------------
(* A candidate that clears its bar in every period, or in every regime,    *)
(* clears it on the whole: the parts leave no sample out and rounded rates *)
(* still average (run_walk_forward_validation: "in every period, not       *)
(* merely on average").                                                    *)
PartsImplyWhole ==
    (/\ study.state \in {"EVIDENCE_SEALED", "APPROVED", "REJECTED"}
     /\ study.passed.walk_forward \/ study.passed.regime_stratification)
       => study.passed.single_pass
=============================================================================
