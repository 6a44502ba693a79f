---------------------------- MODULE MCAlphaEngine ----------------------------
(* A small instance of the Alpha Engine for TLC.  Its registry, its data   *)
(* collection, the making of samples and their validation share no state;  *)
(* a behaviour exercises one of them, which is chosen at the start.        *)
EXTENDS ExperimentRegistry, HistoricalData, SampleBuilder, TLC

CONSTANTS p1, p2, e1, e2,
          Digits, MaxStaleness, FoldCount

VARIABLES part, study

(* p1 takes e1 through its whole life; p2, started at any moment, writes   *)
(* once, about e1 or e2.                                                   *)
Writes == p1 :> 10 @@ p2 :> 1
WritesAbout == p1 :> {e1} @@ p2 :> {e1, e2}
Symmetric == Permutations(Content) \cup Permutations(Outcome) \cup Permutations(Person)

(* Specifications: bars on the hit rate, one on the number of signals,    *)
(* both; a bar nobody can clear, one that is malformed, a rule that cannot *)
(* be evaluated and a universe that is not watched.                        *)
Sound == [version |-> 1, universe |-> <<1>>, cadence |-> 1, threshold |-> <<1, 2>>,
          convention |-> "contrarian", owned |-> TRUE, stop |-> <<1, 2>>, t1 |-> <<>>, t2 |-> <<>>,
          criteria |-> "min_hit_rate" :> <<2, 3>>]
Hypotheses ==
    {[Sound EXCEPT !.criteria = c] :
       c \in {"min_hit_rate" :> <<2, 3>>, "min_hit_rate" :> <<3, 4>>,
              "min_hit_rate" :> <<1, 2>> @@ "min_signaled_samples" :> <<1, 1>>,
              "min_signaled_samples" :> <<2, 1>>,
              "sharpe" :> <<1, 1>>,
              "min_hit_rate" :> <<3, 2>>}}
    \cup {[Sound EXCEPT !.threshold = <<>>], [Sound EXCEPT !.universe = <<1, 2>>]}

(* Samples: a short that pays, one that does not, a long that pays late,   *)
(* no signal, no reading.                                                  *)
Sample(at, rate, outcome, regime) ==
    [sym |-> 1, at |-> at, zone |-> "Z", rate |-> rate, outcome |-> outcome,
     seen |-> <<at + 1>>, regime |-> regime]
Samples == {Sample(1, <<1, 1>>, -1, <<"calm">>), Sample(2, <<1, 1>>, 1, <<"wild">>),
            [Sample(3, <<-1, 1>>, 1, <<"wild">>) EXCEPT !.seen = <<3>>],
            Sample(2, <<0, 1>>, 1, <<"calm">>), Sample(3, <<>>, 1, <<>>)}
SampleSets == UNION {[1..n -> Samples] : n \in 0..3}

(* Two resamples: all of one sample, the first for the last, or as it is. *)
DrawsOf(n) ==
    LET same == [k \in 1..n |-> k]
        one == [k \in 1..n |-> 1]
        most == [k \in 1..n |-> IF k = n THEN 1 ELSE k]
    IN {<<same, same>>, <<one, same>>, <<most, same>>}

R == INSTANCE Research WITH Hypothesis <- Hypotheses, Data <- SampleSets, Draws <- DrawsOf,
                            Watchlist <- {1}

(* What is observed at an instant: readings that repeat and one that is    *)
(* zero, prices that rise, fall and stay.                                  *)
Readings == 1 :> <<2, 1>> @@ 2 :> <<3, 1>> @@ 3 :> <<3, 1>> @@ 4 :> <<4, 1>> @@ 5 :> <<0, 1>>
              @@ 6 :> <<5, 1>>
Marks == 1 :> <<2, 1>> @@ 2 :> <<3, 1>> @@ 4 :> <<1, 1>> @@ 5 :> <<4, 1>> @@ 6 :> <<0, 1>>
           @@ 7 :> <<5, 1>> @@ 8 :> <<5, 1>>
Bar == <<1, 20>>

EngineInit ==
    /\ part \in {"registry", "history", "research", "samples"}
    /\ Init /\ HistoryInit /\ R!ResearchInit /\ BuilderInit
    /\ part # "samples" => campaign = CHOOSE c \in Campaign : TRUE

EngineNext ==
    /\ UNCHANGED part
    /\ \/ /\ part = "registry" /\ Next
          /\ UNCHANGED <<historyVars, study, builderVars>>
       \/ /\ part = "history" /\ HistoryNext
          /\ UNCHANGED <<vars, study, builderVars>>
       \/ /\ part = "research" /\ R!ResearchNext
          /\ UNCHANGED <<vars, historyVars, builderVars>>
       \/ /\ part = "samples" /\ BuilderNext
          /\ UNCHANGED <<vars, historyVars, study>>

EngineSpec == EngineInit /\ [][EngineNext]_<<part, vars, historyVars, study, builderVars>>

-----------------------------------------------------------------------------
(* A candidate that clears its bar in every period or regime clears it on  *)
(* the whole (run_walk_forward_validation; Research!PartsImplyWhole).      *)
PartsImplyWhole == R!PartsImplyWhole
=============================================================================
