------------------------------ MODULE MCEvals ------------------------------
EXTENDS Evals, EvalVerdict, TLC

Symmetry == Permutations(Scorers)

\* A judgement after an object that is not one, and one cut short.
Answers == {
    [stopped |-> TRUE, objects |-> <<"other", "scores">>],
    [stopped |-> FALSE, objects |-> <<"scores">>]}

TwoThirds == <<2, 3>>

\* The changes of up to four prompts.
Changes == UNION {[1 .. n -> -2 .. 2] : n \in 1 .. 4}

Opposite(verdict) ==
    CASE verdict = "improved" -> "regressed"
      [] verdict = "regressed" -> "improved"
      [] OTHER -> verdict

\* Runs compared the other way round are said to show the opposite, with the
\* prominence "it would have given the other answer" (config/evals/threshold.md).
ASSUME VerdictIsEven ==
    \A changes \in Changes :
        Verdict([k \in DOMAIN changes |-> -changes[k]]) = Opposite(Verdict(changes))

\* What is better throughout is not said to show less.
ASSUME VerdictIsMonotone ==
    \A changes \in Changes :
        Verdict(changes) = "improved" =>
            Verdict([k \in DOMAIN changes |-> changes[k] + 1]) = "improved"

\* Up to three samples of a run, and the same ones in a run of other scores.
Pools == UNION {[1 .. n -> 0 .. 3] : n \in 1 .. 3}

\* Which run is called the earlier does not decide whether anything moved.
ASSUME MovingIsSymmetric ==
    \A earlier, later \in Pools : Moved(earlier, later) <=> Moved(later, earlier)

\* Of a run whose samples agree, one outlier does not make a run that moved: "a
\* single sample cannot distinguish improvement from variance" (evals/runner.py:93).
ASSUME OutlierMovesNothing ==
    \A n \in 2 .. 4 : \A score, outlier \in 0 .. 3 :
        LET even == [k \in 1 .. n |-> score]
        IN ~Moved(even, [even EXCEPT ![n] = outlier])

\* A dimension that no sample of one of the runs could be read for agrees with
\* nothing, and one dimension agrees with at most one direction.
ASSUME DimensionsAgreeOnce ==
    \A earlier, later \in [{"voice"} -> Pools] :
        /\ AgreeingDimensions(earlier, <<>>, 1) = {}
        /\ AgreeingDimensions(earlier, later, 1) \cap AgreeingDimensions(earlier, later, -1) = {}

\* One prompt among several carries no result.
ASSUME NoPromptCarriesAlone ==
    \A changes \in Changes :
        Len(changes) > 1 /\ Cardinality({k \in DOMAIN changes : changes[k] # 0}) = 1 =>
            Verdict(changes) = "no improvement shown"
=============================================================================
