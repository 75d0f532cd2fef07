---------------------------- MODULE EvalVerdict ----------------------------
(***************************************************************************)
(* What two comparable runs are said to show (evals/runner.py, Curve).     *)
(* Each prompt is in both runs, and what it changed by is the unit.  The   *)
(* changes are scaled to whole numbers, and the comparison of their mean   *)
(* with its standard error is squared: no number here is rounded.          *)
(***************************************************************************)
EXTENDS Integers, Sequences, FiniteSets, SequencesExt

CONSTANTS
    StandardErrors,  \* how many the mean change must exceed
    Share            \* of the prompts that must agree: Share[1] in Share[2]

Total(changes) == FoldSeq(LAMBDA change, sum : change + sum, 0, changes)

Squares(changes) == [k \in DOMAIN changes |-> changes[k] * changes[k]]

\* |mean| > StandardErrors * stdev / sqrt(n), squared and multiplied out; the
\* error of a single change is taken to be zero.
Clears(changes) ==
    LET n == Len(changes)
        sum == Total(changes)
    IN IF n < 2 THEN sum # 0
       ELSE sum * sum * (n - 1) >
              StandardErrors * StandardErrors * (n * Total(Squares(changes)) - sum * sum)

\* The prompts that moved the way the mean did.
AgreeingPrompts(changes) ==
    {k \in DOMAIN changes : changes[k] * Total(changes) > 0}

Agree(changes) ==
    Cardinality(AgreeingPrompts(changes)) * Share[2] >= Share[1] * Len(changes)

(* What the report says beside the verdict: all samples of a run pooled.   *)

\* Deviation(samples) / (n * (n - 1)) is the variance of n samples.
Deviation(samples) ==
    Len(samples) * Total(Squares(samples)) - Total(samples) * Total(samples)

\* The means differ by more than the spread of `run`, squared and multiplied out;
\* a single sample has no spread.
Outruns(earlier, later, run) ==
    LET m == Len(earlier)
        n == Len(later)
        k == Len(run)
        gap == m * Total(later) - n * Total(earlier)
    IN IF k < 2 THEN gap # 0
       ELSE gap * gap * k * (k - 1) > m * m * n * n * Deviation(run)

\* The wider of the two spreads is what the difference must clear.
Moved(earlier, later) == Outruns(earlier, later, earlier) /\ Outruns(earlier, later, later)

\* A dimension either run has no readable score of is left out, not counted as zero.
DimensionChange(earlier, later, d) ==
    Len(earlier[d]) * Total(later[d]) - Len(later[d]) * Total(earlier[d])

AgreeingDimensions(earlier, later, change) ==
    {d \in DOMAIN earlier \cap DOMAIN later :
        DimensionChange(earlier, later, d) * change > 0}

Verdict(changes) ==
    IF changes = <<>> \/ ~(Clears(changes) /\ Agree(changes)) THEN "no improvement shown"
    ELSE IF Total(changes) > 0 THEN "improved" ELSE "regressed"
=============================================================================
