---------------------------- MODULE MetricSamples ----------------------------
(***************************************************************************)
(* MaxValue of internal/metrics, which folds the samples of a page in the  *)
(* order of the page.                                                      *)
(*                                                                         *)
(* A value is a float64, so it may be NaN, as the quantiles of a summary   *)
(* are that observed nothing of late.  It is {v} for a number v and {} for *)
(* NaN: every comparison with NaN is false.                                *)
(***************************************************************************)
EXTENDS Integers, Sequences

NaN == {}

\* At most one number.
SampleValues == {v \in SUBSET Int : \A x, y \in v : x = y}

Above(a, b) == \E x \in a, y \in b : x > y

\* The comparison the other way round: ~(v <= max).
MaxValueNegated(vs) ==
    LET max[i \in DOMAIN vs] ==
          IF i = 1 THEN vs[1]
          ELSE IF \E x \in vs[i], y \in max[i - 1] : x <= y THEN max[i - 1] ELSE vs[i]
    IN max[Len(vs)]

\* Of at least one sample; a first NaN stays.
MaxValue(vs) ==
    LET max[i \in DOMAIN vs] ==
          IF i = 1 THEN vs[1] ELSE IF Above(vs[i], max[i - 1]) THEN vs[i] ELSE max[i - 1]
    IN max[Len(vs)]
=============================================================================
