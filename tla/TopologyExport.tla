---------------------------- MODULE TopologyExport ----------------------------
(***************************************************************************)
(* The topology check and the export of its findings, put together.        *)
(***************************************************************************)
EXTENDS TopologyValidated, PromExport

(***************************************************************************)
(* opstack_doctor_topology_follower_lag_blocks has, while node names are   *)
(* unique, one sample per follower and kind of lag, and no two findings    *)
(* become one series: both of a follower's lags are on the page, and the   *)
(* warned ones are those above the threshold.                              *)
(***************************************************************************)
FollowerSeriesAreUnique ==
    phase = "done" /\ UniqueNames =>
        LET series == FollowerLagSeries(findings, "op")
            lags   == {f \in findings : f.id[1] = "topology" /\ f.sample[1] = "lag_blocks"}
        IN /\ \A s, t \in series : s.labels = t.labels => s = t
           /\ Cardinality(series) = Cardinality(lags)
           /\ \A f \in lags : f.severity = "warn" <=> f.sample[2] > config.maxSafeLag
=============================================================================
