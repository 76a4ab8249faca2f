----------------------------- MODULE PromExport -----------------------------
(***************************************************************************)
(* RenderPrometheus of internal/report: the page that export metrics       *)
(* writes for a list of findings.                                          *)
(*                                                                         *)
(* A page is a set of series [metric, labels, value]; metric is without    *)
(* the prefix opstack_doctor_, and labels is a function from label names.  *)
(* A configured name is the sequence of its parts between dots, as it      *)
(* stands inside the id of a finding.  The labels source and role, which   *)
(* the node and the endpoint determine, are left out.                      *)
(***************************************************************************)
EXTENDS Report

Series(metric, labels, value) == [metric |-> metric, labels |-> labels, value |-> value]

\* The labels f and g of one series: f @@ g, which the provers do not expand.
Join(f, g) == [x \in DOMAIN f \cup DOMAIN g |-> IF x \in DOMAIN f THEN f[x] ELSE g[x]]

\* renderLabels writes no label with an empty value.
chainLabels(chain) == IF chain = "" THEN <<>> ELSE [chain |-> chain]

\* The generic part: counts per severity, presence and numeric evidence of findings.
GenericSeries(fs, chain) ==
    {Series("findings", [severity |-> s], Summarize(fs)[s]) : s \in Severities}
    \cup {Series("finding", Join(FindingSeries(f), chainLabels(chain)), 1) : f \in fs}
    \cup {Series("finding_evidence_value",
                 Join([key |-> f.sample[1]], Join(FindingSeries(f), chainLabels(chain))),
                 f.sample[2]) :
             f \in {g \in fs : g.sample # NoSample}}

\* The findings with a lag in their evidence and an id of these first and last parts.
LagFindings(fs, first, last) ==
    {f \in fs : /\ f.id[1] = first /\ f.id[Len(f.id)] = last
                /\ f.sample[1] = "lag_blocks"}

ExecutionLagSeries(fs, chain) ==
    {Series("execution_candidate_lag_blocks", chainLabels(chain), f.sample[2]) :
        f \in LagFindings(fs, "execution", "head_lag")}

MatchSeries(fs, chain) ==
    {Series("execution_block_compare_match", chainLabels(chain), v) : v \in BlockCompareGauge(fs)}
    \cup
    {Series("execution_rpc_surface_match", chainLabels(chain), v) : v \in RPCSurfaceGauge(fs)}

\* topologyNodeFromID and proxydEndpointFromID: what precedes the next dot.
NameFromID(id) == IF Len(id) > 2 /\ id[2] # "" THEN [name |-> id[2]] ELSE <<>>

FollowerKindMerged(id) == "lag"

\* The label kind of the lag series of a follower.
FollowerKind(id) == IF id[Len(id)] = "rpc_head" THEN "rpc_head" ELSE "safe_head"

FollowerLagSeries(fs, chain) ==
    {Series("topology_follower_lag_blocks",
            Join([kind |-> FollowerKind(f.id)], Join(NameFromID(f.id), chainLabels(chain))),
            f.sample[2]) :
        f \in LagFindings(fs, "topology", "rpc_head")
              \cup LagFindings(fs, "topology", "safe_head_metrics")}

ProxydLagSeries(fs, chain) ==
    {Series("proxyd_head_lag_blocks", Join(NameFromID(f.id), chainLabels(chain)), f.sample[2]) :
        f \in LagFindings(fs, "proxyd", "head_lag")}

\* renderDerivedMetrics, the second part of the page.
DerivedSeries(fs, chain) ==
    ExecutionLagSeries(fs, chain) \cup MatchSeries(fs, chain)
    \cup FollowerLagSeries(fs, chain) \cup ProxydLagSeries(fs, chain)

RenderPrometheus(fs, chain) == GenericSeries(fs, chain) \cup DerivedSeries(fs, chain)
=============================================================================
