----------------------------- MODULE AlertRules -----------------------------
(***************************************************************************)
(* Alerts of internal/generate: the rules that generate alerts writes for  *)
(* a configuration, as far as they read what the doctor exports, and the   *)
(* rule on the lag of followers, which reads the op-nodes' own metrics.    *)
(* Rules on one native metric against a constant are left out.             *)
(*                                                                         *)
(* What Prometheus makes of a rule is external to the repository: each     *)
(* series that the expression yields is an instance of the alert, with     *)
(* the labels of the series.                                               *)
(***************************************************************************)
EXTENDS PromExport

(***************************************************************************)
(* A rule on opstack_doctor_finding selects a severity and an id: a scope  *)
(* of one part stands for scope\..*\.(names), a longer one for             *)
(* scope\.(names).                                                         *)
(***************************************************************************)
FindingRule(alert, scope, names, severity, wait) ==
    [alert |-> alert, wait |-> wait, metric |-> "finding", scope |-> scope, names |-> names,
     severity |-> severity]

SupervisorIds ==
    {"metrics_fetch", "metrics_names", "up", "up_missing", "refs_missing", "expected_chains",
     "ref_types", "access_list_verify_failure"}

MonitorFetchIds == {"metrics_fetch", "metrics_names", "up", "up_missing"}

MonitorIds ==
    {"metrics_fetch", "metrics_names", "up", "up_missing", "message_status_missing",
     "message_status", "terminal_status_changes"}

ProxydFindingRules ==
    {FindingRule("ProxydEndpointUnhealthy", <<"proxyd">>, {"rpc", "head", "chain_id"}, "fail", 2),
     FindingRule("DeriverProxydNotConsensusAware", <<"proxyd">>, {"consensus_aware"}, "warn", 15),
     FindingRule("ProxydMetricsUnavailable", <<"proxyd">>, {"metrics"}, "warn", 10)}

InteropFindingRules ==
    {FindingRule("DoctorInteropDependencyReadinessWarning", <<"interop">>,
                 {"rpc", "chain_id", "head", "metrics"}, "warn", 5),
     FindingRule("DoctorInteropSupervisorReadinessFailed", <<"interop", "supervisor">>,
                 SupervisorIds, "fail", 2),
     FindingRule("DoctorInteropSupervisorReadinessWarning", <<"interop", "supervisor">>,
                 SupervisorIds, "warn", 5),
     FindingRule("DoctorInteropMonitorReadinessFailed", <<"interop", "monitor">>,
                 MonitorIds, "fail", 2),
     FindingRule("DoctorInteropMonitorReadinessWarning", <<"interop", "monitor">>,
                 MonitorIds, "warn", 5)}

\* A rule on a derived gauge selects the chain and, with a name, the proxyd endpoint.
GaugeRule(alert, metric, chain, name, values) ==
    [alert |-> alert, wait |-> 5, metric |-> metric, chain |-> chain, name |-> name,
     op |-> values[1], bound |-> values[2]]

ExecutionRules(cfg) ==
    {GaugeRule("ExecutionCandidateLaggingReference", "execution_candidate_lag_blocks",
               cfg.chain, <<>>, <<">", cfg.maxHeadLag>>),
     GaugeRule("ExecutionBlockComparisonMismatch", "execution_block_compare_match",
               cfg.chain, <<>>, <<"==", 0>>),
     GaugeRule("ExecutionRPCSurfaceMismatch", "execution_rpc_surface_match",
               cfg.chain, <<>>, <<"==", 0>>)}

HeadLagThreshold(cfg) == cfg.maxHeadLag

ProxydLagThreshold(cfg) == cfg.maxSafeLag

\* One rule per endpoint with a name, whether proxyd is enabled or not.
ProxydLagRules(cfg) ==
    {GaugeRule("ProxydHeadLaggingBackends", "proxyd_head_lag_blocks",
               cfg.chain, n, <<">", ProxydLagThreshold(cfg)>>) : n \in cfg.proxyd \ {<<>>}}

\* One rule per light or sequencer node that follows another.
FollowerRules(cfg) ==
    {[alert |-> "LightNodeLaggingSource", wait |-> 5, metric |-> "op_node_default_refs_number",
      source |-> f.source, node |-> f.node, bound |-> cfg.maxSafeLag] : f \in cfg.followers}

Alerts(cfg) ==
    ProxydFindingRules \cup InteropFindingRules \cup ExecutionRules(cfg)
    \cup ProxydLagRules(cfg) \cup FollowerRules(cfg)

-----------------------------------------------------------------------------
(* What Prometheus makes of them *)

FindingSelected(rule, s) ==
    LET id == s.labels.id IN
    /\ IsPrefix(rule.scope, id) /\ id[Len(id)] \in rule.names
    /\ IF Len(rule.scope) = 1 THEN Len(id) > 2 ELSE Len(id) = Len(rule.scope) + 1
    /\ s.labels.severity = rule.severity

\* A selector with an empty value matches a series without the label.
LabelIs(labels, name, value) ==
    IF name \in DOMAIN labels THEN labels[name] = value ELSE value = ""

GaugeSelected(rule, s) ==
    /\ LabelIs(s.labels, "chain", rule.chain)
    /\ rule.name # <<>> => "name" \in DOMAIN s.labels /\ <<s.labels.name>> = rule.name
    /\ IF rule.op = ">" THEN s.value > rule.bound ELSE s.value = rule.bound

\* a - b > bound: without on() or ignoring(), a and b match if all their labels are equal.
LagPairs(rule, series) ==
    {a \in series :
        /\ a.labels.node = rule.source
        /\ \E b \in series : /\ b.labels.node = rule.node
                             /\ b.labels = a.labels
                             /\ a.value > b.value + rule.bound}

Matching(rule, page) ==
    LET series == {s \in page : s.metric = rule.metric} IN
    CASE rule.metric = "finding"                     -> {s \in series : FindingSelected(rule, s)}
      [] rule.metric = "op_node_default_refs_number" -> LagPairs(rule, series)
      [] OTHER                                       -> {s \in series : GaugeSelected(rule, s)}

\* The instances of the alerts that the rules yield on a page.
Instances(rs, page) ==
    UNION {{[alert |-> r.alert, wait |-> r.wait, labels |-> s.labels] : s \in Matching(r, page)} :
              r \in rs}

Alerted(rs, page, alert) == \E x \in Instances(rs, page) : x.alert = alert
=============================================================================
