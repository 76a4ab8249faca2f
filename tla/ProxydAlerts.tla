----------------------------- MODULE ProxydAlerts -----------------------------
(***************************************************************************)
(* The proxyd check, the export of its findings and the rules that are     *)
(* generated for its configuration, put together.                          *)
(***************************************************************************)
EXTENDS ProxydValidated, AlertRules

\* The instances of alerts that the page exported for the findings raises.
Alarms ==
    LET rules == Alerts([chain |-> "op", maxHeadLag |-> 0, maxSafeLag |-> config.maxSafeLag,
                         proxyd |-> {<<config.endpoints[e].name>> : e \in Endpoints} \ {<<"">>},
                         followers |-> {}])
    IN Instances(rules, RenderPrometheus(findings, "op"))

(***************************************************************************)
(* The alerts on proxyd are honest.  If ProxydEndpointUnhealthy is silent, *)
(* every endpoint with an RPC URL told its head and serves the configured  *)
(* chain; if ProxydMetricsUnavailable is silent, every endpoint was        *)
(* scraped; DeriverProxydNotConsensusAware tells exactly of the derivers   *)
(* that are not; and ProxydHeadLaggingBackends fires for an endpoint       *)
(* exactly if the check warned of its head lag: the threshold in the rule  *)
(* is the one the check used.                                              *)
(***************************************************************************)
ProxydAlertsAreHonest ==
    phase = "done" /\ config.enabled =>
        LET alarms == Alarms
            Alarm(alert)   == \E x \in alarms : x.alert = alert
            LagAlarm(name) == \E x \in alarms : /\ x.alert = "ProxydHeadLaggingBackends"
                                                /\ "name" \in DOMAIN x.labels
                                                /\ x.labels.name = name
        IN
        /\ ~Alarm("ProxydEndpointUnhealthy") =>
              \A e \in Endpoints : config.endpoints[e].rpc =>
                  /\ config.chainId \in {0, chain[e]}
                  /\ EndpointFinding(e, "head", "ok")
        /\ ~Alarm("ProxydMetricsUnavailable") =>
              \A e \in Endpoints : /\ config.endpoints[e].metrics
                                   /\ EndpointFinding(e, "metrics", "ok")
        /\ Alarm("DeriverProxydNotConsensusAware") <=> \E e \in Derivers : ~config.endpoints[e].aware
        /\ \A e \in Endpoints :
              LagAlarm(config.endpoints[e].name) <=> EndpointFinding(e, "head_lag", "warn")
=============================================================================
