---------------------------- MODULE ProxydMetrics ----------------------------
(***************************************************************************)
(* checkProxydNativeMetrics of internal/checks/checks.go: what the doctor  *)
(* concludes from the metrics page of one proxyd endpoint.  A page gives   *)
(* each metric of the code the set of its series, under the id of the      *)
(* finding it leads to; metrics that the code pools (the error counters,   *)
(* the CL consensus counters) are one entry.  A series of a backend gauge  *)
(* is [backend, value], of a consensus gauge or a counter its value, of    *)
(* the response codes [error, value] where error stands for the codes 5xx  *)
(* and 429; other holds any further series whose name starts with proxyd.  *)
(* The latency, a summary, is a sequence of [quantile, value] in the order *)
(* of the page, with the values of MetricSamples.                          *)
(***************************************************************************)
EXTENDS Report, MetricSamples

BackendGauges ==
    {"backend_probe_healthy", "backend_degraded", "backend_banned", "backend_in_sync",
     "backend_peer_count", "backend_error_rate"}

ValueMetrics ==
    {"up", "latest", "safe", "finalized", "consensus_count", "cl_local_safe",
     "error_counters", "cl_consensus_counters", "other"}

Metrics == BackendGauges \cup ValueMetrics \cup {"http_error_codes", "backend_latency"}

Missing ==
    [up |-> "up_missing", backend_probe_healthy |-> "backend_probe_healthy_missing",
     backend_degraded |-> "backend_degraded_missing", backend_banned |-> "backend_banned_missing",
     backend_peer_count |-> "backend_peer_count_missing",
     consensus_count |-> "consensus_count_missing", cl_local_safe |-> "cl_local_safe_missing",
     error_counters |-> "error_counters_missing",
     cl_consensus_counters |-> "cl_consensus_counters_missing",
     backend_error_rate |-> "backend_error_rate_missing",
     backend_latency |-> "backend_latency_missing"]

Metric(e, id, severity) ==
    Finding(<<"proxyd", e.name, id>>, severity, <<"proxyd", e.name, "metrics">>, NoSample)

FirstBackendOnly(samples, backends) ==
    LET own == {s \in samples : backends # <<>> /\ s.backend = backends[1]}
    IN IF own = {} THEN samples ELSE own

\* The series of the expected backends, or all of them if there is none.
FilterBackendSamples(samples, backends) ==
    LET own == {s \in samples : s.backend \in ToSet(backends)}
    IN IF own = {} THEN samples ELSE own

\* samplesByBackendValue is not empty: some series has one of the bad values.
SomeBackend(e, samples, bad) ==
    \E s \in FilterBackendSamples(samples, e.backends) : s.value \in bad

\* The verdict on the series of metric id: absent, bad, or ok.
Verdict(e, pg, id, absent, isBad, bad) ==
    IF pg[id] = {} THEN Metric(e, Missing[id], absent)
    ELSE Metric(e, id, IF isBad THEN bad ELSE "ok")

BackendVerdict(e, pg, id, bad) ==
    Verdict(e, pg, id, "info", SomeBackend(e, pg[id], bad), "warn")

CounterVerdict(e, pg, id) ==
    Verdict(e, pg, id, "info", \E v \in pg[id] : v > 0, "warn")

NotOne   == {v \in Int : v # 1}
Positive == {v \in Int : v > 0}

BackendHealthFindings(e, pg) ==
    {BackendVerdict(e, pg, "backend_probe_healthy", NotOne),
     BackendVerdict(e, pg, "backend_degraded", Positive),
     BackendVerdict(e, pg, "backend_banned", Positive)}
    \cup (IF pg.backend_in_sync = {} THEN {}
          ELSE {Metric(e, "backend_in_sync",
                       IF SomeBackend(e, pg.backend_in_sync, NotOne) THEN "warn" ELSE "ok")})
    \cup (IF pg.backend_peer_count = {} /\ ~e.aware THEN {}
          ELSE {Verdict(e, pg, "backend_peer_count", "info", FALSE, "ok")})

\* The consensus gauges of several groups are folded into their maxima first.
ConsensusFindings(e, pg) ==
    LET complete == pg.latest # {} /\ pg.safe # {} /\ pg.finalized # {}
        ordered  == Max(pg.latest) >= Max(pg.safe) /\ Max(pg.safe) >= Max(pg.finalized)
    IN  (IF complete THEN {Metric(e, "consensus_blocks", IF ordered THEN "ok" ELSE "warn")}
         ELSE When(e.aware, Metric(e, "consensus_blocks", "warn")))
        \cup
        (IF pg.consensus_count = {} /\ ~e.aware THEN {}
         ELSE {Verdict(e, pg, "consensus_count", "warn", \A v \in pg.consensus_count : v <= 0, "warn")})
        \cup
        (IF pg.cl_local_safe = {} /\ ~(e.aware /\ e.role = "deriver") THEN {}
         ELSE {Verdict(e, pg, "cl_local_safe", "info", FALSE, "ok")})

ErrorFindings(e, pg) ==
    {CounterVerdict(e, pg, "error_counters"), CounterVerdict(e, pg, "cl_consensus_counters"),
     BackendVerdict(e, pg, "backend_error_rate", Positive)}
    \cup When(\E s \in pg.http_error_codes : s.error /\ s.value > 0,
              Metric(e, "http_error_codes", "warn"))

LatencyType == [quantile : BOOLEAN, value : SampleValues]

\* quantileSamples: without the sums and the counts.
QuantileValues(series) ==
    LET out[i \in 0 .. Len(series)] ==
          IF i = 0 THEN <<>>
          ELSE IF series[i].quantile THEN Append(out[i - 1], series[i].value) ELSE out[i - 1]
    IN out[Len(series)]

LatencyFinding(e, pg, maxLatency) ==
    LET values == QuantileValues(pg.backend_latency) IN
    IF pg.backend_latency = <<>> THEN Metric(e, Missing.backend_latency, "info")
    ELSE Metric(e, "backend_latency",
                IF values # <<>> /\ Above(MaxValue(values), {maxLatency}) THEN "warn" ELSE "ok")

NativeFindings(e, pg, maxLatency) ==
    {Verdict(e, pg, "up", "warn", \E v \in pg.up : v # 1, "fail"), LatencyFinding(e, pg, maxLatency)}
    \cup BackendHealthFindings(e, pg) \cup ConsensusFindings(e, pg) \cup ErrorFindings(e, pg)

\* hasMetricPrefix finds no series of proxyd.
NoSeries(pg) == (\A m \in Metrics \ {"backend_latency"} : pg[m] = {}) /\ pg.backend_latency = <<>>

\* checkProxydMetrics after a successful scrape.
PageFindings(e, pg, maxLatency) ==
    {Metric(e, "metrics", "ok")}
    \cup IF NoSeries(pg) THEN {Metric(e, "metrics_names", "info")}
         ELSE {Metric(e, "metrics_names", "ok")} \cup NativeFindings(e, pg, maxLatency)
=============================================================================
