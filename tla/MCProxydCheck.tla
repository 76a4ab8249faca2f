---------------------------- MODULE MCProxydCheck ----------------------------
(***************************************************************************)
(* Small instances of ProxydCheck: fleets of two op-nodes behind one or    *)
(* two endpoints, and pages that are healthy, empty, or report problems.   *)
(***************************************************************************)
EXTENDS ProxydAlerts

OpNode(name, role) == [name |-> name, role |-> role, rpc |-> TRUE]

TwoSources == <<OpNode("s1", "source"), OpNode("s2", "source")>>

Deriver ==
    [name |-> "deriver", role |-> "deriver", rpc |-> TRUE, metrics |-> TRUE,
     aware |-> TRUE, backends |-> <<"s1", "s2">>]

Edge ==
    [name |-> "edge", role |-> "edge", rpc |-> TRUE, metrics |-> FALSE,
     aware |-> FALSE, backends |-> <<"l1">>]

Config(nodes, endpoints) ==
    [opNodes |-> nodes, enabled |-> TRUE, endpoints |-> endpoints,
     chainId |-> 10, maxSafeLag |-> 1, maxLatency |-> 2]

Redundant == Config(TwoSources, <<Deriver>>)

\* Endpoints without URLs or a valid role, with unknown, repeated or unreadable backends, or none.
Oddities ==
    {Config(TwoSources, <<[Deriver EXCEPT !.rpc = FALSE, !.metrics = FALSE, !.aware = FALSE,
                                          !.backends = <<>>]>>),
     Config(TwoSources, <<[Deriver EXCEPT !.backends = <<"s1", "unknown">>]>>),
     Config(<<[OpNode("s1", "source") EXCEPT !.rpc = FALSE]>>,
            <<[Deriver EXCEPT !.backends = <<"s1">>]>>),
     Config(<<OpNode("s1", "source"), OpNode("l1", "light")>>,
            <<[Deriver EXCEPT !.backends = <<"s1", "s1">>], Edge>>),
     Config(<<OpNode("s1", "source"), OpNode("l1", "light")>>,
            <<[Deriver EXCEPT !.rpc = FALSE, !.metrics = FALSE, !.backends = <<"s1", "l1">>],
              [Edge EXCEPT !.role = "other", !.rpc = FALSE]>>),
     Config(<<OpNode("s1", "source"), OpNode("l1", "light")>>,
            <<[Deriver EXCEPT !.rpc = FALSE, !.metrics = FALSE, !.backends = <<"s1", "l1">>]>>),
     Config(<<OpNode("l1", "standalone")>>,
            <<Edge, [Edge EXCEPT !.name = "general", !.role = "general", !.aware = TRUE]>>),
     [Config(<<OpNode("s1", "source"), OpNode("l1", "light")>>, <<>>) EXCEPT !.enabled = FALSE],
     [Config(TwoSources, <<>>) EXCEPT !.enabled = FALSE],
     Config(TwoSources, <<>>)}

\* Validate has nothing to say of it.
Repeated == Config(TwoSources, <<[Deriver EXCEPT !.backends = <<"s1", "s1">>]>>)

Gauge(value) == [backend : {"s1", "s2"}, value : {value}]

Quantile(value) == [quantile |-> TRUE, value |-> value]
Sum(value)      == [quantile |-> FALSE, value |-> {value}]

\* The first backend answers well, the second one is idle.
HealthyPage ==
    [up |-> {1}, backend_probe_healthy |-> Gauge(1), backend_degraded |-> Gauge(0),
     backend_banned |-> Gauge(0), backend_in_sync |-> Gauge(1), backend_peer_count |-> Gauge(8),
     backend_error_rate |-> Gauge(0), latest |-> {5}, safe |-> {4}, finalized |-> {3},
     consensus_count |-> {2}, cl_local_safe |-> {4}, error_counters |-> {0},
     cl_consensus_counters |-> {0}, http_error_codes |-> {[error |-> FALSE, value |-> 7]},
     backend_latency |-> <<Quantile({1}), Sum(9), Quantile(NaN), Quantile({1}), Sum(0)>>,
     other |-> {}]

EmptyPage == [m \in Metrics |-> IF m = "backend_latency" THEN <<>> ELSE {}]

\* The second backend is in trouble; groups disagree; the counters have moved.
TroubledPage ==
    [HealthyPage EXCEPT
       !.up = {0, 1}, !.safe = {4, 6}, !.consensus_count = {0}, !.error_counters = {0, 3},
       !.http_error_codes = {[error |-> TRUE, value |-> 1]},
       !.backend_latency = <<Quantile({1}), Quantile({3}), Quantile({2})>>]

BadBackendPages ==
    {[HealthyPage EXCEPT ![m] = {[backend |-> "s1", value |-> good], [backend |-> "s2", value |-> 1 - good],
                                 [backend |-> "other", value |-> 1 - good]}] :
        <<m, good>> \in {<<"backend_probe_healthy", 1>>, <<"backend_banned", 0>>}}

\* An undeclared backend is in trouble, the declared ones are healthy or not shown.
OtherBackendPages ==
    {[HealthyPage EXCEPT !.backend_degraded = @ \cup {[backend |-> "other", value |-> 1]}],
     [HealthyPage EXCEPT !.backend_degraded = {[backend |-> "other", value |-> 1]}]}

OldProxydPage ==
    [EmptyPage EXCEPT !.up = {1}, !.other = {1}]

\* A slow backend before or after an idle one, or a histogram without quantiles.
LatencyPages ==
    {[HealthyPage EXCEPT !.backend_latency = l] :
        l \in {<<Quantile({3}), Quantile(NaN)>>, <<Quantile(NaN), Quantile({3})>>, <<Sum(9)>>}}

MixedPages ==
    {EmptyPage, TroubledPage, OldProxydPage} \cup LatencyPages \cup BadBackendPages \cup OtherBackendPages

Deploy(c, pg, id) ==
    <<c, [e \in 1 .. Len(c.endpoints) |-> pg], [e \in 1 .. Len(c.endpoints) |-> id]>>

\* Two endpoints of one name: what is found of one page stands for both.
Namesakes ==
    LET namesake == [Edge EXCEPT !.rpc = FALSE, !.metrics = TRUE, !.backends = <<>>]
    IN <<Config(<<OpNode("l1", "light")>>, <<namesake, namesake>>),
         <<HealthyPage, TroubledPage>>, <<10, 10>>>>

MCDeployments ==
    {Deploy(c, HealthyPage, 10) : c \in {Redundant} \cup Oddities}
    \cup {Deploy(Redundant, pg, 10) : pg \in MixedPages}
    \cup {Deploy(Redundant, HealthyPage, 11), Namesakes}

HealthyFleet  == {Deploy(Redundant, HealthyPage, 10)}
RepeatedFleet == {Deploy(Repeated, HealthyPage, 10)}
=============================================================================
