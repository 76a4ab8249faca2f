----------------------------- MODULE ProxydCheck -----------------------------
(***************************************************************************)
(* checkProxyd of internal/checks/checks.go: for each declared proxyd      *)
(* endpoint, the chain ID and head it serves, its metrics page, and the    *)
(* heads of the op-nodes it is expected to route to, with which the head   *)
(* read before is compared.                                                *)
(*                                                                         *)
(* The backends are read after proxyd, while they advance and proxyd moves *)
(* from one to the other.  Actions of the fleet: Advance, Route and the    *)
(* deadline, Expire.  Actions of the doctor: one per call, and one for     *)
(* each pass of a loop that makes none.  Op-nodes do not reorganise here.  *)
(***************************************************************************)
EXTENDS ProxydMetrics, RPCCall

CONSTANTS
    Names,        \* names of op-nodes
    Deployments,  \* <<config, page, chain>>: a configuration, after ApplyDefaults,
                  \* with the metrics page and the chain ID of each endpoint
    MaxNodes,     \* bound on the length of op_nodes
    MaxEndpoints, \* bound on the length of proxyd.endpoints
    MaxHead       \* bound on block heights

VARIABLES
    config,       \* op_nodes, proxyd, the chain ID and the thresholds
    page,         \* per endpoint: its metrics
    chain,        \* per endpoint: the chain ID it serves
    head,         \* per op-node: its head
    served,       \* per endpoint: the head it serves
    lagged,       \* history: <<endpoint, op-node>> that once lagged too far
    tracked,      \* history: <<endpoint, op-node>> that once did not
    phase,        \* the loop or call the doctor is at
    k,            \* loop variable: index in proxyd.endpoints
    j,            \* loop variable: index in expected_backends
    probe,        \* the proxyd head read, as a set of at most one value
    readable,     \* readableHeads: per name, the backend head read, likewise
    findings      \* the findings emitted so far

world  == <<config, page, chain, head, served, lagged, tracked, expired>>
doctor == <<phase, k, j, probe, readable, findings>>
vars   == <<world, faults, doctor>>

Heights == 0 .. MaxHead
Phases  == {"start", "endpoint", "chainId", "head", "metrics", "backends", "done"}

\* Of an op-node the check uses these fields.  "other" is a role Validate rejects.
NodeType ==
    [name : Names, role : {"source", "light", "sequencer", "standalone", "other"},
     rpc : BOOLEAN]

EndpointType ==
    [name : STRING, role : {"deriver", "edge", "general", "other"}, rpc : BOOLEAN, metrics : BOOLEAN,
     aware : BOOLEAN, backends : Seq(STRING)]

ConfigType ==
    [opNodes : Seq(NodeType), enabled : BOOLEAN, endpoints : Seq(EndpointType),
     chainId : Nat, maxSafeLag : Nat, maxLatency : Nat]

ASSUME BoundsAssumption ==
    /\ MaxNodes \in Nat /\ MaxEndpoints \in Nat
    /\ MaxHead \in Nat /\ MaxFaults \in Nat

ASSUME DataAssumption ==
    \A d \in Deployments : LET c == d[1] pages == d[2] chains == d[3] IN
        /\ d = <<c, pages, chains>> /\ c \in ConfigType
        /\ Len(c.opNodes) <= MaxNodes /\ Len(c.endpoints) <= MaxEndpoints
        /\ DOMAIN pages = 1 .. Len(c.endpoints)
        /\ \A e \in DOMAIN pages : DOMAIN pages[e] = Metrics
        /\ \A e \in DOMAIN pages, id \in BackendGauges : \A s \in pages[e][id] : s.value \in Nat
        /\ \A e \in DOMAIN pages : pages[e].backend_latency \in Seq(LatencyType)
        /\ chains \in [1 .. Len(c.endpoints) -> Nat]

-----------------------------------------------------------------------------
(* The configuration *)

Node(p)   == config.opNodes[p]
Deployed  == 1 .. Len(config.opNodes)
Endpoints == 1 .. Len(config.endpoints)
Endpoint  == config.endpoints[k]
Backends  == Endpoint.backends

\* nodes[name]: of several nodes of one name the map keeps the last.
Known(name) == \E p \in Deployed : Node(p).name = name
Named(name) == Max({p \in Deployed : Node(p).name = name})

\* roleCounts: the entries of expected_backends that name a node of these roles.
RoleCount(roles) ==
    Cardinality({b \in 1 .. Len(Backends) :
                    Known(Backends[b]) /\ Node(Named(Backends[b])).role \in roles})

specializedTopologyConfigured ==
    /\ \E p \in Deployed : Node(p).role = "source"
    /\ \E p \in Deployed : Node(p).role \in {"light", "sequencer"}

-----------------------------------------------------------------------------
(* The fleet *)

Behind(hs, ss) ==
    {pair \in Endpoints \X Deployed : hs[pair[2]] > ss[pair[1]] + config.maxSafeLag}

Observe(hs, ss) ==
    /\ lagged'  = lagged \cup Behind(hs, ss)
    /\ tracked' = tracked \cup (Endpoints \X Deployed \ Behind(hs, ss))

Advance(p) ==
    /\ head[p] < MaxHead
    /\ head' = [head EXCEPT ![p] = @ + 1]
    /\ Observe(head', served)
    /\ UNCHANGED <<config, page, chain, served, expired, faults, doctor>>

\* proxyd routes to another op-node, which need not be a higher one.
Route(e) ==
    /\ \E p \in Deployed : served[e] # head[p] /\ served' = [served EXCEPT ![e] = head[p]]
    /\ Observe(head, served')
    /\ UNCHANGED <<config, page, chain, head, expired, faults, doctor>>

Expire ==
    /\ ~expired /\ expired' = TRUE
    /\ UNCHANGED <<config, page, chain, head, served, lagged, tracked, faults, doctor>>

Fleet ==
    \/ Expire
    \/ \E p \in Deployed : Advance(p)
    \/ \E e \in Endpoints : Route(e)

-----------------------------------------------------------------------------
(* Findings *)

Emit(fs) == findings' = findings \cup fs

Proxyd(id, severity, sample) ==
    Finding(<<"proxyd", Endpoint.name, id>>, severity, <<"proxyd", Endpoint.name>>, sample)

ProxydRPC(id, severity) ==
    Finding(<<"proxyd", Endpoint.name, id>>, severity, <<"proxyd", Endpoint.name, "rpc">>, NoSample)

BackendFinding(name, severity) ==
    Finding(<<"proxyd", Endpoint.name, "backend", name, "head">>, severity,
            <<"op_nodes", name, "rpc">>, NoSample)

UnknownBackend(name) ==
    Finding(<<"proxyd", Endpoint.name, "backend", name>>, "fail",
            <<"proxyd", Endpoint.name>>, NoSample)

ConsensusIntentFinding ==
    Proxyd("consensus_aware",
           IF Endpoint.aware THEN "ok" ELSE IF Endpoint.role = "deriver" THEN "warn" ELSE "info",
           NoSample)

BackendRolesUngraded ==
    {Proxyd("backend_roles", IF RoleCount({"source"}) >= 2 THEN "ok" ELSE "", NoSample)}

BackendRoleFindings ==
    CASE Endpoint.role = "deriver" ->
           {Proxyd("backend_roles", IF RoleCount({"source"}) >= 2 THEN "ok" ELSE "warn", NoSample)}
      [] Endpoint.role = "edge" ->
           {Proxyd("backend_roles", IF RoleCount({"light", "sequencer"}) > 0 THEN "ok" ELSE "info",
                   NoSample)}
      [] OTHER -> {}

BackendHeads == UNION {readable[n] : n \in Names}

LowestBackendHead == Min(BackendHeads)

BackendMax == Max(BackendHeads)

\* compareProxydBackendHeads, if the probe read a head.
HeadLagFindings ==
    IF BackendHeads = {} THEN {Proxyd("head_lag", "info", NoSample) : h \in probe}
    ELSE LET Lag(h) == IF BackendMax > h THEN BackendMax - h ELSE 0
         IN {Proxyd("head_lag", IF Lag(h) > config.maxSafeLag THEN "warn" ELSE "ok",
                    <<"lag_blocks", Lag(h)>>) : h \in probe}

-----------------------------------------------------------------------------
(* The doctor *)

Start ==
    /\ phase = "start"
    /\ LET Only(id, severity) ==
               /\ phase' = "done"
               /\ Emit({Finding(<<"proxyd", id>>, severity, <<"proxyd">>, NoSample)})
       IN \/ /\ ~config.enabled
             /\ Only("disabled", IF specializedTopologyConfigured THEN "warn" ELSE "info")
          \/ /\ config.enabled /\ config.endpoints = <<>>
             /\ Only("endpoints", "warn")
          \/ /\ config.enabled /\ config.endpoints # <<>>
             /\ phase' = "endpoint" /\ UNCHANGED findings
    /\ UNCHANGED <<world, faults, k, j, probe, readable>>

BeginEndpoint ==
    /\ phase = "endpoint" /\ k \in Endpoints
    /\ Emit({ConsensusIntentFinding} \cup When(~Endpoint.rpc, ProxydRPC("rpc", "warn")))
    /\ phase' = IF Endpoint.rpc THEN "chainId" ELSE "metrics"
    /\ UNCHANGED <<world, faults, k, j, probe, readable>>

ChainIDUnchecked ==
    /\ phase = "chainId"
    /\ \/ /\ Answered /\ phase' = "head"
          /\ Emit({ProxydRPC("chain_id", "ok")})
       \/ /\ Failed /\ phase' = "metrics"
          /\ Emit({ProxydRPC("rpc", "fail")})
    /\ UNCHANGED <<world, k, j, probe, readable>>

ChainID ==
    /\ phase = "chainId"
    /\ \/ /\ Answered /\ phase' = "head"
          /\ Emit({ProxydRPC("chain_id",
                     IF config.chainId # 0 /\ chain[k] # config.chainId THEN "fail" ELSE "ok")})
       \/ /\ Failed /\ phase' = "metrics"
          /\ Emit({ProxydRPC("rpc", "fail")})
    /\ UNCHANGED <<world, k, j, probe, readable>>

BlockNumber ==
    /\ phase = "head" /\ phase' = "metrics"
    /\ \/ Answered /\ probe' = {served[k]} /\ Emit({ProxydRPC("head", "ok")})
       \/ Failed   /\ probe' = {}          /\ Emit({ProxydRPC("head", "fail")})
    /\ UNCHANGED <<world, k, j, readable>>

Scrape ==
    /\ phase = "metrics" /\ phase' = "backends"
    /\ \/ /\ ~Endpoint.metrics /\ UNCHANGED faults
          /\ Emit({Metric(Endpoint, "metrics", "warn")})
       \/ /\ Endpoint.metrics /\ Answered
          /\ Emit(PageFindings(Endpoint, page[k], config.maxLatency))
       \/ /\ Endpoint.metrics /\ Failed
          /\ Emit({Metric(Endpoint, "metrics", "warn")})
    /\ UNCHANGED <<world, k, j, probe, readable>>

RetryBackend(fs, heads) ==
    /\ readable' = heads /\ Emit(fs)
    /\ j' = IF heads = readable /\ Known(Backends[j]) THEN j ELSE j + 1
    /\ UNCHANGED <<phase, k, probe>>

NextBackend(fs, heads) ==
    /\ readable' = heads /\ Emit(fs)
    /\ j' = j + 1
    /\ UNCHANGED <<phase, k, probe>>

Backend ==
    /\ phase = "backends" /\ j <= Len(Backends)
    /\ LET name == Backends[j] IN
       \/ /\ ~Known(name) /\ UNCHANGED faults
          /\ NextBackend({UnknownBackend(name)}, readable)
       \/ /\ Known(name) /\ ~Node(Named(name)).rpc /\ UNCHANGED faults
          /\ NextBackend({BackendFinding(name, "warn")}, readable)
       \/ /\ Known(name) /\ Node(Named(name)).rpc /\ Answered
          /\ NextBackend({BackendFinding(name, "ok")},
                         [readable EXCEPT ![name] = {head[Named(name)]}])
       \/ /\ Known(name) /\ Node(Named(name)).rpc /\ Failed
          /\ NextBackend({BackendFinding(name, "warn")}, readable)
    /\ UNCHANGED world

EndEndpoint ==
    /\ phase = "backends" /\ j > Len(Backends)
    /\ Emit(IF Backends = <<>> THEN {Proxyd("backends", "warn", NoSample)}
            ELSE BackendRoleFindings \cup HeadLagFindings \cup {Proxyd("backends", "ok", NoSample)})
    /\ phase' = "endpoint" /\ k' = k + 1 /\ j' = 1
    /\ probe' = {} /\ readable' = [n \in Names |-> {}]
    /\ UNCHANGED <<world, faults>>

Return ==
    /\ phase = "endpoint" /\ k \notin Endpoints
    /\ phase' = "done"
    /\ UNCHANGED <<world, faults, k, j, probe, readable, findings>>

-----------------------------------------------------------------------------
Init ==
    /\ \E d \in Deployments : config = d[1] /\ page = d[2] /\ chain = d[3]
    /\ head \in [Deployed -> Heights] /\ served \in [Endpoints -> Heights]
    /\ \A e \in Endpoints : served[e] = 0 \/ \E p \in Deployed : served[e] <= head[p]
    /\ expired = FALSE /\ faults = 0
    /\ lagged = Behind(head, served)
    /\ tracked = Endpoints \X Deployed \ Behind(head, served)
    /\ phase = "start" /\ k = 1 /\ j = 1
    /\ probe = {} /\ readable = [n \in Names |-> {}]
    /\ findings = {}

Doctor ==
    \/ Start \/ BeginEndpoint \/ ChainID \/ BlockNumber \/ Scrape
    \/ Backend \/ EndEndpoint \/ Return

Next == Fleet \/ Doctor

Spec == Init /\ [][Next]_vars

(***************************************************************************)
(* The doctor is one goroutine and each of its calls returns, by the       *)
(* timeout of the http client or the deadline of the context.  Nothing is  *)
(* assumed of the fleet.                                                   *)
(***************************************************************************)
FairSpec == Spec /\ WF_vars(Doctor)
-----------------------------------------------------------------------------
(* Properties *)

TypeOK ==
    /\ <<config, page, chain>> \in Deployments
    /\ head \in [Deployed -> Heights] /\ served \in [Endpoints -> Heights]
    /\ expired \in BOOLEAN /\ faults \in 0 .. MaxFaults
    /\ lagged \subseteq Endpoints \X Deployed /\ tracked \subseteq Endpoints \X Deployed
    /\ phase \in Phases /\ k \in 1 .. Len(config.endpoints) + 1
    /\ phase \in {"chainId", "head", "metrics", "backends"} =>
          k \in Endpoints /\ j \in 1 .. Len(Backends) + 1
    /\ probe \subseteq Heights /\ readable \in [Names -> SUBSET Heights]
    /\ \A f \in findings : f.severity \in Severities

\* A step that reports on the head lag of endpoint k: only a verdict has lag_blocks.
NewLagVerdict(severity) ==
    \E f \in findings' \ findings : f.severity = severity /\ f.sample[1] = "lag_blocks"

ReadBackends == {p \in Deployed : Named(Node(p).name) = p /\ readable[Node(p).name] # {}}

(***************************************************************************)
(* No missed lag.  When proxyd's head is reported to track its declared    *)
(* backends, then for each of them that was read there was a moment of the *)
(* run at which proxyd was not behind it by more than max_safe_lag_blocks, *)
(* although the backends were read later than proxyd and in turn.          *)
(***************************************************************************)
ProxydLagIsNotMissed ==
    [][NewLagVerdict("ok")
         => \A p \in ReadBackends : <<k, p>> \in tracked]_vars

\* Validate rejects a configuration in which this does not hold.
UniqueEndpoints ==
    \A a, b \in Endpoints : config.endpoints[a].name = config.endpoints[b].name => a = b

(***************************************************************************)
(* The gate of --fail-on fail is sound.  If this check alone would end     *)
(* with exit code 0, then every declared endpoint with an RPC URL answered *)
(* for the configured chain, every expected backend is a configured        *)
(* op-node, and no page that was scraped says that proxyd is down.  Of two *)
(* endpoints of one name, the finding that tells of a scrape may be the    *)
(* other's.                                                                *)
(***************************************************************************)
FailGateSound ==
    phase = "done" /\ config.enabled /\ ExitCode(findings, "fail") = 0 =>
        \A e \in Endpoints : LET endpoint == config.endpoints[e] IN
            /\ endpoint.rpc =>
                  /\ config.chainId \in {0, chain[e]}
                  /\ HasFinding(findings, <<"proxyd", endpoint.name, "head">>)
            /\ \A b \in ToSet(endpoint.backends) : Known(b)
            /\ UniqueEndpoints /\ HasFinding(findings, <<"proxyd", endpoint.name, "metrics_names">>) =>
                  page[e].up \subseteq {1}

SaidOk(id) == \E f \in findings : f.id = id /\ f.severity = "ok"

\* The entries of expected_backends that name a source.
SourceEntries(endpoint) ==
    {b \in 1 .. Len(endpoint.backends) :
        LET name == endpoint.backends[b] IN Known(name) /\ Node(Named(name)).role = "source"}

(***************************************************************************)
(* The gate of --fail-on warn is sound.  If this check alone would end     *)
(* with exit code 0 under it, then                                         *)
(*  - every endpoint has both URLs, its page was scraped, and the page     *)
(*    does not say that proxyd is down;                                    *)
(*  - it has expected backends, the head of each of them was read, the     *)
(*    verdict on its head lag is good, and of each of them there was a     *)
(*    moment of the run at which proxyd was not behind it by more than     *)
(*    max_safe_lag_blocks;                                                 *)
(*  - a deriver is consensus aware, and at least two of its entries name   *)
(*    sources;                                                             *)
(*  - no series of an expected backend says that it is unhealthy,          *)
(*    degraded, banned, out of sync or failing requests.                   *)
(***************************************************************************)
WarnGateSound ==
    phase = "done" /\ config.enabled /\ ExitCode(findings, "warn") = 0 =>
        /\ config.endpoints # <<>>
        /\ \A e \in Endpoints : LET endpoint == config.endpoints[e] pg == page[e] IN
            /\ endpoint.rpc /\ SaidOk(<<"proxyd", endpoint.name, "head">>)
            /\ endpoint.metrics /\ SaidOk(<<"proxyd", endpoint.name, "metrics">>)
            /\ pg.up \subseteq {1}
            /\ endpoint.backends # <<>>
            /\ \E f \in findings : /\ f.id = <<"proxyd", endpoint.name, "head_lag">>
                                   /\ f.severity = "ok" /\ f.sample[1] = "lag_blocks"
            /\ endpoint.role = "deriver" =>
                  endpoint.aware /\ Cardinality(SourceEntries(endpoint)) >= 2
            /\ \A b \in ToSet(endpoint.backends) :
                  /\ Known(b) /\ Node(Named(b)).rpc
                  /\ SaidOk(<<"proxyd", endpoint.name, "backend", b, "head">>)
                  /\ <<e, Named(b)>> \in tracked
                  /\ \A s \in pg.backend_probe_healthy \cup pg.backend_in_sync :
                        s.backend = b => s.value = 1
                  /\ \A s \in pg.backend_degraded \cup pg.backend_banned \cup pg.backend_error_rate :
                        s.backend = b => s.value = 0

LatencyWarned(name) ==
    \E f \in findings : f.id = <<"proxyd", name, "backend_latency">> /\ f.severity = "warn"

(***************************************************************************)
(* The verdict on the latency of backends is about the slowest of them.    *)
(* For a page that was scraped, a warning means that some quantile exceeds *)
(* max_rpc_latency_seconds, and if one does there is a warning, wherever   *)
(* it stands on the page and whatever sums, counts and quantiles of idle   *)
(* backends (NaN) are around it, unless the first quantile is NaN: a NaN   *)
(* that MaxValue meets first stays and hides all others.  Endpoints have   *)
(* names of their own.                                                     *)
(***************************************************************************)
SlowBackendsAreReported ==
    phase = "done" /\ config.enabled /\ UniqueEndpoints =>
        \A e \in Endpoints :
            LET name   == config.endpoints[e].name
                values == QuantileValues(page[e].backend_latency)
                slow   == \E i \in DOMAIN values : Above(values[i], {config.maxLatency})
            IN HasFinding(findings, <<"proxyd", name, "metrics_names">>) =>
                 /\ LatencyWarned(name) => slow
                 /\ slow /\ values[1] # NaN => LatencyWarned(name)

(***************************************************************************)
(* The check ends whatever the fleet does.                                 *)
(***************************************************************************)
Termination == <>(phase = "done")

(***************************************************************************)
(* docs/alerts.md: the head lag of proxyd is its "lag behind the latest    *)
(* readable declared backend".  If a lag is reported, proxyd was behind    *)
(* one of the backends read by more than max_safe_lag_blocks at some       *)
(* moment of the run.                                                      *)
(***************************************************************************)
ProxydLagAlarmIsReal ==
    [][NewLagVerdict("warn")
         => \E p \in ReadBackends : <<k, p>> \in lagged]_vars

(***************************************************************************)
(* docs/config.md: "A deriver proxyd with fewer than two expected source   *)
(* backends emits a warning."                                              *)
(***************************************************************************)
LackOfRedundancyIsReported ==
    phase = "done" /\ config.enabled =>
        \A e \in Endpoints : LET endpoint == config.endpoints[e] IN
            /\ endpoint.role = "deriver"
            /\ Cardinality({b \in ToSet(endpoint.backends) :
                              Known(b) /\ Node(Named(b)).role = "source"}) < 2
            => \E f \in findings : /\ f.severity = "warn"
                                   /\ \/ f.id = <<"proxyd", endpoint.name, "backend_roles">>
                                      \/ f.id = <<"proxyd", endpoint.name, "backends">>
=============================================================================
