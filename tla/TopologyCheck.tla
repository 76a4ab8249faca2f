---------------------------- MODULE TopologyCheck ----------------------------
(***************************************************************************)
(* checkOPNodeMetrics and checkTopology of internal/checks/checks.go: the  *)
(* metrics page of every op-node is scraped, in the order of the           *)
(* configuration, and then every light or sequencer node is compared with  *)
(* the source node it follows, by the heads that both answer over RPC and  *)
(* by the safe heads of the pages scraped before.                          *)
(*                                                                         *)
(* Four values that belong together are thus read at four moments, while   *)
(* the nodes advance.  Actions of the nodes: Advance, Derive and the       *)
(* deadline, Expire.  Actions of the doctor: one per call, and one for     *)
(* each pass of a loop that makes no call.  No chain reorganises here.     *)
(***************************************************************************)
EXTENDS Report, RPCCall

CONSTANTS
    Names,        \* names of op-nodes
    Deployments,  \* <<config, page>>: a configuration, after ApplyDefaults, with
                  \* the metrics page of each op-node, but for its safe head
    MaxNodes,     \* bound on the length of op_nodes
    MaxHead       \* bound on block heights

VARIABLES
    config,       \* op_nodes and the thresholds
    page,         \* per op-node: the metrics it exposes
    unsafe,       \* per op-node: the head it answers to eth_blockNumber
    safe,         \* per op-node: the value of its safe ref
    lagged,       \* history: followers that lagged at some moment of the run
    caughtUp,     \* history: followers that did not lag at some moment
    phase,        \* the loop or call the doctor is at
    k,            \* loop variable: index in op_nodes
    states,       \* per name: the safe ref scraped, as a set of at most one value
    sourceHead,   \* the source head read and not yet compared
    findings      \* the findings emitted so far

world  == <<config, page, unsafe, safe, lagged, caughtUp, expired>>
doctor == <<phase, k, states, sourceHead, findings>>
vars   == <<world, faults, doctor>>

Positions == 1 .. MaxNodes     \* an op-node is known by its place in op_nodes
Heights   == 0 .. MaxHead
Phases    == {"scrape", "follow", "sourceHead", "nodeHead", "done"}
RefKinds  == {"safe", "finalized", "unsafe"}

\* "other" is a role that Validate rejects; the checks do not look for it.
NodeType ==
    [name : Names, role : {"source", "light", "sequencer", "standalone", "other"},
     follows : Names \cup {""}, rpc : BOOLEAN, metrics : BOOLEAN]

\* The values of the series of each metric; refs are the kinds of labelled refs,
\* "other" being a series that refSample attributes to none of them.
PageType ==
    [up : SUBSET Nat, refs : SUBSET (RefKinds \cup {"other"}), peer_count : SUBSET Nat,
     derivation_errors_total : SUBSET Nat, pipeline_resets_total : SUBSET Nat,
     rpc_latency : SUBSET Nat]

ASSUME BoundsAssumption ==
    MaxNodes \in Nat /\ MaxHead \in Nat /\ MaxFaults \in Nat

ConfigType == [opNodes : Seq(NodeType), maxSafeLag : Nat, minPeerCount : Nat]

ASSUME DataAssumption ==
    /\ Deployments \subseteq ConfigType \X Seq(PageType)
    /\ \A d \in Deployments :
          Len(d[1].opNodes) <= MaxNodes /\ Len(d[2]) = Len(d[1].opNodes)

-----------------------------------------------------------------------------
(* The configured topology *)

Node(p)   == config.opNodes[p]
Deployed  == 1 .. Len(config.opNodes)
Sources   == {p \in Deployed : Node(p).role = "source"}
Followers == {p \in Deployed : Node(p).role \in {"light", "sequencer"}}

\* nodes[name]: of several nodes of one name the map keeps the last.
Named(name) == Max({p \in Deployed : Node(p).name = name})

FollowsSource(p) ==
    /\ \E q \in Deployed : Node(q).name = Node(p).follows
    /\ Named(Node(p).follows) \in Sources

SourceOf(p) == Named(Node(p).follows)

UniqueNames == \A p, q \in Deployed : Node(p).name = Node(q).name => p = q

-----------------------------------------------------------------------------
(* The nodes *)

Lagging(heads) ==
    {p \in Followers : FollowsSource(p)
                       /\ heads[SourceOf(p)] > heads[p] + config.maxSafeLag}

Observe(heads) ==
    /\ lagged'   = lagged \cup Lagging(heads)
    /\ caughtUp' = caughtUp \cup (Followers \ Lagging(heads))

Advance(p) ==
    /\ unsafe[p] < MaxHead
    /\ unsafe' = [unsafe EXCEPT ![p] = @ + 1]
    /\ UNCHANGED <<config, page, safe, lagged, caughtUp, expired, faults, doctor>>

Derive(p) ==
    /\ safe[p] < unsafe[p]
    /\ safe' = [safe EXCEPT ![p] = @ + 1]
    /\ Observe(safe')
    /\ UNCHANGED <<config, page, unsafe, expired, faults, doctor>>

Expire ==
    /\ ~expired /\ expired' = TRUE
    /\ UNCHANGED <<config, page, unsafe, safe, lagged, caughtUp, faults, doctor>>

Nodes == Expire \/ \E p \in Deployed : Advance(p) \/ Derive(p)

-----------------------------------------------------------------------------
(* Findings *)

Emit(fs) == findings' = findings \cup fs

Metric(name, id, severity) ==
    Finding(<<"op_node", name, id>>, severity, <<"op_nodes", name, "metrics">>, NoSample)

Topology(name, id, severity, target, sample) ==
    Finding(<<"topology", name, id>>, severity, target, sample)

Missing ==
    [up |-> "up_missing", refs |-> "refs_missing", peer_count |-> "peer_count_missing",
     derivation_errors_total |-> "derivation_errors_total_missing",
     pipeline_resets_total |-> "pipeline_resets_total_missing",
     rpc_latency |-> "rpc_latency_missing", safe |-> "refs_safe_missing",
     finalized |-> "refs_finalized_missing", unsafe |-> "refs_unsafe_missing"]

Ref == [safe |-> "refs_safe", finalized |-> "refs_finalized", unsafe |-> "refs_unsafe"]

VerdictUngraded(name, pg, id, good, severity) ==
    IF pg[id] = {} THEN Metric(name, Missing[id], "")
    ELSE Metric(name, id, IF good THEN "ok" ELSE severity)

\* The verdict on the series of metric id: missing, good, or bad with a severity.
Verdict(name, pg, id, good, severity) ==
    IF pg[id] = {} THEN Metric(name, Missing[id], "warn")
    ELSE Metric(name, id, IF good THEN "ok" ELSE severity)

\* checkNodeMetricSamples.
NodeMetricFindings(name, pg) ==
    {Verdict(name, pg, "up", \A v \in pg.up : v = 1, "fail"),
     Verdict(name, pg, "refs", TRUE, "ok"),
     Verdict(name, pg, "peer_count", \A v \in pg.peer_count : v >= config.minPeerCount, "warn"),
     Verdict(name, pg, "derivation_errors_total",
             \A v \in pg.derivation_errors_total : v = 0, "warn"),
     Verdict(name, pg, "pipeline_resets_total",
             \A v \in pg.pipeline_resets_total : v = 0, "warn"),
     Verdict(name, pg, "rpc_latency", TRUE, "ok")}
    \cup
    IF pg.refs = {} THEN {}
    ELSE {IF r \in pg.refs THEN Metric(name, Ref[r], "ok")
          ELSE Metric(name, Missing[r], "info") : r \in RefKinds}

SourceTierFinding ==
    Finding(<<"topology", "source_tier">>,
            IF Cardinality(Sources) >= 2 THEN "ok" ELSE "warn", <<"op_nodes">>, NoSample)

AbsoluteLag(ahead, behind) == IF ahead > behind THEN ahead - behind ELSE behind - ahead

Lag(ahead, behind) == IF ahead > behind THEN ahead - behind ELSE 0

LagFindingAboveTwice(p, id, target, lag) ==
    Topology(Node(p).name, id, IF lag > 2 * config.maxSafeLag + 1 THEN "warn" ELSE "ok",
             target, <<"lag_blocks", lag>>)

LagFinding(p, id, target, lag) ==
    Topology(Node(p).name, id, IF lag > config.maxSafeLag THEN "warn" ELSE "ok",
             target, <<"lag_blocks", lag>>)

\* compareTopologyMetricSafeHeads: unavailable unless both pages had a safe ref.
SafeHeadFindings(p) ==
    LET source == states[Node(SourceOf(p)).name]
        node   == states[Node(p).name]
        target == <<"op_nodes", Node(p).name, "metrics">>
    IN IF source = {} \/ node = {}
       THEN {Topology(Node(p).name, "safe_head_metrics", "info", target, NoSample)}
       ELSE {LagFinding(p, "safe_head_metrics", target, Lag(s, n)) : s \in source, n \in node}

-----------------------------------------------------------------------------
(* checkOPNodeMetrics: one scrape per node *)

\* What a scrape leaves in metricStates[node.Name].
Scraped(name, refs, fs) ==
    /\ states' = [states EXCEPT ![name] = refs]
    /\ Emit(fs)

ScrapeErrorIgnored ==
    /\ phase = "scrape" /\ k <= Len(config.opNodes)
    /\ LET node == Node(k) IN
       \/ /\ ~node.metrics /\ UNCHANGED faults
          /\ Scraped(node.name, {}, {Metric(node.name, "metrics_endpoint", "warn")})
       \/ /\ node.metrics /\ Answered
          /\ Scraped(node.name, IF "safe" \in page[k].refs THEN {safe[k]} ELSE {},
                     {Metric(node.name, "metrics_fetch", "ok")}
                     \cup NodeMetricFindings(node.name, page[k]))
       \/ /\ node.metrics /\ Failed
          /\ Scraped(node.name, {}, {Metric(node.name, "metrics_fetch", "info")})
    /\ k' = k + 1
    /\ UNCHANGED <<world, phase, sourceHead>>

Scrape ==
    /\ phase = "scrape" /\ k <= Len(config.opNodes)
    /\ LET node == Node(k) IN
       \/ /\ ~node.metrics /\ UNCHANGED faults
          /\ Scraped(node.name, {}, {Metric(node.name, "metrics_endpoint", "warn")})
       \/ /\ node.metrics /\ Answered
          /\ Scraped(node.name, IF "safe" \in page[k].refs THEN {safe[k]} ELSE {},
                     {Metric(node.name, "metrics_fetch", "ok")}
                     \cup NodeMetricFindings(node.name, page[k]))
       \/ /\ node.metrics /\ Failed
          /\ Scraped(node.name, {}, {Metric(node.name, "metrics_fetch", "warn")})
    /\ k' = k + 1
    /\ UNCHANGED <<world, phase, sourceHead>>

-----------------------------------------------------------------------------
(* checkTopology: one pass of the loop per node *)

SourceTier ==
    /\ phase = "scrape" /\ k > Len(config.opNodes)
    /\ phase' = "follow" /\ k' = 1
    /\ Emit({SourceTierFinding})
    /\ UNCHANGED <<world, faults, states, sourceHead>>

RPCHeadsOnly(fs) ==
    /\ phase' = "follow" /\ k' = k + 1 /\ sourceHead' = 0
    /\ Emit(fs)

RetryFollower(fs) ==
    /\ phase' = "follow" /\ sourceHead' = 0
    /\ k' = IF \E f \in fs : f.severity = "warn" THEN k ELSE k + 1
    /\ Emit(fs \cup SafeHeadFindings(k))

\* compareTopologyRPCHeads returned fs: the safe heads follow, and the next node.
NextFollower(fs) ==
    /\ phase' = "follow" /\ k' = k + 1 /\ sourceHead' = 0
    /\ Emit(fs \cup SafeHeadFindings(k))

RPCHead(severity, target) ==
    Topology(Node(k).name, "rpc_head", severity, target, NoSample)

Declared(severity) ==
    Topology(Node(k).name, "follows", severity, <<"op_nodes", Node(k).name>>, NoSample)

Follow ==
    /\ phase = "follow" /\ k <= Len(config.opNodes)
    /\ \/ /\ k \notin Followers \/ ~FollowsSource(k)
          /\ k' = k + 1 /\ UNCHANGED <<phase, sourceHead>>
          /\ Emit(When(k \in Followers,
                       Declared(IF Node(k).follows = "" THEN "warn" ELSE "fail")))
       \/ /\ k \in Followers /\ FollowsSource(k)
          /\ IF Node(k).rpc /\ Node(SourceOf(k)).rpc
             THEN /\ phase' = "sourceHead" /\ UNCHANGED <<k, sourceHead>>
                  /\ Emit({Declared("ok")})
             ELSE NextFollower({Declared("ok"),
                                RPCHead("warn", <<"op_nodes", Node(k).name, "rpc">>)})
    /\ UNCHANGED <<world, faults, states>>

SourceHead ==
    /\ phase = "sourceHead"
    /\ \/ /\ Answered
          /\ sourceHead' = unsafe[SourceOf(k)]
          /\ phase' = "nodeHead" /\ UNCHANGED <<k, findings>>
       \/ /\ Failed
          /\ NextFollower({RPCHead("warn", <<"op_nodes", Node(SourceOf(k)).name, "rpc">>)})
    /\ UNCHANGED <<world, states>>

NodeHead ==
    /\ phase = "nodeHead"
    /\ \/ /\ Answered
          /\ NextFollower({LagFinding(k, "rpc_head", <<"op_nodes", Node(k).name>>,
                                      Lag(sourceHead, unsafe[k]))})
       \/ /\ Failed
          /\ NextFollower({RPCHead("warn", <<"op_nodes", Node(k).name, "rpc">>)})
    /\ UNCHANGED <<world, states>>

Return ==
    /\ phase = "follow" /\ k > Len(config.opNodes)
    /\ phase' = "done"
    /\ UNCHANGED <<world, faults, k, states, sourceHead, findings>>

-----------------------------------------------------------------------------
Init ==
    /\ \E d \in Deployments : config = d[1] /\ page = d[2]
    /\ unsafe \in [Deployed -> Heights]
    /\ safe \in [Deployed -> Heights] /\ \A p \in Deployed : safe[p] <= unsafe[p]
    /\ expired = FALSE /\ faults = 0
    /\ lagged = Lagging(safe) /\ caughtUp = Followers \ Lagging(safe)
    /\ phase = "scrape" /\ k = 1
    /\ states = [n \in Names |-> {}]
    /\ sourceHead = 0
    /\ findings = {}

Doctor == Scrape \/ SourceTier \/ Follow \/ SourceHead \/ NodeHead \/ Return

Next == Nodes \/ Doctor

Spec == Init /\ [][Next]_vars

(***************************************************************************)
(* The doctor is one goroutine and each of its calls returns, by the       *)
(* timeout of the http client or the deadline of the context.  Nothing is  *)
(* assumed of the op-nodes.                                                *)
(***************************************************************************)
FairSpec == Spec /\ WF_vars(Doctor)
-----------------------------------------------------------------------------
(* Properties *)

TypeOK ==
    /\ <<config, page>> \in Deployments
    /\ unsafe \in [Deployed -> Heights] /\ safe \in [Deployed -> Heights]
    /\ expired \in BOOLEAN /\ faults \in 0 .. MaxFaults
    /\ lagged \subseteq Followers /\ caughtUp \subseteq Followers
    /\ phase \in Phases /\ k \in 1 .. Len(config.opNodes) + 1
    /\ states \in [Names -> SUBSET Heights] /\ sourceHead \in Heights
    /\ \A f \in findings : f.severity \in Severities

\* The lag verdicts of one kind that a step adds for the node at k.
NewVerdicts(id, severity) ==
    {f \in findings' \ findings :
        /\ k \in Deployed /\ f.id = <<"topology", Node(k).name, id>>
        /\ f.severity = severity /\ f.sample[1] = "lag_blocks"}

(***************************************************************************)
(* No false alarm over RPC.  When a follower's RPC head is reported to lag *)
(* its source, it is behind by more than max_safe_lag_blocks at that very  *)
(* moment: the source head is the older of the two reads.                  *)
(***************************************************************************)
FollowerLagAlarmIsReal ==
    [][NewVerdicts("rpc_head", "warn") # {}
         => unsafe[SourceOf(k)] - unsafe[k] > config.maxSafeLag]_vars

\* The pages of the follower at p and of its source were scraped in this order.
SourceScrapedFirst(p) == UniqueNames /\ SourceOf(p) < p
NodeScrapedFirst(p)   == UniqueNames /\ p < SourceOf(p)

(***************************************************************************)
(* No false alarm from the metrics of a follower configured after its      *)
(* source: its safe head is reported to lag only if it did lag by more     *)
(* than max_safe_lag_blocks at some moment of the run.                     *)
(***************************************************************************)
SafeLagAlarmIsReal ==
    [][NewVerdicts("safe_head_metrics", "warn") # {} /\ SourceScrapedFirst(k)
         => k \in lagged]_vars

(***************************************************************************)
(* No missed lag of a follower configured before its source: its safe head *)
(* is reported to track the source only if it was within the threshold at  *)
(* some moment of the run.                                                 *)
(***************************************************************************)
SafeLagIsNotMissed ==
    [][NewVerdicts("safe_head_metrics", "ok") # {} /\ NodeScrapedFirst(k)
         => k \in caughtUp]_vars

(***************************************************************************)
(* The report is complete whatever fails: once the checks are over, every  *)
(* follower of a source has a verdict or an explanation for its RPC head   *)
(* and for its safe head, and every op-node one for its metrics page.      *)
(***************************************************************************)
ReportIsComplete ==
    phase = "done" =>
        /\ \A p \in Followers : FollowsSource(p) =>
              \A id \in {"rpc_head", "safe_head_metrics"} :
                 HasFinding(findings, <<"topology", Node(p).name, id>>)
        /\ \A p \in Deployed : \E id \in {"metrics_endpoint", "metrics_fetch"} :
              HasFinding(findings, <<"op_node", Node(p).name, id>>)

Healthy(pg) ==
    /\ pg.up = {1} /\ pg.refs # {} /\ pg.rpc_latency # {}
    /\ pg.peer_count # {} /\ \A v \in pg.peer_count : v >= config.minPeerCount
    /\ pg.derivation_errors_total = {0} /\ pg.pipeline_resets_total = {0}

(***************************************************************************)
(* The gate of --fail-on warn is sound.  If these checks alone would end   *)
(* with exit code 0 under it, then the source tier is redundant, every     *)
(* follower follows a source and was compared with it over RPC, every page *)
(* is healthy: no scrape or read that failed or was never made is taken    *)
(* for health.                                                             *)
(***************************************************************************)
WarnGateSound ==
    phase = "done" /\ ExitCode(findings, "warn") = 0 =>
        /\ Cardinality(Sources) >= 2
        /\ \A p \in Followers :
              /\ FollowsSource(p)
              /\ \E f \in findings : /\ f.id = <<"topology", Node(p).name, "rpc_head">>
                                     /\ f.sample[1] = "lag_blocks"
        /\ \A p \in Deployed : Node(p).metrics /\ Healthy(page[p])

(***************************************************************************)
(* The checks end whatever the op-nodes do.                                *)
(***************************************************************************)
Termination == <>(phase = "done")

(***************************************************************************)
(* docs/config.md calls max_safe_lag_blocks the threshold "for follower    *)
(* safe-head or RPC-head lag behind source": a follower that never lags by *)
(* more than it is never reported to, wherever it is configured.           *)
(***************************************************************************)
SafeLagAlarmIsAlwaysReal ==
    [][NewVerdicts("safe_head_metrics", "warn") # {} /\ UniqueNames
         => k \in lagged]_vars
=============================================================================
