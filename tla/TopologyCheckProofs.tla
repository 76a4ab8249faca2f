-------------------------- MODULE TopologyCheckProofs --------------------------
(***************************************************************************)
(* Proofs about TopologyCheck, for every configuration, every content of   *)
(* the metrics pages and every course of the heads: its types, that the    *)
(* report is complete, that its lag verdicts are real, that the gate of    *)
(* --fail-on warn does not open on anything unread or bad, that Validate   *)
(* agrees with it, and that no two lags are exported as one series.        *)
(***************************************************************************)
EXTENDS TopologyExport, ReportProofs, SequenceTheorems

World ==
    /\ <<config, page>> \in Deployments
    /\ unsafe \in [Deployed -> Heights] /\ safe \in [Deployed -> Heights]
    /\ expired \in BOOLEAN /\ faults \in 0 .. MaxFaults
    /\ lagged \subseteq Followers /\ caughtUp \subseteq Followers

\* What the program counter says of the node at k, and what scrapes leave behind.
Doctors ==
    /\ phase \in Phases /\ k \in 1 .. Len(config.opNodes) + 1
    /\ phase \in {"sourceHead", "nodeHead"} => k \in Followers /\ FollowsSource(k)
    /\ states \in [Names -> SUBSET Heights]
    /\ \A n \in Names : states[n] = {} \/ \E h \in Heights : states[n] = {h}
    /\ sourceHead \in Heights

Types == World /\ Doctors /\ Graded(findings)

-----------------------------------------------------------------------------
(* Types of the data *)

LEMMA DeploymentTypes ==
    ASSUME World
    PROVE  /\ config \in ConfigType
           /\ Len(config.opNodes) \in Nat
           /\ config.maxSafeLag \in Nat /\ config.minPeerCount \in Nat
           /\ \A p \in Deployed : Node(p) \in NodeType /\ Node(p).name \in Names
           /\ \A p \in Deployed : page[p] \in PageType
<1>1. <<config, page>> \in ConfigType \X Seq(PageType)
      /\ Len(page) = Len(config.opNodes)
  BY DataAssumption DEF World
<1>2. config \in ConfigType /\ page \in Seq(PageType)
  BY <1>1
<1>3. /\ config.opNodes \in Seq(NodeType)
      /\ config.maxSafeLag \in Nat /\ config.minPeerCount \in Nat
  BY <1>2 DEF ConfigType
<1>4. \A p \in Deployed : Node(p) \in NodeType
  BY <1>3 DEF Deployed, Node
<1>5. \A p \in Deployed : Node(p).name \in Names
  BY <1>4 DEF NodeType
<1>6. \A p \in Deployed : page[p] \in PageType
  BY <1>1, <1>2 DEF Deployed
<1> QED
  BY <1>2, <1>3, <1>4, <1>5, <1>6

LEMMA FollowerTypes ==
    ASSUME NEW p \in Followers
    PROVE  p \in Deployed /\ (FollowsSource(p) => SourceOf(p) \in Sources /\ SourceOf(p) \in Deployed)
BY DEF Followers, FollowsSource, SourceOf, Sources

LEMMA HeightTypes ==
    /\ Heights \subseteq Nat
    /\ \A x, y \in Heights : Lag(x, y) \in Nat
BY BoundsAssumption DEF Heights, Lag

-----------------------------------------------------------------------------
(* What the checks report has a severity *)

LEMMA MetricGraded ==
    ASSUME NEW name, NEW id, NEW severity, severity \in Severities
    PROVE  Graded({Metric(name, id, severity)})
BY FindingGraded DEF Metric

LEMMA TopologyGraded ==
    ASSUME NEW name, NEW id, NEW severity, severity \in Severities, NEW target, NEW sample
    PROVE  Graded({Topology(name, id, severity, target, sample)})
BY FindingGraded DEF Topology

LEMMA VerdictGraded ==
    ASSUME NEW name, NEW pg, NEW id, NEW good, NEW severity, severity \in Severities
    PROVE  Graded({Verdict(name, pg, id, good, severity)})
<1>1. CASE pg[id] = {}
  BY <1>1, MetricGraded DEF Verdict, Severities
<1>2. CASE pg[id] # {} /\ good
  BY <1>2, MetricGraded DEF Verdict, Severities
<1>3. CASE pg[id] # {} /\ ~good
  BY <1>3, MetricGraded DEF Verdict
<1> QED
  BY <1>1, <1>2, <1>3

LEMMA NodeMetricsGraded ==
    ASSUME NEW name, NEW pg
    PROVE  Graded(NodeMetricFindings(name, pg))
<1> DEFINE a == Verdict(name, pg, "up", \A v \in pg.up : v = 1, "fail")
           b == Verdict(name, pg, "refs", TRUE, "ok")
           c == Verdict(name, pg, "peer_count", \A v \in pg.peer_count : v >= config.minPeerCount, "warn")
           d == Verdict(name, pg, "derivation_errors_total",
                        \A v \in pg.derivation_errors_total : v = 0, "warn")
           e == Verdict(name, pg, "pipeline_resets_total",
                        \A v \in pg.pipeline_resets_total : v = 0, "warn")
           g == Verdict(name, pg, "rpc_latency", TRUE, "ok")
           ref(r) == IF r \in pg.refs THEN Metric(name, Ref[r], "ok")
                     ELSE Metric(name, Missing[r], "info")
           refs == IF pg.refs = {} THEN {} ELSE {ref(r) : r \in RefKinds}
<1>1. /\ Graded({a}) /\ Graded({b}) /\ Graded({c})
      /\ Graded({d}) /\ Graded({e}) /\ Graded({g})
  BY VerdictGraded DEF Severities
<1>2. ASSUME NEW r PROVE Graded({ref(r)})
  BY MetricGraded DEF Severities
<1>3. Graded(refs)
  <2>1. {ref(r) : r \in RefKinds} = {ref("safe")} \cup ({ref("finalized")} \cup {ref("unsafe")})
    BY DEF RefKinds
  <2>2. Graded({ref("safe")}) /\ Graded({ref("finalized")}) /\ Graded({ref("unsafe")})
    BY <1>2
  <2> HIDE DEF ref
  <2>3. Graded({ref("finalized")} \cup {ref("unsafe")})
    BY <2>2, GradedUnion
  <2>4. Graded({ref(r) : r \in RefKinds})
    BY <2>1, <2>2, <2>3, GradedUnion
  <2> QED
    BY <2>4, GradedEmpty
<1>4. NodeMetricFindings(name, pg) = {a, b, c, d, e, g} \cup refs
  BY DEF NodeMetricFindings
<1> HIDE DEF a, b, c, d, e, g, refs
<1>5. {a, b, c, d, e, g} = {a} \cup ({b} \cup ({c} \cup ({d} \cup ({e} \cup {g}))))
  OBVIOUS
<1>6. Graded({d} \cup ({e} \cup {g}))
  BY <1>1, GradedUnion
<1>7. Graded({c} \cup ({d} \cup ({e} \cup {g})))
  BY <1>1, <1>6, GradedUnion
<1>8. Graded({b} \cup ({c} \cup ({d} \cup ({e} \cup {g}))))
  BY <1>1, <1>7, GradedUnion
<1>9. Graded({a, b, c, d, e, g})
  BY <1>1, <1>5, <1>8, GradedUnion
<1> QED
  BY <1>3, <1>4, <1>9, GradedUnion

LEMMA LagGraded ==
    ASSUME NEW p, NEW id, NEW target, NEW lag
    PROVE  Graded({LagFinding(p, id, target, lag)})
<1>1. CASE lag > config.maxSafeLag
  BY <1>1, TopologyGraded DEF LagFinding, Severities
<1>2. CASE ~(lag > config.maxSafeLag)
  BY <1>2, TopologyGraded DEF LagFinding, Severities
<1> QED
  BY <1>1, <1>2

\* With one safe head on either side there is one verdict, otherwise an explanation.
LEMMA SafeHeadVerdict ==
    ASSUME Types, NEW p \in Followers, FollowsSource(p)
    PROVE  LET source == states[Node(SourceOf(p)).name]
               node   == states[Node(p).name]
               target == <<"op_nodes", Node(p).name, "metrics">>
           IN \/ /\ source = {} \/ node = {}
                 /\ SafeHeadFindings(p)
                      = {Topology(Node(p).name, "safe_head_metrics", "info", target, NoSample)}
              \/ \E s, n \in Heights :
                    /\ source = {s} /\ node = {n}
                    /\ SafeHeadFindings(p)
                         = {LagFinding(p, "safe_head_metrics", target, Lag(s, n))}
<1> DEFINE source == states[Node(SourceOf(p)).name]
           node   == states[Node(p).name]
           target == <<"op_nodes", Node(p).name, "metrics">>
<1>1. Node(SourceOf(p)).name \in Names /\ Node(p).name \in Names
  BY FollowerTypes, DeploymentTypes DEF Types
<1>2. /\ source = {} \/ \E h \in Heights : source = {h}
      /\ node = {} \/ \E h \in Heights : node = {h}
  BY <1>1 DEF Types, Doctors
<1>3. SafeHeadFindings(p) =
        IF source = {} \/ node = {}
        THEN {Topology(Node(p).name, "safe_head_metrics", "info", target, NoSample)}
        ELSE {LagFinding(p, "safe_head_metrics", target, Lag(s, n)) : s \in source, n \in node}
  BY DEF SafeHeadFindings
<1> HIDE DEF source, node, target
<1>4. CASE source = {} \/ node = {}
  BY <1>3, <1>4 DEF source, node, target
<1>5. CASE source # {} /\ node # {}
  <2>1. PICK s \in Heights, n \in Heights : source = {s} /\ node = {n}
    BY <1>2, <1>5
  <2>2. SafeHeadFindings(p) = {LagFinding(p, "safe_head_metrics", target, Lag(s, n))}
    BY <1>3, <1>5, <2>1
  <2> QED
    BY <2>1, <2>2 DEF source, node, target
<1> QED
  BY <1>4, <1>5

LEMMA SafeHeadGraded ==
    ASSUME Types, NEW p \in Followers, FollowsSource(p)
    PROVE  Graded(SafeHeadFindings(p))
<1>1. \/ SafeHeadFindings(p) = {Topology(Node(p).name, "safe_head_metrics", "info",
                                  <<"op_nodes", Node(p).name, "metrics">>, NoSample)}
      \/ \E s, n \in Heights : SafeHeadFindings(p)
           = {LagFinding(p, "safe_head_metrics", <<"op_nodes", Node(p).name, "metrics">>, Lag(s, n))}
  BY SafeHeadVerdict
<1> QED
  BY <1>1, TopologyGraded, LagGraded DEF Severities

-----------------------------------------------------------------------------
(* Type correctness *)

LEMMA EmitGraded ==
    ASSUME Graded(findings), NEW fs, Graded(fs), Emit(fs)
    PROVE  Graded(findings')
BY GradedUnion DEF Emit

LEMMA FaultsCounted ==
    ASSUME faults \in 0 .. MaxFaults, Answered \/ Failed
    PROVE  faults' \in 0 .. MaxFaults
BY BoundsAssumption DEF Answered, Failed

LEMMA WorldStands ==
    ASSUME World, UNCHANGED world, faults' \in 0 .. MaxFaults
    PROVE  World'
BY DEF World, world, Deployed, Followers, Node

\* The configured topology does not change.
LEMMA TopologyStands ==
    ASSUME UNCHANGED config
    PROVE  /\ Deployed' = Deployed /\ Followers' = Followers /\ Sources' = Sources
           /\ \A p : Node(p)' = Node(p) /\ SourceOf(p)' = SourceOf(p)
           /\ \A p : FollowsSource(p)' <=> FollowsSource(p)
           /\ UniqueNames' <=> UniqueNames
BY DEF Deployed, Followers, Sources, Node, SourceOf, Named, FollowsSource, UniqueNames

\* A step of an op-node or of the deadline.
LEMMA NodesStep ==
    ASSUME World, Nodes
    PROVE  /\ UNCHANGED <<config, page, faults, doctor>>
           /\ unsafe' \in [Deployed -> Heights] /\ safe' \in [Deployed -> Heights]
           /\ \A q \in Deployed : unsafe[q] <= unsafe'[q] /\ safe[q] <= safe'[q]
           /\ expired' \in BOOLEAN
           /\ lagged \subseteq lagged' /\ lagged' \subseteq Followers
           /\ caughtUp \subseteq caughtUp' /\ caughtUp' \subseteq Followers
           /\ (UNCHANGED <<safe, lagged, caughtUp>> \/ Observe(safe'))
<1> USE BoundsAssumption DEF Heights
<1>1. CASE Expire
  BY <1>1 DEF Expire, World
<1>2. ASSUME NEW p \in Deployed, Advance(p)
      PROVE  /\ unsafe' \in [Deployed -> Heights]
             /\ \A q \in Deployed : unsafe[q] <= unsafe'[q]
             /\ UNCHANGED <<config, page, safe, lagged, caughtUp, expired, faults, doctor>>
  <2>1. unsafe[p] + 1 \in Heights
    BY <1>2 DEF Advance, World
  <2> QED
    BY <1>2, <2>1 DEF Advance, World
<1>3. ASSUME NEW p \in Deployed, Derive(p)
      PROVE  /\ safe' \in [Deployed -> Heights]
             /\ \A q \in Deployed : safe[q] <= safe'[q]
             /\ Observe(safe') /\ UNCHANGED <<config, page, unsafe, expired, faults, doctor>>
  <2>1. safe[p] + 1 \in Heights
    BY <1>3 DEF Derive, World
  <2> QED
    BY <1>3, <2>1 DEF Derive, World
<1>4. Observe(safe') => /\ lagged \subseteq lagged' /\ lagged' \subseteq Followers
                        /\ caughtUp \subseteq caughtUp' /\ caughtUp' \subseteq Followers
  BY DEF Observe, Lagging, World
<1>5. \A q \in Deployed : unsafe[q] <= unsafe[q] /\ safe[q] <= safe[q]
  BY DEF World
<1>6. CASE \E p \in Deployed : Advance(p)
  BY <1>2, <1>5, <1>6 DEF World
<1>7. CASE \E p \in Deployed : Derive(p)
  BY <1>3, <1>4, <1>5, <1>7 DEF World
<1> QED
  BY <1>1, <1>5, <1>6, <1>7 DEF Nodes, World, Expire

LEMMA InitTypes ==
    ASSUME Init
    PROVE  Types
<1>1. PICK d \in Deployments : config = d[1] /\ page = d[2]
  BY DEF Init
<1>2. d = <<d[1], d[2]>>
  BY DataAssumption
<1>3. World
  <2>1. <<config, page>> \in Deployments
    BY <1>1, <1>2
  <2>2. faults \in 0 .. MaxFaults
    BY BoundsAssumption DEF Init
  <2>3. expired \in BOOLEAN
    BY DEF Init
  <2>4. lagged \subseteq Followers /\ caughtUp \subseteq Followers
    BY DEF Init, Lagging
  <2> QED
    BY <2>1, <2>2, <2>3, <2>4 DEF Init, World
<1>4. Doctors
  <2>1. phase \in Phases /\ k \in 1 .. Len(config.opNodes) + 1 /\ phase = "scrape"
    BY <1>3, DeploymentTypes DEF Init, Phases
  <2>2. states = [n \in Names |-> {}] /\ sourceHead \in Heights
    BY BoundsAssumption DEF Init, Heights
  <2> QED
    BY <2>1, <2>2 DEF Doctors
<1>5. Graded(findings)
  BY GradedEmpty DEF Init
<1> QED
  BY <1>3, <1>4, <1>5 DEF Types

\* A scrape of the node at k: what it finds, what it leaves behind.
LEMMA ScrapeStep ==
    ASSUME Types, Scrape
    PROVE  /\ UNCHANGED <<world, phase, sourceHead>> /\ phase = "scrape"
           /\ k \in Deployed /\ k' = k + 1
           /\ faults' \in 0 .. MaxFaults
           /\ Graded(findings') /\ findings \subseteq findings'
           /\ \E refs : /\ states' = [states EXCEPT ![Node(k).name] = refs]
                        /\ refs = {} \/ refs = {safe[k]}
<1>1. /\ UNCHANGED <<world, phase, sourceHead>> /\ phase = "scrape" /\ k' = k + 1
      /\ k <= Len(config.opNodes) /\ faults \in 0 .. MaxFaults /\ Graded(findings)
  BY DEF Scrape, Types, World
<1>2. k \in Deployed
  BY <1>1, DeploymentTypes DEF Types, Doctors, Deployed
<1> DEFINE name == Node(k).name
           good == {Metric(name, "metrics_fetch", "ok")} \cup NodeMetricFindings(name, page[k])
           refs == IF "safe" \in page[k].refs THEN {safe[k]} ELSE {}
<1>3. /\ Graded({Metric(name, "metrics_endpoint", "warn")})
      /\ Graded({Metric(name, "metrics_fetch", "warn")})
  BY MetricGraded DEF Severities
<1>4. Graded(good)
  <2>1. Graded({Metric(name, "metrics_fetch", "ok")})
    BY MetricGraded DEF Severities
  <2> QED
    BY <2>1, NodeMetricsGraded, GradedUnion
<1> HIDE DEF good, name, refs
<1>5. \/ UNCHANGED faults /\ Scraped(name, {}, {Metric(name, "metrics_endpoint", "warn")})
      \/ Answered /\ Scraped(name, refs, good)
      \/ Failed /\ Scraped(name, {}, {Metric(name, "metrics_fetch", "warn")})
  BY DEF Scrape, name, refs, good
<1>6. faults' \in 0 .. MaxFaults
  BY <1>1, <1>5, FaultsCounted
<1>7. PICK rs, fs : Scraped(name, rs, fs) /\ (rs = {} \/ rs = refs) /\ Graded(fs)
  BY <1>3, <1>4, <1>5
<1>8. Graded(findings') /\ findings \subseteq findings'
  BY <1>1, <1>7, EmitGraded DEF Scraped, Emit
<1>9. states' = [states EXCEPT ![Node(k).name] = rs] /\ (rs = {} \/ rs = {safe[k]})
  BY <1>7 DEF Scraped, name, refs
<1> QED
  BY <1>1, <1>2, <1>6, <1>8, <1>9

LEMMA ScrapeTypes ==
    ASSUME Types, Scrape
    PROVE  Types'
<1>1. /\ UNCHANGED <<world, phase, sourceHead>> /\ phase = "scrape"
      /\ k \in Deployed /\ k' = k + 1
      /\ faults' \in 0 .. MaxFaults /\ Graded(findings')
  BY ScrapeStep
<1>2. PICK refs : /\ states' = [states EXCEPT ![Node(k).name] = refs]
                  /\ refs = {} \/ refs = {safe[k]}
  BY ScrapeStep
<1>3. safe[k] \in Heights
  BY <1>1 DEF Types, World
<1>4. k' \in 1 .. Len(config.opNodes) + 1
  BY <1>1, DeploymentTypes DEF Types, Deployed
<1>5. states \in [Names -> SUBSET Heights]
      /\ \A n \in Names : states[n] = {} \/ \E h \in Heights : states[n] = {h}
  BY DEF Types, Doctors
<1>6. states' \in [Names -> SUBSET Heights]
      /\ \A n \in Names : states'[n] = {} \/ \E h \in Heights : states'[n] = {h}
  <2>1. ASSUME NEW n \in Names
        PROVE  states'[n] \in SUBSET Heights
               /\ (states'[n] = {} \/ \E h \in Heights : states'[n] = {h})
    BY <1>2, <1>3, <1>5
  <2>2. DOMAIN states' = Names /\ states' = [n \in Names |-> states'[n]]
    BY <1>2, <1>5
  <2> QED
    BY <2>1, <2>2
<1>7. config' = config
  BY <1>1 DEF world
<1>8. Doctors'
  BY <1>1, <1>4, <1>6, <1>7 DEF Types, Doctors
<1> QED
  BY <1>1, <1>8, WorldStands DEF Types

(***************************************************************************)
(* A step of the doctor after the scrapes: where it may lead, and that it  *)
(* emits what has a severity.                                              *)
(***************************************************************************)
LEMMA NextFollowerStep ==
    ASSUME Types, k \in Followers, FollowsSource(k), NEW fs, Graded(fs), NextFollower(fs)
    PROVE  /\ phase' = "follow" /\ k' = k + 1 /\ sourceHead' \in Heights
           /\ k' \in 1 .. Len(config.opNodes) + 1
           /\ Graded(findings') /\ findings' = findings \cup (fs \cup SafeHeadFindings(k))
<1>1. Graded(fs \cup SafeHeadFindings(k))
  BY SafeHeadGraded, GradedUnion
<1>2. k \in Deployed /\ Len(config.opNodes) \in Nat
  BY FollowerTypes, DeploymentTypes DEF Types
<1>3. /\ phase' = "follow" /\ k' = k + 1 /\ sourceHead' = 0
      /\ findings' = findings \cup (fs \cup SafeHeadFindings(k))
  BY DEF NextFollower, Emit
<1>4. sourceHead' \in Heights /\ k' \in 1 .. Len(config.opNodes) + 1
  BY <1>2, <1>3, BoundsAssumption DEF Heights, Deployed
<1>5. Graded(findings')
  BY <1>1, EmitGraded DEF NextFollower, Types
<1> QED
  BY <1>3, <1>4, <1>5

LEMMA FollowGraded ==
    ASSUME NEW severity, severity \in Severities, NEW target
    PROVE  Graded({Declared(severity)}) /\ Graded({RPCHead(severity, target)})
BY TopologyGraded DEF Declared, RPCHead

\* Types after a step of the doctor that leaves the scrapes alone.
LEMMA DoctorsStand ==
    ASSUME Types, UNCHANGED <<world, states>>, faults' \in 0 .. MaxFaults,
           phase' \in Phases, k' \in 1 .. Len(config.opNodes) + 1, sourceHead' \in Heights,
           phase' \in {"sourceHead", "nodeHead"} => k' = k /\ k \in Followers /\ FollowsSource(k),
           Graded(findings')
    PROVE  Types'
<1>1. config' = config
  BY DEF world
<1>2. phase' \in {"sourceHead", "nodeHead"} => (k \in Followers /\ FollowsSource(k))'
  BY <1>1 DEF Followers, FollowsSource, Sources, Named, Node, Deployed
<1>3. Doctors'
  BY <1>1, <1>2 DEF Types, Doctors
<1> QED
  BY <1>3, WorldStands DEF Types

LEMMA NextTypes ==
    ASSUME Types, [Next]_vars
    PROVE  Types'
<1>1. /\ World /\ Doctors /\ Graded(findings) /\ faults \in 0 .. MaxFaults
      /\ phase \in Phases /\ sourceHead \in Heights
      /\ k \in 1 .. Len(config.opNodes) + 1 /\ Len(config.opNodes) \in Nat
  BY DeploymentTypes DEF Types, World, Doctors
<1>2. CASE Nodes
  <2>1. UNCHANGED <<config, page, faults, doctor>>
    BY <1>1, <1>2, NodesStep
  <2>2. World'
    <3>1. /\ unsafe' \in [Deployed -> Heights] /\ safe' \in [Deployed -> Heights]
          /\ expired' \in BOOLEAN /\ lagged' \subseteq Followers /\ caughtUp' \subseteq Followers
      BY <1>1, <1>2, NodesStep
    <3> QED
      BY <1>1, <2>1, <3>1, TopologyStands DEF World
  <2>3. UNCHANGED <<config, phase, k, states, sourceHead, findings>>
    BY <2>1 DEF doctor
  <2>4. k \in Followers /\ FollowsSource(k) => (k \in Followers /\ FollowsSource(k))'
    BY <2>3 DEF Followers, FollowsSource, Sources, Named, Node, Deployed
  <2>5. Doctors'
    <3>1. phase \in {"sourceHead", "nodeHead"} => k \in Followers /\ FollowsSource(k)
      BY <1>1 DEF Doctors
    <3>2. /\ states \in [Names -> SUBSET Heights]
          /\ \A n \in Names : states[n] = {} \/ \E h \in Heights : states[n] = {h}
      BY <1>1 DEF Doctors
    <3> QED
      BY <1>1, <2>3, <2>4, <3>1, <3>2 DEF Doctors
  <2> QED
    BY <1>1, <2>2, <2>3, <2>5 DEF Types
<1>3. CASE Scrape
  BY <1>3, ScrapeTypes
<1>4. CASE SourceTier
  <2>1. Graded({SourceTierFinding})
    <3>1. (IF Cardinality(Sources) >= 2 THEN "ok" ELSE "warn") \in Severities
      BY DEF Severities
    <3> QED
      BY <3>1, FindingGraded DEF SourceTierFinding
  <2>2. /\ UNCHANGED <<world, faults, states, sourceHead>> /\ phase' = "follow" /\ k' = 1
        /\ Emit({SourceTierFinding})
    BY <1>4 DEF SourceTier
  <2>3. Graded(findings')
    BY <1>1, <2>1, <2>2, EmitGraded
  <2>4. phase' \in Phases /\ k' \in 1 .. Len(config.opNodes) + 1
    BY <1>1, <2>2 DEF Phases
  <2> QED
    BY <1>1, <2>2, <2>3, <2>4, DoctorsStand
<1>5. CASE Follow
  <2>1. /\ UNCHANGED <<world, faults, states>> /\ phase = "follow" /\ k \in Deployed
        /\ k + 1 \in 1 .. Len(config.opNodes) + 1
    <3>1. UNCHANGED <<world, faults, states>> /\ phase = "follow" /\ k <= Len(config.opNodes)
      BY <1>5 DEF Follow
    <3> QED
      BY <1>1, <3>1 DEF Deployed
  <2>2. CASE /\ k \notin Followers \/ ~FollowsSource(k)
             /\ k' = k + 1 /\ UNCHANGED <<phase, sourceHead>>
             /\ Emit(When(k \in Followers, Declared(IF Node(k).follows = "" THEN "warn" ELSE "fail")))
    <3> DEFINE severity == IF Node(k).follows = "" THEN "warn" ELSE "fail"
    <3>1. severity \in Severities
      BY DEF Severities
    <3>2. Graded(When(k \in Followers, Declared(severity)))
      BY <3>1, FollowGraded, GradedEmpty DEF When
    <3>3. Graded(findings')
      BY <1>1, <2>2, <3>2, EmitGraded
    <3> QED
      BY <1>1, <2>1, <2>2, <3>3, DoctorsStand
  <2>3. CASE /\ k \in Followers /\ FollowsSource(k)
             /\ phase' = "sourceHead" /\ UNCHANGED <<k, sourceHead>>
             /\ Emit({Declared("ok")})
    <3>1. Graded(findings')
      BY <1>1, <2>3, FollowGraded, EmitGraded DEF Severities
    <3> QED
      BY <1>1, <2>1, <2>3, <3>1, DoctorsStand DEF Phases
  <2>4. CASE /\ k \in Followers /\ FollowsSource(k)
             /\ NextFollower({Declared("ok"), RPCHead("warn", <<"op_nodes", Node(k).name, "rpc">>)})
    <3> DEFINE a == Declared("ok")
               b == RPCHead("warn", <<"op_nodes", Node(k).name, "rpc">>)
    <3>1. Graded({a}) /\ Graded({b})
      BY FollowGraded DEF Severities
    <3> HIDE DEF a, b
    <3>2. Graded({a, b})
      <4>1. {a, b} = {a} \cup {b}
        OBVIOUS
      <4> QED
        BY <3>1, <4>1, GradedUnion
    <3>3. NextFollower({a, b})
      BY <2>4 DEF a, b
    <3> QED
      BY <1>1, <2>1, <2>4, <3>2, <3>3, NextFollowerStep, DoctorsStand DEF Phases
  <2> QED
    BY <1>5, <2>2, <2>3, <2>4 DEF Follow
<1>6. CASE SourceHead
  <2>1. /\ UNCHANGED <<world, states>> /\ phase = "sourceHead"
        /\ k \in Followers /\ FollowsSource(k)
    BY <1>1, <1>6 DEF SourceHead, Doctors
  <2>2. CASE Answered /\ sourceHead' = unsafe[SourceOf(k)] /\ phase' = "nodeHead"
             /\ UNCHANGED <<k, findings>>
    <3>1. sourceHead' \in Heights
      BY <1>1, <2>1, <2>2, FollowerTypes DEF World
    <3>2. faults' \in 0 .. MaxFaults
      BY <1>1, <2>2, FaultsCounted
    <3> QED
      BY <1>1, <2>1, <2>2, <3>1, <3>2, DoctorsStand DEF Phases
  <2>3. CASE Failed /\ NextFollower({RPCHead("warn", <<"op_nodes", Node(SourceOf(k)).name, "rpc">>)})
    <3>1. Graded({RPCHead("warn", <<"op_nodes", Node(SourceOf(k)).name, "rpc">>)})
      BY FollowGraded DEF Severities
    <3>2. faults' \in 0 .. MaxFaults
      BY <1>1, <2>3, FaultsCounted
    <3> QED
      BY <1>1, <2>1, <2>3, <3>1, <3>2, NextFollowerStep, DoctorsStand DEF Phases
  <2> QED
    BY <1>6, <2>2, <2>3 DEF SourceHead
<1>7. CASE NodeHead
  <2>1. /\ UNCHANGED <<world, states>> /\ phase = "nodeHead"
        /\ k \in Followers /\ FollowsSource(k)
    BY <1>1, <1>7 DEF NodeHead, Doctors
  <2>2. PICK fs : NextFollower(fs) /\ Graded(fs) /\ (Answered \/ Failed)
    <3>1. /\ Graded({RPCHead("warn", <<"op_nodes", Node(k).name, "rpc">>)})
          /\ Graded({LagFinding(k, "rpc_head", <<"op_nodes", Node(k).name>>,
                                Lag(sourceHead, unsafe[k]))})
      BY FollowGraded, LagGraded DEF Severities
    <3> QED
      BY <1>7, <3>1 DEF NodeHead
  <2>3. faults' \in 0 .. MaxFaults
    BY <1>1, <2>2, FaultsCounted
  <2> QED
    BY <1>1, <2>1, <2>2, <2>3, NextFollowerStep, DoctorsStand DEF Phases
<1>8. CASE Return
  BY <1>1, <1>8, DoctorsStand DEF Return, Phases
<1>9. CASE UNCHANGED vars
  <2>1. World' /\ Doctors' /\ findings' = findings
    BY <1>1, <1>9 DEF vars, world, doctor, World, Doctors,
                      Followers, FollowsSource, Sources, Named, Node, Deployed
  <2> QED
    BY <1>1, <2>1 DEF Types
<1> QED
  BY <1>2, <1>3, <1>4, <1>5, <1>6, <1>7, <1>8, <1>9 DEF Next, Doctor

(***************************************************************************)
(* Every variable of the topology check keeps its type.                    *)
(***************************************************************************)
THEOREM TopologyTypeCorrect == Spec => []TypeOK
<1>1. Init => Types
  BY InitTypes
<1>2. Types /\ [Next]_vars => Types'
  BY NextTypes
<1>3. Types => TypeOK
  BY DEF Types, World, Doctors, Graded, TypeOK
<1> QED
  BY <1>1, <1>2, <1>3, PTL DEF Spec
-----------------------------------------------------------------------------
(* The verdict on RPC heads is real *)

\* Findings that measure no lag, and those on the metrics pages, which measure none.
Plain(fs) == \A f \in fs : f.sample = NoSample

OnPages(fs) == \A f \in fs : f.sample = NoSample /\ f.id[1] = "op_node"

LEMMA MetricPlain ==
    ASSUME NEW name, NEW id, NEW severity
    PROVE  /\ Metric(name, id, severity).sample = NoSample
           /\ Metric(name, id, severity).id[1] = "op_node"
BY DEF Metric, Finding

LEMMA TopologyPlain ==
    ASSUME NEW name, NEW id, NEW severity, NEW target
    PROVE  Topology(name, id, severity, target, NoSample).sample = NoSample
BY DEF Topology, Finding

LEMMA VerdictPlain ==
    ASSUME NEW name, NEW pg, NEW id, NEW good, NEW severity
    PROVE  /\ Verdict(name, pg, id, good, severity).sample = NoSample
           /\ Verdict(name, pg, id, good, severity).id[1] = "op_node"
BY MetricPlain DEF Verdict

LEMMA NodeMetricsPlain ==
    ASSUME NEW name, NEW pg
    PROVE  OnPages(NodeMetricFindings(name, pg))
<1>1. ASSUME NEW f \in NodeMetricFindings(name, pg)
      PROVE  \/ \E id, good, severity : f = Verdict(name, pg, id, good, severity)
             \/ \E id, severity : f = Metric(name, id, severity)
  <2> DEFINE ref(r) == IF r \in pg.refs THEN Metric(name, Ref[r], "ok")
                       ELSE Metric(name, Missing[r], "info")
  <2>1. CASE pg.refs # {} /\ f \in {ref(r) : r \in RefKinds}
    BY <2>1
  <2>2. CASE f = Verdict(name, pg, "up", \A v \in pg.up : v = 1, "fail")
    BY <2>2
  <2>3. CASE f = Verdict(name, pg, "refs", TRUE, "ok") \/ f = Verdict(name, pg, "rpc_latency", TRUE, "ok")
    BY <2>3
  <2>4. CASE f = Verdict(name, pg, "peer_count", \A v \in pg.peer_count : v >= config.minPeerCount, "warn")
    BY <2>4
  <2>5. CASE f = Verdict(name, pg, "derivation_errors_total",
                         \A v \in pg.derivation_errors_total : v = 0, "warn")
    BY <2>5
  <2>6. CASE f = Verdict(name, pg, "pipeline_resets_total",
                         \A v \in pg.pipeline_resets_total : v = 0, "warn")
    BY <2>6
  <2> QED
    BY <2>1, <2>2, <2>3, <2>4, <2>5, <2>6 DEF NodeMetricFindings
<1> QED
  BY <1>1, VerdictPlain, MetricPlain DEF OnPages

LEMMA ScrapePlain ==
    ASSUME Scrape
    PROVE  \E fs : OnPages(fs) /\ findings' = findings \cup fs
<1> DEFINE name == Node(k).name
           good == {Metric(name, "metrics_fetch", "ok")} \cup NodeMetricFindings(name, page[k])
           refs == IF "safe" \in page[k].refs THEN {safe[k]} ELSE {}
<1>1. OnPages(good)
  BY NodeMetricsPlain, MetricPlain DEF OnPages
<1>2. OnPages({Metric(name, "metrics_endpoint", "warn")}) /\ OnPages({Metric(name, "metrics_fetch", "warn")})
  BY MetricPlain DEF OnPages
<1> HIDE DEF good, refs, name
<1>3. \/ Scraped(name, {}, {Metric(name, "metrics_endpoint", "warn")})
      \/ Scraped(name, refs, good)
      \/ Scraped(name, {}, {Metric(name, "metrics_fetch", "warn")})
  BY DEF Scrape, name, refs, good
<1> QED
  BY <1>1, <1>2, <1>3 DEF Scraped, Emit

\* What Follow emits measures no lag, except for safe heads.
LEMMA FollowPlain ==
    ASSUME Follow
    PROVE  \E fs : /\ Plain(fs)
                   /\ \/ findings' = findings \cup fs
                      \/ /\ k \in Followers /\ FollowsSource(k)
                         /\ phase' = "follow" /\ k' = k + 1
                         /\ findings' = findings \cup (fs \cup SafeHeadFindings(k))
<1>1. \A severity : Declared(severity).sample = NoSample
  BY TopologyPlain DEF Declared
<1>2. \A severity, target : RPCHead(severity, target).sample = NoSample
  BY TopologyPlain DEF RPCHead
<1>3. CASE Emit(When(k \in Followers, Declared(IF Node(k).follows = "" THEN "warn" ELSE "fail")))
  <2> DEFINE severity == IF Node(k).follows = "" THEN "warn" ELSE "fail"
             fs == When(k \in Followers, Declared(severity))
  <2>1. Plain(fs)
    BY <1>1 DEF Plain, When
  <2>2. findings' = findings \cup fs
    BY <1>3 DEF Emit
  <2> QED
    BY <2>1, <2>2
<1>4. CASE Emit({Declared("ok")})
  BY <1>1, <1>4 DEF Plain, Emit
<1>5. CASE /\ k \in Followers /\ FollowsSource(k)
           /\ NextFollower({Declared("ok"), RPCHead("warn", <<"op_nodes", Node(k).name, "rpc">>)})
  <2> DEFINE fs == {Declared("ok"), RPCHead("warn", <<"op_nodes", Node(k).name, "rpc">>)}
  <2>1. Plain(fs)
    BY <1>1, <1>2 DEF Plain
  <2>2. /\ phase' = "follow" /\ k' = k + 1
        /\ findings' = findings \cup (fs \cup SafeHeadFindings(k))
    BY <1>5 DEF NextFollower, Emit
  <2> QED
    BY <1>5, <2>1, <2>2
<1> QED
  BY <1>3, <1>4, <1>5 DEF Follow

(***************************************************************************)
(* A finding with a lag comes from the comparison of safe heads, or from   *)
(* the head of a follower that was read after its source's.                *)
(***************************************************************************)
LEMMA LagIsOfFollower ==
    ASSUME Types, Next, NEW f \in findings' \ findings, f.sample[1] = "lag_blocks"
    PROVE  /\ UNCHANGED world /\ k \in Followers /\ FollowsSource(k)
           /\ phase # "scrape" /\ phase' = "follow" /\ k' = k + 1
           /\ \/ f \in SafeHeadFindings(k)
              \/ /\ phase = "nodeHead"
                 /\ f = LagFinding(k, "rpc_head", <<"op_nodes", Node(k).name>>,
                                   Lag(sourceHead, unsafe[k]))
<1>1. f.sample # NoSample
  <2>1. NoSample[1] = ""
    BY DEF NoSample
  <2> QED
    BY <2>1
<1>2. \A fs : Plain(fs) => f \notin fs
  BY <1>1 DEF Plain
<1>3. \A severity, target : Plain({RPCHead(severity, target)})
  BY TopologyPlain DEF RPCHead, Plain
<1>4. ASSUME Nodes
      PROVE  FALSE
  BY <1>4, NodesStep DEF Types, doctor
<1>5. ASSUME Scrape
      PROVE  FALSE
  BY <1>2, <1>5, ScrapePlain DEF OnPages, Plain
<1>6. ASSUME SourceTier
      PROVE  FALSE
  <2>1. SourceTierFinding.sample = NoSample
    BY DEF SourceTierFinding, Finding
  <2> QED
    BY <1>1, <1>6, <2>1 DEF SourceTier, Emit
<1>7. CASE Follow
  <2>1. UNCHANGED world /\ phase = "follow"
    BY <1>7 DEF Follow
  <2> QED
    BY <1>2, <1>7, <2>1, FollowPlain
<1>8. CASE SourceHead
  <2>1. UNCHANGED world /\ phase = "sourceHead" /\ k \in Followers /\ FollowsSource(k)
    BY <1>8 DEF SourceHead, Types, Doctors
  <2>2. findings' # findings
    OBVIOUS
  <2>3. NextFollower({RPCHead("warn", <<"op_nodes", Node(SourceOf(k)).name, "rpc">>)})
    BY <1>8, <2>2 DEF SourceHead
  <2> QED
    BY <1>2, <1>3, <2>1, <2>3 DEF NextFollower, Emit
<1>9. CASE NodeHead
  <2>1. UNCHANGED world /\ phase = "nodeHead" /\ k \in Followers /\ FollowsSource(k)
    BY <1>9 DEF NodeHead, Types, Doctors
  <2>2. CASE NextFollower({LagFinding(k, "rpc_head", <<"op_nodes", Node(k).name>>,
                                      Lag(sourceHead, unsafe[k]))})
    BY <2>1, <2>2 DEF NextFollower, Emit
  <2>3. CASE NextFollower({RPCHead("warn", <<"op_nodes", Node(k).name, "rpc">>)})
    BY <1>2, <1>3, <2>1, <2>3 DEF NextFollower, Emit
  <2> QED
    BY <1>9, <2>2, <2>3 DEF NodeHead
<1>10. ASSUME Return
       PROVE  FALSE
  BY <1>10 DEF Return
<1> QED
  BY <1>4, <1>5, <1>6, <1>7, <1>8, <1>9, <1>10 DEF Next, Doctor

\* The verdict on a lag: its id and its severity.
LEMMA LagVerdict ==
    ASSUME NEW p, NEW id, NEW target, NEW lag
    PROVE  /\ LagFinding(p, id, target, lag).id = <<"topology", Node(p).name, id>>
           /\ LagFinding(p, id, target, lag).severity = "warn" => lag > config.maxSafeLag
           /\ LagFinding(p, id, target, lag).severity = "ok" => ~(lag > config.maxSafeLag)
<1>1. CASE lag > config.maxSafeLag
  BY <1>1 DEF LagFinding, Topology, Finding
<1>2. CASE ~(lag > config.maxSafeLag)
  BY <1>2 DEF LagFinding, Topology, Finding
<1> QED
  BY <1>1, <1>2

(***************************************************************************)
(* What was read from the source over RPC is at most what it has now.      *)
(***************************************************************************)
HeadInv == phase = "nodeHead" => sourceHead <= unsafe[SourceOf(k)]

LEMMA NextHead ==
    ASSUME Types, HeadInv, [Next]_vars
    PROVE  HeadInv'
<1>1. ASSUME Nodes \/ UNCHANGED vars, phase' = "nodeHead"
      PROVE  sourceHead' <= (unsafe[SourceOf(k)])'
  <2>1. UNCHANGED <<config, phase, k, sourceHead>>
    BY <1>1, NodesStep DEF Types, doctor, vars, world
  <2>2. k \in Followers /\ FollowsSource(k) /\ SourceOf(k) \in Deployed
    BY <1>1, <2>1, FollowerTypes DEF Types, Doctors
  <2>3. \A q \in Deployed : unsafe[q] <= unsafe'[q] /\ unsafe[q] \in Nat /\ unsafe'[q] \in Nat
    <3>1. CASE Nodes
      <4>1. /\ unsafe \in [Deployed -> Heights] /\ unsafe' \in [Deployed -> Heights]
            /\ \A q \in Deployed : unsafe[q] <= unsafe'[q]
        BY <3>1, NodesStep DEF Types, World
      <4> QED
        BY <4>1, HeightTypes
    <3>2. CASE UNCHANGED vars
      <4>1. unsafe \in [Deployed -> Heights] /\ unsafe' = unsafe
        BY <3>2 DEF vars, world, Types, World
      <4>2. \A q \in Deployed : unsafe[q] \in Nat
        BY <4>1, HeightTypes
      <4> QED
        BY <4>1, <4>2
    <3> QED
      BY <1>1, <3>1, <3>2
  <2>4. sourceHead <= unsafe[SourceOf(k)] /\ sourceHead \in Nat
    BY <1>1, <2>1, HeightTypes DEF HeadInv, Types, Doctors
  <2>5. (unsafe[SourceOf(k)])' = unsafe'[SourceOf(k)]
    BY <2>1 DEF SourceOf, Named, Node, Deployed
  <2>6. unsafe[SourceOf(k)] <= unsafe'[SourceOf(k)]
        /\ unsafe[SourceOf(k)] \in Nat /\ unsafe'[SourceOf(k)] \in Nat
    BY <2>2, <2>3
  <2> HIDE DEF Types
  <2> QED
    BY <2>1, <2>4, <2>5, <2>6
<1>2. ASSUME SourceHead, phase' = "nodeHead"
      PROVE  sourceHead' <= (unsafe[SourceOf(k)])'
  <2>1. /\ UNCHANGED <<world, k>> /\ phase = "sourceHead" /\ sourceHead' = unsafe[SourceOf(k)]
    BY <1>2 DEF SourceHead, NextFollower
  <2>2. (unsafe[SourceOf(k)])' = unsafe[SourceOf(k)]
    BY <2>1 DEF world, SourceOf, Named, Node, Deployed
  <2>3. unsafe[SourceOf(k)] \in Nat
    BY <2>1, FollowerTypes, HeightTypes DEF Types, World, Doctors
  <2> QED
    BY <2>1, <2>2, <2>3
<1>3. ASSUME Scrape \/ SourceTier \/ Follow \/ NodeHead \/ Return
      PROVE  phase' # "nodeHead"
  BY <1>3 DEF Scrape, SourceTier, Follow, NodeHead, Return, NextFollower
<1> QED
  BY <1>1, <1>2, <1>3 DEF HeadInv, Next, Doctor

(***************************************************************************)
(* The alarm over RPC is real: a follower that is reported to lag by its   *)
(* RPC head lags at that moment, in every configuration.                   *)
(***************************************************************************)
THEOREM NoFalseFollowerAlarm == Spec => FollowerLagAlarmIsReal
<1>1. Init => Types /\ HeadInv
  BY InitTypes DEF Init, HeadInv
<1>2. (Types /\ HeadInv) /\ [Next]_vars => (Types /\ HeadInv)'
  BY NextTypes, NextHead
<1>3. Types /\ HeadInv /\ [Next]_vars
        => [NewVerdicts("rpc_head", "warn") # {}
              => unsafe[SourceOf(k)] - unsafe[k] > config.maxSafeLag]_vars
  <2> SUFFICES ASSUME Types, HeadInv, Next, NEW f \in NewVerdicts("rpc_head", "warn")
               PROVE  unsafe[SourceOf(k)] - unsafe[k] > config.maxSafeLag
    OBVIOUS
  <2>1. /\ f \in findings' \ findings /\ f.id = <<"topology", Node(k).name, "rpc_head">>
        /\ f.severity = "warn" /\ f.sample[1] = "lag_blocks"
    BY DEF NewVerdicts
  <2>2. /\ k \in Followers /\ FollowsSource(k) /\ k \in Deployed /\ SourceOf(k) \in Deployed
    BY <2>1, LagIsOfFollower, FollowerTypes
  <2>3. f \notin SafeHeadFindings(k)
    <3>1. \A target : Topology(Node(k).name, "safe_head_metrics", "info", target, NoSample).id
                        = <<"topology", Node(k).name, "safe_head_metrics">>
      BY DEF Topology, Finding
    <3>2. \A target, lag : LagFinding(k, "safe_head_metrics", target, lag).id
                             = <<"topology", Node(k).name, "safe_head_metrics">>
      BY LagVerdict
    <3>3. <<"topology", Node(k).name, "safe_head_metrics">> # <<"topology", Node(k).name, "rpc_head">>
      OBVIOUS
    <3> DEFINE target == <<"op_nodes", Node(k).name, "metrics">>
    <3>4. \/ SafeHeadFindings(k) = {Topology(Node(k).name, "safe_head_metrics", "info", target, NoSample)}
          \/ \E s, n \in Heights :
                SafeHeadFindings(k) = {LagFinding(k, "safe_head_metrics", target, Lag(s, n))}
      BY <2>2, SafeHeadVerdict
    <3> HIDE DEF target
    <3>5. \A g \in SafeHeadFindings(k) : g.id = <<"topology", Node(k).name, "safe_head_metrics">>
      BY <3>1, <3>2, <3>4
    <3> QED
      BY <2>1, <3>3, <3>5
  <2>4. /\ phase = "nodeHead"
        /\ f = LagFinding(k, "rpc_head", <<"op_nodes", Node(k).name>>, Lag(sourceHead, unsafe[k]))
    BY <2>1, <2>3, LagIsOfFollower
  <2>5. Lag(sourceHead, unsafe[k]) > config.maxSafeLag
    BY <2>1, <2>4, LagVerdict
  <2>6. sourceHead <= unsafe[SourceOf(k)]
    BY <2>4 DEF HeadInv
  <2>7. /\ sourceHead \in Nat /\ unsafe[k] \in Nat /\ unsafe[SourceOf(k)] \in Nat
        /\ config.maxSafeLag \in Nat
    BY <2>2, DeploymentTypes, HeightTypes DEF Types, World, Doctors
  <2> QED
    BY <2>5, <2>6, <2>7 DEF Lag
<1> QED
  BY <1>1, <1>2, <1>3, PTL DEF Spec, FollowerLagAlarmIsReal
-----------------------------------------------------------------------------
(* The verdict on safe heads is real, in the order in which it can be *)

\* The page of the op-node at p has been asked for.
WasScraped(p) == phase # "scrape" \/ p < k

\* What is held of a node was read from it, and its safe head only grows.
ScrapedInv ==
    UniqueNames => \A p \in Deployed : \A h \in states[Node(p).name] :
                      WasScraped(p) /\ h <= safe[p]

\* The histories know of the present.
HistoryInv == Lagging(safe) \subseteq lagged /\ Followers \ Lagging(safe) \subseteq caughtUp

(***************************************************************************)
(* Of two safe heads the later one was read when the older was already     *)
(* held: their difference was real at that moment on the side on which the *)
(* older one may have grown since.                                         *)
(***************************************************************************)
OrderInv ==
    UniqueNames => \A p \in Followers : FollowsSource(p) =>
        \A s \in states[Node(SourceOf(p)).name], n \in states[Node(p).name] :
            /\ SourceOf(p) < p /\ s > n + config.maxSafeLag => p \in lagged
            /\ p < SourceOf(p) /\ ~(s > n + config.maxSafeLag) => p \in caughtUp

SafeInv == ScrapedInv /\ HistoryInv /\ OrderInv

LEMMA NodesSafe ==
    ASSUME Types, SafeInv, Nodes
    PROVE  SafeInv'
<1>1. /\ UNCHANGED <<config, phase, k, states>>
      /\ \A q \in Deployed : safe[q] <= safe'[q]
      /\ safe \in [Deployed -> Heights] /\ safe' \in [Deployed -> Heights]
      /\ lagged \subseteq lagged' /\ caughtUp \subseteq caughtUp'
      /\ (UNCHANGED <<safe, lagged, caughtUp>> \/ Observe(safe'))
  BY NodesStep DEF Types, World, doctor
<1>2. /\ Deployed' = Deployed /\ Followers' = Followers /\ (UniqueNames' <=> UniqueNames)
      /\ \A p : Node(p)' = Node(p) /\ SourceOf(p)' = SourceOf(p)
      /\ \A p : FollowsSource(p)' <=> FollowsSource(p)
  BY <1>1, TopologyStands
<1>3. ScrapedInv'
  <2>1. ASSUME UniqueNames, NEW p \in Deployed, NEW h \in states[Node(p).name]
        PROVE  WasScraped(p)' /\ h <= safe'[p]
    <3>1. WasScraped(p) /\ h <= safe[p]
      BY <2>1 DEF SafeInv, ScrapedInv
    <3>2. h \in Nat /\ safe[p] \in Nat /\ safe'[p] \in Nat /\ safe[p] <= safe'[p]
      <4>1. states[Node(p).name] \in SUBSET Heights
        BY <2>1, DeploymentTypes DEF Types, Doctors
      <4> QED
        BY <1>1, <2>1, <4>1, HeightTypes
    <3>3. WasScraped(p)'
      BY <1>1, <3>1 DEF WasScraped
    <3> QED
      BY <3>1, <3>2, <3>3
  <2> QED
    BY <1>1, <1>2, <2>1 DEF ScrapedInv
<1>4. HistoryInv'
  <2>1. (Lagging(safe))' = Lagging(safe')
    BY <1>1, <1>2 DEF Lagging
  <2>2. CASE UNCHANGED <<safe, lagged, caughtUp>>
    BY <1>2, <2>1, <2>2 DEF SafeInv, HistoryInv
  <2>3. CASE Observe(safe')
    BY <1>2, <2>1, <2>3 DEF HistoryInv, Observe
  <2> QED
    BY <1>1, <2>2, <2>3
<1>5. OrderInv'
  BY <1>1, <1>2 DEF SafeInv, OrderInv
<1> QED
  BY <1>3, <1>4, <1>5 DEF SafeInv

\* A step of the doctor other than a scrape holds on to what it has read.
LEMMA StandSafe ==
    ASSUME Types, SafeInv, UNCHANGED <<world, states>>,
           phase' # "scrape" \/ UNCHANGED <<phase, k>>
    PROVE  SafeInv'
<1>1. UNCHANGED <<config, states, safe, lagged, caughtUp>>
  BY DEF world
<1>2. /\ Deployed' = Deployed /\ Followers' = Followers /\ (UniqueNames' <=> UniqueNames)
      /\ \A p : Node(p)' = Node(p) /\ SourceOf(p)' = SourceOf(p)
      /\ \A p : FollowsSource(p)' <=> FollowsSource(p)
  BY <1>1, TopologyStands
<1>3. \A p : WasScraped(p) => WasScraped(p)'
  BY DEF WasScraped
<1>4. ScrapedInv'
  BY <1>1, <1>2, <1>3 DEF SafeInv, ScrapedInv
<1>5. HistoryInv'
  BY <1>1, <1>2 DEF SafeInv, HistoryInv, Lagging
<1>6. OrderInv'
  BY <1>1, <1>2 DEF SafeInv, OrderInv
<1> QED
  BY <1>4, <1>5, <1>6 DEF SafeInv

LEMMA ScrapeSafe ==
    ASSUME Types, SafeInv, Scrape
    PROVE  SafeInv'
<1>1. /\ UNCHANGED <<config, phase, safe, lagged, caughtUp>> /\ phase = "scrape"
      /\ k \in Deployed /\ k' = k + 1
  BY ScrapeStep DEF world
<1>2. PICK refs : /\ states' = [states EXCEPT ![Node(k).name] = refs]
                  /\ refs = {} \/ refs = {safe[k]}
  BY ScrapeStep
<1>3. /\ Deployed' = Deployed /\ Followers' = Followers /\ (UniqueNames' <=> UniqueNames)
      /\ \A p : Node(p)' = Node(p) /\ SourceOf(p)' = SourceOf(p)
      /\ \A p : FollowsSource(p)' <=> FollowsSource(p)
  BY <1>1, TopologyStands
<1>4. HistoryInv'
  BY <1>1, <1>3 DEF SafeInv, HistoryInv, Lagging
<1> SUFFICES ASSUME UniqueNames
             PROVE  ScrapedInv' /\ OrderInv'
  BY <1>3, <1>4 DEF SafeInv, ScrapedInv, OrderInv
<1>5. /\ states[Node(k).name] \subseteq Heights /\ states \in [Names -> SUBSET Heights]
      /\ \A p \in Deployed : Node(p).name \in Names
      /\ \A p \in Deployed : safe[p] \in Nat /\ p \in Nat
      /\ k \in Nat /\ config.maxSafeLag \in Nat
  <2>1. states \in [Names -> SUBSET Heights] /\ safe \in [Deployed -> Heights]
    BY DEF Types, World, Doctors
  <2>2. \A p \in Deployed : Node(p).name \in Names /\ config.maxSafeLag \in Nat
    BY DeploymentTypes DEF Types
  <2>3. \A p \in Deployed : p \in Nat
    BY DEF Deployed
  <2>4. \A p \in Deployed : safe[p] \in Nat
    BY <2>1, HeightTypes
  <2> QED
    BY <1>1, <2>1, <2>2, <2>3, <2>4
<1>6. ASSUME NEW p \in Deployed, p # k
      PROVE  states'[Node(p).name] = states[Node(p).name]
  BY <1>1, <1>2, <1>5, <1>6 DEF UniqueNames
<1>7. states'[Node(k).name] \subseteq {safe[k]}
  BY <1>1, <1>2, <1>5
<1>8. \A p \in Deployed : \A h \in states[Node(p).name] : p < k /\ h <= safe[p] /\ h \in Nat
  <2>1. \A p \in Deployed : \A h \in states[Node(p).name] : p < k /\ h <= safe[p]
    BY <1>1 DEF SafeInv, ScrapedInv, WasScraped
  <2>2. \A p \in Deployed : states[Node(p).name] \in SUBSET Heights
    BY <1>5
  <2> QED
    BY <2>1, <2>2, HeightTypes
<1>9. ASSUME NEW p \in Deployed, NEW h \in states'[Node(p).name]
      PROVE  p < k + 1 /\ h <= safe[p]
  BY <1>1, <1>5, <1>6, <1>7, <1>8, <1>9
<1>10. ScrapedInv'
  BY <1>1, <1>3, <1>9 DEF ScrapedInv, WasScraped
<1>11. ASSUME NEW p \in Followers, FollowsSource(p),
              NEW s \in states'[Node(SourceOf(p)).name], NEW n \in states'[Node(p).name]
       PROVE  /\ SourceOf(p) < p /\ s > n + config.maxSafeLag => p \in lagged
              /\ p < SourceOf(p) /\ ~(s > n + config.maxSafeLag) => p \in caughtUp
  <2>1. PICK q : q = SourceOf(p)
    OBVIOUS
  <2>2. p \in Deployed /\ q \in Deployed /\ q # p
    BY <1>11, <2>1, FollowerTypes DEF Followers, Sources
  <2>3. p \in Lagging(safe) <=> safe[q] > safe[p] + config.maxSafeLag
    BY <1>11, <2>1 DEF Lagging
  <2>4. (p \in Lagging(safe) => p \in lagged) /\ (p \notin Lagging(safe) => p \in caughtUp)
    BY <1>11 DEF SafeInv, HistoryInv
  <2>5. CASE p # k /\ q # k
    <3>1. s \in states[Node(SourceOf(p)).name] /\ n \in states[Node(p).name]
      BY <1>6, <1>11, <2>1, <2>2, <2>5
    <3> QED
      BY <1>11, <3>1 DEF SafeInv, OrderInv
  <2>6. CASE p = k
    <3>1. n = safe[p] /\ s \in states[Node(q).name]
      BY <1>6, <1>7, <1>11, <2>1, <2>2, <2>6
    <3>2. q < p /\ s <= safe[q] /\ s \in Nat
      BY <1>8, <2>2, <2>6, <3>1
    <3>3. safe[p] \in Nat /\ safe[q] \in Nat /\ p \in Nat /\ q \in Nat
      BY <1>5, <2>2
    <3>4. s > n + config.maxSafeLag => p \in lagged
      BY <1>5, <2>3, <2>4, <3>1, <3>2, <3>3
    <3> QED
      BY <2>1, <3>2, <3>3, <3>4
  <2>7. CASE q = k
    <3>1. s = safe[q] /\ n \in states[Node(p).name]
      BY <1>6, <1>7, <1>11, <2>1, <2>2, <2>7
    <3>2. p < q /\ n <= safe[p] /\ n \in Nat
      BY <1>8, <2>2, <2>7, <3>1
    <3>3. safe[p] \in Nat /\ safe[q] \in Nat /\ p \in Nat /\ q \in Nat
      BY <1>5, <2>2
    <3>4. ~(s > n + config.maxSafeLag) => p \in caughtUp
      BY <1>5, <2>3, <2>4, <3>1, <3>2, <3>3
    <3> QED
      BY <2>1, <3>2, <3>3, <3>4
  <2> QED
    BY <2>5, <2>6, <2>7
<1>12. OrderInv'
  BY <1>1, <1>3, <1>11 DEF OrderInv
<1> QED
  BY <1>10, <1>12

LEMMA NextSafe ==
    ASSUME Types, SafeInv, [Next]_vars
    PROVE  SafeInv'
<1>1. ASSUME SourceTier \/ Follow \/ SourceHead \/ NodeHead \/ Return \/ UNCHANGED vars
      PROVE  /\ UNCHANGED <<world, states>>
             /\ phase' # "scrape" \/ UNCHANGED <<phase, k>>
  <2>1. CASE SourceTier \/ Return \/ UNCHANGED vars
    BY <2>1 DEF SourceTier, Return, vars, doctor
  <2>2. CASE Follow
    BY <2>2 DEF Follow, NextFollower
  <2>3. CASE SourceHead \/ NodeHead
    BY <2>3 DEF SourceHead, NodeHead, NextFollower
  <2> QED
    BY <1>1, <2>1, <2>2, <2>3
<1>2. CASE SourceTier \/ Follow \/ SourceHead \/ NodeHead \/ Return \/ UNCHANGED vars
  BY <1>1, <1>2, StandSafe
<1>3. CASE Nodes
  BY <1>3, NodesSafe
<1>4. CASE Scrape
  BY <1>4, ScrapeSafe
<1> QED
  BY <1>2, <1>3, <1>4 DEF Next, Doctor

LEMMA InitSafe ==
    ASSUME Init
    PROVE  SafeInv
<1>1. \A p \in Deployed : states[Node(p).name] = {}
  BY InitTypes, DeploymentTypes DEF Init, Types
<1>2. ScrapedInv
  BY <1>1 DEF ScrapedInv
<1>3. HistoryInv
  BY DEF Init, HistoryInv
<1>4. OrderInv
  BY <1>1, FollowerTypes DEF OrderInv
<1> QED
  BY <1>2, <1>3, <1>4 DEF SafeInv

\* Where a verdict on safe heads comes from.
LEMMA SafeVerdictFrom ==
    ASSUME Types, Next, NEW severity, NEW f \in NewVerdicts("safe_head_metrics", severity)
    PROVE  /\ UNCHANGED world /\ k \in Followers /\ FollowsSource(k)
           /\ \E s, n \in Heights :
                 /\ s \in states[Node(SourceOf(k)).name] /\ n \in states[Node(k).name]
                 /\ severity = "warn" => Lag(s, n) > config.maxSafeLag
                 /\ severity = "ok" => ~(Lag(s, n) > config.maxSafeLag)
<1>1. /\ f \in findings' \ findings /\ f.id = <<"topology", Node(k).name, "safe_head_metrics">>
      /\ f.severity = severity /\ f.sample[1] = "lag_blocks"
  BY DEF NewVerdicts
<1>2. UNCHANGED world /\ k \in Followers /\ FollowsSource(k)
  BY <1>1, LagIsOfFollower
<1>3. f \in SafeHeadFindings(k)
  <2>1. \A target, lag : LagFinding(k, "rpc_head", target, lag).id
                           = <<"topology", Node(k).name, "rpc_head">>
    BY LagVerdict
  <2>2. <<"topology", Node(k).name, "safe_head_metrics">> # <<"topology", Node(k).name, "rpc_head">>
    OBVIOUS
  <2> QED
    BY <1>1, <2>1, <2>2, LagIsOfFollower
<1> DEFINE source == states[Node(SourceOf(k)).name]
           node   == states[Node(k).name]
           target == <<"op_nodes", Node(k).name, "metrics">>
<1>4. \/ SafeHeadFindings(k) = {Topology(Node(k).name, "safe_head_metrics", "info", target, NoSample)}
      \/ \E s, n \in Heights :
            /\ source = {s} /\ node = {n}
            /\ SafeHeadFindings(k) = {LagFinding(k, "safe_head_metrics", target, Lag(s, n))}
  BY <1>2, SafeHeadVerdict
<1>5. f # Topology(Node(k).name, "safe_head_metrics", "info", target, NoSample)
  <2>1. Topology(Node(k).name, "safe_head_metrics", "info", target, NoSample).sample[1] = ""
    <3>1. Topology(Node(k).name, "safe_head_metrics", "info", target, NoSample).sample = NoSample
      BY TopologyPlain
    <3>2. NoSample[1] = ""
      BY DEF NoSample
    <3> QED
      BY <3>1, <3>2
  <2> QED
    BY <1>1, <2>1
<1> HIDE DEF source, node, target
<1>6. PICK s, n \in Heights : /\ source = {s} /\ node = {n}
                              /\ f = LagFinding(k, "safe_head_metrics", target, Lag(s, n))
  BY <1>3, <1>4, <1>5
<1>7. /\ severity = "warn" => Lag(s, n) > config.maxSafeLag
      /\ severity = "ok" => ~(Lag(s, n) > config.maxSafeLag)
  BY <1>1, <1>6, LagVerdict
<1> QED
  BY <1>2, <1>6, <1>7 DEF source, node

(***************************************************************************)
(* The alarm on safe heads is real for a follower configured after its     *)
(* source: it did lag at some moment of the run, in every configuration of *)
(* unique names.                                                           *)
(***************************************************************************)
THEOREM NoFalseSafeLagAlarm == Spec => SafeLagAlarmIsReal
<1>1. Init => Types /\ SafeInv
  BY InitTypes, InitSafe
<1>2. (Types /\ SafeInv) /\ [Next]_vars => (Types /\ SafeInv)'
  BY NextTypes, NextSafe
<1>3. Types /\ SafeInv /\ [Next]_vars
        => [NewVerdicts("safe_head_metrics", "warn") # {} /\ SourceScrapedFirst(k)
              => k \in lagged]_vars
  <2> SUFFICES ASSUME Types, SafeInv, Next, SourceScrapedFirst(k),
                      NEW f \in NewVerdicts("safe_head_metrics", "warn")
               PROVE  k \in lagged
    OBVIOUS
  <2>1. k \in Followers /\ FollowsSource(k)
    BY SafeVerdictFrom
  <2>2. PICK s, n \in Heights :
           /\ s \in states[Node(SourceOf(k)).name] /\ n \in states[Node(k).name]
           /\ Lag(s, n) > config.maxSafeLag
    BY SafeVerdictFrom
  <2>3. s > n + config.maxSafeLag
    BY <2>2, HeightTypes, DeploymentTypes DEF Lag, Types
  <2> QED
    BY <2>1, <2>2, <2>3 DEF SafeInv, OrderInv, SourceScrapedFirst
<1> QED
  BY <1>1, <1>2, <1>3, PTL DEF Spec, SafeLagAlarmIsReal

(***************************************************************************)
(* No lag of safe heads is missed for a follower configured before its     *)
(* source: what is reported to track did track at some moment of the run.  *)
(***************************************************************************)
THEOREM NoMissedSafeLag == Spec => SafeLagIsNotMissed
<1>1. Init => Types /\ SafeInv
  BY InitTypes, InitSafe
<1>2. (Types /\ SafeInv) /\ [Next]_vars => (Types /\ SafeInv)'
  BY NextTypes, NextSafe
<1>3. Types /\ SafeInv /\ [Next]_vars
        => [NewVerdicts("safe_head_metrics", "ok") # {} /\ NodeScrapedFirst(k)
              => k \in caughtUp]_vars
  <2> SUFFICES ASSUME Types, SafeInv, Next, NodeScrapedFirst(k),
                      NEW f \in NewVerdicts("safe_head_metrics", "ok")
               PROVE  k \in caughtUp
    OBVIOUS
  <2>1. k \in Followers /\ FollowsSource(k)
    BY SafeVerdictFrom
  <2>2. PICK s, n \in Heights :
           /\ s \in states[Node(SourceOf(k)).name] /\ n \in states[Node(k).name]
           /\ ~(Lag(s, n) > config.maxSafeLag)
    BY SafeVerdictFrom
  <2>3. ~(s > n + config.maxSafeLag)
    <3>1. s \in Nat /\ n \in Nat /\ config.maxSafeLag \in Nat
      BY <2>2, HeightTypes, DeploymentTypes DEF Types
    <3> QED
      BY <2>2, <3>1 DEF Lag
  <2> QED
    BY <2>1, <2>2, <2>3 DEF SafeInv, OrderInv, NodeScrapedFirst
<1> QED
  BY <1>1, <1>2, <1>3, PTL DEF Spec, SafeLagIsNotMissed
-----------------------------------------------------------------------------
(* Completeness *)

Reported(check, p, id) == HasFinding(findings, <<check, Node(p).name, id>>)

PageReported(p) == \E id \in {"metrics_endpoint", "metrics_fetch"} : Reported("op_node", p, id)

Compared(p) ==
    p \in Followers /\ FollowsSource(p) =>
        Reported("topology", p, "rpc_head") /\ Reported("topology", p, "safe_head_metrics")

\* The loop over the followers has left p behind.
WasCompared(p) == phase # "scrape" /\ p < k

(***************************************************************************)
(* The inductive invariant: each loop has left findings about every node   *)
(* that it has passed.                                                     *)
(***************************************************************************)
CompleteInv ==
    /\ \A p \in Deployed : WasScraped(p) => PageReported(p)
    /\ \A p \in Deployed : WasCompared(p) => Compared(p)
    /\ phase = "done" => k > Len(config.opNodes)

\* What was reported stays so.
LEMMA ReportsStay ==
    ASSUME UNCHANGED config, findings \subseteq findings'
    PROVE  /\ \A p : PageReported(p) => PageReported(p)'
           /\ \A p : Compared(p) => Compared(p)'
<1>1. \A p : Node(p)' = Node(p) /\ (FollowsSource(p)' <=> FollowsSource(p))
  BY TopologyStands
<1>2. Followers' = Followers
  BY TopologyStands
<1>3. \A check, p, id : Reported(check, p, id) => Reported(check, p, id)'
  BY <1>1 DEF Reported, HasFinding
<1> QED
  BY <1>1, <1>2, <1>3 DEF PageReported, Compared

\* Steps by which no loop passes a node.
LEMMA CompleteStands ==
    ASSUME CompleteInv, UNCHANGED config, findings \subseteq findings',
           \A p \in Deployed : WasScraped(p)' => WasScraped(p),
           \A p \in Deployed : WasCompared(p)' => WasCompared(p),
           phase' = "done" => k' > Len(config.opNodes)
    PROVE  CompleteInv'
<1>1. Deployed' = Deployed
  BY TopologyStands
<1>2. \A p \in Deployed : /\ WasScraped(p) => PageReported(p)
                          /\ WasCompared(p) => Compared(p)
  BY DEF CompleteInv
<1>3. \A p \in Deployed : /\ WasScraped(p)' => PageReported(p)'
                          /\ WasCompared(p)' => Compared(p)'
  BY <1>2, ReportsStay
<1> QED
  BY <1>1, <1>3 DEF CompleteInv

\* A scrape leaves a finding about the node at k.
LEMMA ScrapeReports ==
    ASSUME Types, Scrape, NEW p, p = k
    PROVE  PageReported(p)'
<1>1. UNCHANGED config
  BY ScrapeStep DEF world
<1>2. \A id, severity : Metric(Node(p).name, id, severity).id = <<"op_node", Node(p).name, id>>
  BY DEF Metric, Finding
<1>3. \/ Metric(Node(p).name, "metrics_endpoint", "warn") \in findings'
      \/ Metric(Node(p).name, "metrics_fetch", "ok") \in findings'
      \/ Metric(Node(p).name, "metrics_fetch", "warn") \in findings'
  BY DEF Scrape, Scraped, Emit
<1>4. \E id \in {"metrics_endpoint", "metrics_fetch"} :
         HasFinding(findings', <<"op_node", Node(p).name, id>>)
  BY <1>2, <1>3 DEF HasFinding
<1>5. Node(p)' = Node(p)
  BY <1>1 DEF Node
<1> QED
  BY <1>4, <1>5 DEF PageReported, Reported

\* So does every comparison, on the RPC heads and on the safe heads.
LEMMA ComparisonReports ==
    ASSUME Types, UNCHANGED config, NEW p, p = k, k \in Followers, FollowsSource(k),
           NEW fs, NextFollower(fs), NEW f \in fs, f.id = <<"topology", Node(k).name, "rpc_head">>
    PROVE  Compared(p)'
<1>1. findings' = findings \cup (fs \cup SafeHeadFindings(k))
  BY DEF NextFollower, Emit
<1>2. \E g \in SafeHeadFindings(k) : g.id = <<"topology", Node(k).name, "safe_head_metrics">>
  <2> DEFINE target == <<"op_nodes", Node(k).name, "metrics">>
  <2>1. \/ SafeHeadFindings(k) = {Topology(Node(k).name, "safe_head_metrics", "info", target, NoSample)}
        \/ \E s, n \in Heights :
              SafeHeadFindings(k) = {LagFinding(k, "safe_head_metrics", target, Lag(s, n))}
    BY SafeHeadVerdict
  <2> HIDE DEF target
  <2>2. Topology(Node(k).name, "safe_head_metrics", "info", target, NoSample).id
          = <<"topology", Node(k).name, "safe_head_metrics">>
    BY DEF Topology, Finding
  <2>3. \A lag : LagFinding(k, "safe_head_metrics", target, lag).id
                   = <<"topology", Node(k).name, "safe_head_metrics">>
    BY LagVerdict
  <2> QED
    BY <2>1, <2>2, <2>3
<1>3. /\ HasFinding(findings', <<"topology", Node(p).name, "rpc_head">>)
      /\ HasFinding(findings', <<"topology", Node(p).name, "safe_head_metrics">>)
  BY <1>1, <1>2 DEF HasFinding
<1>4. Node(p)' = Node(p)
  BY DEF Node
<1> QED
  BY <1>3, <1>4 DEF Compared, Reported

\* The loop over the followers passes the node at k.
LEMMA LoopPasses ==
    ASSUME Types, CompleteInv, UNCHANGED config, findings \subseteq findings',
           phase # "scrape", phase' = "follow", k' = k + 1, NEW d, d = k, Compared(d)'
    PROVE  CompleteInv'
<1>1. Deployed' = Deployed /\ k \in Nat /\ \A p \in Deployed : p \in Nat
  BY TopologyStands DEF Types, Doctors, Deployed
<1>2. ASSUME NEW p \in Deployed
      PROVE  PageReported(p)' /\ (WasCompared(p)' => Compared(p)')
  <2>1. PageReported(p)'
    BY <1>2, ReportsStay DEF CompleteInv, WasScraped
  <2>2. WasCompared(p)' => p < k \/ p = d
    BY <1>1, <1>2 DEF WasCompared
  <2>3. p < k => Compared(p)'
    BY <1>2, ReportsStay DEF CompleteInv, WasCompared
  <2> QED
    BY <2>1, <2>2, <2>3
<1> QED
  BY <1>1, <1>2 DEF CompleteInv

LEMMA NextComplete ==
    ASSUME Types, CompleteInv, [Next]_vars
    PROVE  CompleteInv'
<1>1. k \in Nat /\ Len(config.opNodes) \in Nat
  BY DeploymentTypes DEF Types, Doctors
<1>2. CASE Nodes \/ UNCHANGED vars
  <2>1. UNCHANGED <<config, phase, k, findings>>
    BY <1>2, NodesStep DEF Types, doctor, vars, world
  <2>2. \A p : (WasScraped(p)' <=> WasScraped(p)) /\ (WasCompared(p)' <=> WasCompared(p))
    BY <2>1 DEF WasScraped, WasCompared
  <2>3. phase' = "done" => k' > Len(config.opNodes)
    BY <2>1 DEF CompleteInv
  <2> QED
    BY <2>1, <2>2, <2>3, CompleteStands
<1>3. CASE Scrape
  <2>1. /\ UNCHANGED <<config, phase>> /\ phase = "scrape" /\ k' = k + 1
        /\ findings \subseteq findings' /\ Deployed' = Deployed
    BY <1>3, ScrapeStep, TopologyStands DEF world
  <2>2. PICK d : d = k
    OBVIOUS
  <2>3. ASSUME NEW p \in Deployed, WasScraped(p)'
        PROVE  PageReported(p)'
    <3>1. p < k \/ p = d
      BY <1>1, <2>1, <2>2, <2>3 DEF WasScraped, Deployed
    <3>2. CASE p = d
      BY <1>3, <2>2, <3>2, ScrapeReports
    <3>3. CASE p < k
      BY <2>1, <3>3, ReportsStay DEF CompleteInv, WasScraped
    <3> QED
      BY <3>1, <3>2, <3>3
  <2> QED
    BY <2>1, <2>3 DEF CompleteInv, WasCompared
<1>4. CASE SourceTier
  <2>1. /\ UNCHANGED config /\ phase = "scrape" /\ k > Len(config.opNodes)
        /\ phase' = "follow" /\ k' = 1 /\ findings \subseteq findings'
    BY <1>4 DEF SourceTier, world, Emit
  <2>2. \A p \in Deployed : WasScraped(p) /\ ~WasCompared(p)'
    BY <1>1, <2>1 DEF WasScraped, WasCompared, Deployed
  <2> QED
    BY <2>1, <2>2, CompleteStands
<1>5. ASSUME Follow
      PROVE  CompleteInv'
  <2>1. PICK d : d = k
    OBVIOUS
  <2>2. UNCHANGED config /\ phase = "follow"
    BY <1>5 DEF Follow, world
  <2>3. CASE /\ k \notin Followers \/ ~FollowsSource(k)
             /\ k' = k + 1 /\ UNCHANGED <<phase, sourceHead>>
             /\ Emit(When(k \in Followers, Declared(IF Node(k).follows = "" THEN "warn" ELSE "fail")))
    <3>1. Compared(d)
      BY <2>1, <2>3 DEF Compared
    <3>2. findings \subseteq findings'
      BY <2>3 DEF Emit
    <3>3. Compared(d)'
      BY <2>2, <3>1, <3>2, ReportsStay
    <3> QED
      BY <2>1, <2>2, <2>3, <3>2, <3>3, LoopPasses
  <2>4. CASE /\ k \in Followers /\ FollowsSource(k)
             /\ phase' = "sourceHead" /\ UNCHANGED <<k, sourceHead>>
             /\ Emit({Declared("ok")})
    <3>1. findings \subseteq findings'
      BY <2>4 DEF Emit
    <3>2. \A p : (WasScraped(p)' => WasScraped(p)) /\ (WasCompared(p)' => WasCompared(p))
      BY <2>2, <2>4 DEF WasScraped, WasCompared
    <3> QED
      BY <2>2, <2>4, <3>1, <3>2, CompleteStands
  <2>5. CASE /\ k \in Followers /\ FollowsSource(k)
             /\ NextFollower({Declared("ok"), RPCHead("warn", <<"op_nodes", Node(k).name, "rpc">>)})
    <3> DEFINE f == RPCHead("warn", <<"op_nodes", Node(k).name, "rpc">>)
               fs == {Declared("ok"), f}
    <3>1. f.id = <<"topology", Node(k).name, "rpc_head">>
      BY DEF RPCHead, Topology, Finding
    <3>2. f \in fs /\ NextFollower(fs)
      BY <2>5
    <3> HIDE DEF f, fs
    <3>3. Compared(d)'
      BY <2>1, <2>2, <2>5, <3>1, <3>2, ComparisonReports
    <3>4. phase' = "follow" /\ k' = k + 1 /\ findings \subseteq findings'
      BY <3>2 DEF NextFollower, Emit
    <3> QED
      BY <2>1, <2>2, <3>3, <3>4, LoopPasses
  <2> QED
    BY <1>5, <2>3, <2>4, <2>5 DEF Follow
<1>6. ASSUME SourceHead
      PROVE  CompleteInv'
  <2>1. PICK d : d = k
    OBVIOUS
  <2>2. UNCHANGED config /\ phase = "sourceHead" /\ k \in Followers /\ FollowsSource(k)
    BY <1>6 DEF SourceHead, world, Types, Doctors
  <2>3. CASE phase' = "nodeHead" /\ UNCHANGED <<k, findings>>
    <3>1. \A p : (WasScraped(p)' => WasScraped(p)) /\ (WasCompared(p)' => WasCompared(p))
      BY <2>2, <2>3 DEF WasScraped, WasCompared
    <3> QED
      BY <2>2, <2>3, <3>1, CompleteStands
  <2>4. CASE NextFollower({RPCHead("warn", <<"op_nodes", Node(SourceOf(k)).name, "rpc">>)})
    <3> DEFINE f == RPCHead("warn", <<"op_nodes", Node(SourceOf(k)).name, "rpc">>)
    <3>1. f.id = <<"topology", Node(k).name, "rpc_head">>
      BY DEF RPCHead, Topology, Finding
    <3>2. f \in {f} /\ NextFollower({f})
      BY <2>4
    <3> HIDE DEF f
    <3>3. Compared(d)'
      BY <2>1, <2>2, <3>1, <3>2, ComparisonReports
    <3>4. phase' = "follow" /\ k' = k + 1 /\ findings \subseteq findings'
      BY <3>2 DEF NextFollower, Emit
    <3> QED
      BY <2>1, <2>2, <3>3, <3>4, LoopPasses
  <2> QED
    BY <1>6, <2>3, <2>4 DEF SourceHead
<1>7. ASSUME NodeHead
      PROVE  CompleteInv'
  <2>1. PICK d : d = k
    OBVIOUS
  <2>2. UNCHANGED config /\ phase = "nodeHead" /\ k \in Followers /\ FollowsSource(k)
    BY <1>7 DEF NodeHead, world, Types, Doctors
  <2>3. PICK f : NextFollower({f}) /\ f.id = <<"topology", Node(k).name, "rpc_head">>
    <3>1. RPCHead("warn", <<"op_nodes", Node(k).name, "rpc">>).id
            = <<"topology", Node(k).name, "rpc_head">>
      BY DEF RPCHead, Topology, Finding
    <3>2. \A target, lag : LagFinding(k, "rpc_head", target, lag).id
                             = <<"topology", Node(k).name, "rpc_head">>
      BY LagVerdict
    <3> QED
      BY <1>7, <3>1, <3>2 DEF NodeHead
  <2>4. Compared(d)'
    BY <2>1, <2>2, <2>3, ComparisonReports
  <2>5. phase' = "follow" /\ k' = k + 1 /\ findings \subseteq findings'
    BY <2>3 DEF NextFollower, Emit
  <2> QED
    BY <2>1, <2>2, <2>4, <2>5, LoopPasses
<1>8. CASE Return
  <2>1. /\ UNCHANGED <<config, k, findings>> /\ phase = "follow" /\ phase' = "done"
        /\ k > Len(config.opNodes)
    BY <1>8 DEF Return, world
  <2>2. \A p : (WasScraped(p)' => WasScraped(p)) /\ (WasCompared(p)' => WasCompared(p))
    BY <2>1 DEF WasScraped, WasCompared
  <2> QED
    BY <2>1, <2>2, CompleteStands
<1> QED
  BY <1>2, <1>3, <1>4, <1>5, <1>6, <1>7, <1>8 DEF Next, Doctor

(***************************************************************************)
(* Whatever fails, no follower of a source and no metrics page goes        *)
(* without a finding, in every configuration.                              *)
(***************************************************************************)
THEOREM NothingGoesUnreported == Spec => []ReportIsComplete
<1>1. Init => Types /\ CompleteInv
  <2>1. ASSUME Init
        PROVE  CompleteInv
    <3>1. \A p \in Deployed : ~WasScraped(p) /\ ~WasCompared(p)
      BY <2>1 DEF Init, WasScraped, WasCompared, Deployed
    <3> QED
      BY <2>1, <3>1 DEF Init, CompleteInv
  <2> QED
    BY <2>1, InitTypes
<1>2. (Types /\ CompleteInv) /\ [Next]_vars => (Types /\ CompleteInv)'
  BY NextTypes, NextComplete
<1>3. Types /\ CompleteInv => ReportIsComplete
  <2>1. ASSUME Types, CompleteInv, phase = "done", NEW p \in Deployed
        PROVE  PageReported(p) /\ Compared(p)
    <3>1. k \in Nat /\ Len(config.opNodes) \in Nat /\ p \in 1 .. Len(config.opNodes)
          /\ k > Len(config.opNodes)
      BY <2>1, DeploymentTypes DEF Types, Doctors, CompleteInv, Deployed
    <3>2. WasScraped(p) /\ WasCompared(p)
      BY <2>1, <3>1 DEF WasScraped, WasCompared
    <3> QED
      BY <2>1, <3>2 DEF CompleteInv
  <2>2. \A p \in Followers : p \in Deployed
    BY DEF Followers
  <2> QED
    BY <2>1, <2>2 DEF ReportIsComplete, PageReported, Compared, Reported
<1> QED
  BY <1>1, <1>2, <1>3, PTL DEF Spec
-----------------------------------------------------------------------------
(* The gate of --fail-on warn *)

PageSound(p) == Node(p).metrics /\ Healthy(page[p])

\* The lag of the follower at p was measured over RPC.
Measured(p) ==
    \E f \in findings : /\ f.id = <<"topology", Node(p).name, "rpc_head">>
                        /\ f.sample[1] = "lag_blocks"

FollowerSound(p) == p \in Followers => FollowsSource(p) /\ Measured(p)

(***************************************************************************)
(* The inductive invariant: as long as nothing warns or fails, whatever    *)
(* the loops have passed was as the gate promises.                         *)
(***************************************************************************)
SoundSoFar ==
    /\ \A p \in Deployed : WasScraped(p) => PageSound(p)
    /\ phase # "scrape" => Cardinality(Sources) >= 2
    /\ \A p \in Deployed : WasCompared(p) => FollowerSound(p)

GateInv == ~Bad(findings) => SoundSoFar

\* A verdict that is not bad says that the series are there and good.
LEMMA VerdictGood ==
    ASSUME NEW name, NEW pg, NEW id, NEW good \in BOOLEAN, NEW severity \in {"warn", "fail"},
           NEW fs, ~Bad(fs), Verdict(name, pg, id, good, severity) \in fs
    PROVE  pg[id] # {} /\ good
<1>1. \A i, s : Metric(name, i, s).severity = s
  BY DEF Metric, Finding
<1>2. pg[id] # {}
  <2>1. CASE pg[id] = {}
    <3>1. Metric(name, Missing[id], "warn") \in fs
      BY <2>1 DEF Verdict
    <3> QED
      BY <1>1, <3>1 DEF Bad
  <2> QED
    BY <2>1
<1>3. CASE ~good
  <2>1. Metric(name, id, severity) \in fs
    BY <1>2, <1>3 DEF Verdict
  <2> QED
    BY <1>1, <2>1 DEF Bad
<1> QED
  BY <1>2, <1>3

LEMMA PageVerdicts ==
    ASSUME NEW name, NEW pg, ~Bad(NodeMetricFindings(name, pg))
    PROVE  Healthy(pg)
<1> DEFINE fs == NodeMetricFindings(name, pg)
<1>1. /\ Verdict(name, pg, "up", \A v \in pg.up : v = 1, "fail") \in fs
      /\ Verdict(name, pg, "refs", TRUE, "ok") \in fs
      /\ Verdict(name, pg, "peer_count", \A v \in pg.peer_count : v >= config.minPeerCount, "warn") \in fs
      /\ Verdict(name, pg, "derivation_errors_total",
                 \A v \in pg.derivation_errors_total : v = 0, "warn") \in fs
      /\ Verdict(name, pg, "pipeline_resets_total",
                 \A v \in pg.pipeline_resets_total : v = 0, "warn") \in fs
      /\ Verdict(name, pg, "rpc_latency", TRUE, "ok") \in fs
  BY DEF NodeMetricFindings
<1> HIDE DEF fs
<1>2. ~Bad(fs)
  BY DEF fs
<1>3. \A id : Metric(name, Missing[id], "warn").severity = "warn"
  BY DEF Metric, Finding
<1>4. pg["refs"] # {} /\ pg["rpc_latency"] # {}
  BY <1>1, <1>2, <1>3 DEF Verdict, Bad
<1>5. pg["up"] # {} /\ \A v \in pg.up : v = 1
  <2> DEFINE good == \A v \in pg.up : v = 1
  <2>1. Verdict(name, pg, "up", good, "fail") \in fs
    BY <1>1
  <2> QED
    BY <1>2, <2>1, VerdictGood
<1>6. pg["peer_count"] # {} /\ \A v \in pg.peer_count : v >= config.minPeerCount
  <2> DEFINE good == \A v \in pg.peer_count : v >= config.minPeerCount
  <2>1. Verdict(name, pg, "peer_count", good, "warn") \in fs
    BY <1>1
  <2> QED
    BY <1>2, <2>1, VerdictGood
<1>7. pg["derivation_errors_total"] # {} /\ \A v \in pg.derivation_errors_total : v = 0
  <2> DEFINE good == \A v \in pg.derivation_errors_total : v = 0
  <2>1. Verdict(name, pg, "derivation_errors_total", good, "warn") \in fs
    BY <1>1
  <2> QED
    BY <1>2, <2>1, VerdictGood
<1>8. pg["pipeline_resets_total"] # {} /\ \A v \in pg.pipeline_resets_total : v = 0
  <2> DEFINE good == \A v \in pg.pipeline_resets_total : v = 0
  <2>1. Verdict(name, pg, "pipeline_resets_total", good, "warn") \in fs
    BY <1>1
  <2> QED
    BY <1>2, <2>1, VerdictGood
<1> QED
  BY <1>4, <1>5, <1>6, <1>7, <1>8 DEF Healthy

\* What was sound stays so.
LEMMA SoundStays ==
    ASSUME UNCHANGED <<config, page>>, findings \subseteq findings'
    PROVE  /\ \A p : PageSound(p) => PageSound(p)'
           /\ \A p : FollowerSound(p) => FollowerSound(p)'
           /\ Cardinality(Sources)' = Cardinality(Sources)
<1>1. \A p : Node(p)' = Node(p) /\ (FollowsSource(p)' <=> FollowsSource(p))
  BY TopologyStands
<1>2. Followers' = Followers /\ Sources' = Sources
  BY TopologyStands
<1>3. \A p : PageSound(p) => PageSound(p)'
  BY <1>1 DEF PageSound, Healthy
<1>4. \A p : Measured(p) => Measured(p)'
  BY <1>1 DEF Measured
<1> QED
  BY <1>1, <1>2, <1>3, <1>4 DEF FollowerSound

\* Steps by which no loop passes a node.
LEMMA SoundStands ==
    ASSUME SoundSoFar, UNCHANGED <<config, page>>, findings \subseteq findings',
           \A p \in Deployed : WasScraped(p)' => WasScraped(p),
           \A p \in Deployed : WasCompared(p)' => WasCompared(p),
           phase' # "scrape" => Cardinality(Sources) >= 2
    PROVE  SoundSoFar'
<1>1. Deployed' = Deployed
  BY TopologyStands
<1>2. \A p \in Deployed : /\ WasScraped(p) => PageSound(p)
                          /\ WasCompared(p) => FollowerSound(p)
  BY DEF SoundSoFar
<1>3. \A p \in Deployed : /\ WasScraped(p)' => PageSound(p)'
                          /\ WasCompared(p)' => FollowerSound(p)'
  BY <1>2, SoundStays
<1> QED
  BY <1>1, <1>3, SoundStays DEF SoundSoFar

\* The loop over the followers passes the node at k.
LEMMA SoundPasses ==
    ASSUME Types, SoundSoFar, UNCHANGED <<config, page>>, findings \subseteq findings',
           phase # "scrape", phase' = "follow", k' = k + 1, NEW d, d = k, FollowerSound(d)'
    PROVE  SoundSoFar'
<1>1. Deployed' = Deployed /\ k \in Nat /\ \A p \in Deployed : p \in Nat
  BY TopologyStands DEF Types, Doctors, Deployed
<1>2. ASSUME NEW p \in Deployed
      PROVE  PageSound(p)' /\ (WasCompared(p)' => FollowerSound(p)')
  <2>1. PageSound(p)'
    BY <1>2, SoundStays DEF SoundSoFar, WasScraped
  <2>2. WasCompared(p)' => p < k \/ p = d
    BY <1>1, <1>2 DEF WasCompared
  <2>3. p < k => FollowerSound(p)'
    BY <1>2, SoundStays DEF SoundSoFar, WasCompared
  <2> QED
    BY <2>1, <2>2, <2>3
<1>3. Cardinality(Sources)' >= 2
  BY SoundStays DEF SoundSoFar
<1> QED
  BY <1>1, <1>2, <1>3 DEF SoundSoFar

\* A scrape after which nothing is bad.
LEMMA ScrapeSound ==
    ASSUME Types, Scrape, ~Bad(findings')
    PROVE  PageSound(k)
<1>1. \A id, s : Metric(Node(k).name, id, s).severity = s
  BY DEF Metric, Finding
<1>2. \A id : Metric(Node(k).name, id, "warn") \notin findings'
  BY <1>1 DEF Bad
<1>3. /\ Node(k).metrics
      /\ findings' = findings \cup ({Metric(Node(k).name, "metrics_fetch", "ok")}
                                    \cup NodeMetricFindings(Node(k).name, page[k]))
  BY <1>2 DEF Scrape, Scraped, Emit
<1>4. ~Bad(NodeMetricFindings(Node(k).name, page[k]))
  BY <1>3, BadStays
<1> QED
  BY <1>3, <1>4, PageVerdicts DEF PageSound

\* A finding about the follower at k that says it was not compared is bad.
LEMMA NotCompared ==
    ASSUME NEW fs, NEW severity \in {"warn", "fail"}, NEW target,
           Declared(severity) \in fs \/ RPCHead("warn", target) \in fs
    PROVE  Bad(fs)
<1>1. Declared(severity).severity = severity /\ RPCHead("warn", target).severity = "warn"
  BY DEF Declared, RPCHead, Topology, Finding
<1> QED
  BY <1>1 DEF Bad

LEMMA NextGate ==
    ASSUME Types, GateInv, [Next]_vars
    PROVE  GateInv'
<1> SUFFICES ASSUME ~Bad(findings')
             PROVE  SoundSoFar'
  BY DEF GateInv
<1>1. ASSUME findings \subseteq findings'
      PROVE  SoundSoFar
  BY <1>1, BadStays DEF GateInv
<1>2. k \in Nat /\ Len(config.opNodes) \in Nat
  BY DeploymentTypes DEF Types, Doctors
<1>3. CASE Nodes \/ UNCHANGED vars
  <2>1. UNCHANGED <<config, page, phase, k, findings>>
    BY <1>3, NodesStep DEF Types, doctor, vars, world
  <2>2. \A p : (WasScraped(p)' <=> WasScraped(p)) /\ (WasCompared(p)' <=> WasCompared(p))
    BY <2>1 DEF WasScraped, WasCompared
  <2>3. SoundSoFar
    BY <1>1, <2>1
  <2>4. phase' # "scrape" => Cardinality(Sources) >= 2
    BY <2>1, <2>3 DEF SoundSoFar
  <2> QED
    BY <2>1, <2>2, <2>3, <2>4, SoundStands
<1>4. CASE Scrape
  <2>1. /\ UNCHANGED <<config, page, phase>> /\ phase = "scrape" /\ k' = k + 1
        /\ findings \subseteq findings' /\ Deployed' = Deployed
    BY <1>4, ScrapeStep, TopologyStands DEF world
  <2>2. PICK d : d = k
    OBVIOUS
  <2>3. SoundSoFar /\ PageSound(d)
    BY <1>1, <1>4, <2>1, <2>2, ScrapeSound
  <2>4. ASSUME NEW p \in Deployed, WasScraped(p)'
        PROVE  PageSound(p)'
    <3>1. p < k \/ p = d
      BY <1>2, <2>1, <2>2, <2>4 DEF WasScraped, Deployed
    <3>2. PageSound(p)
      BY <2>3, <2>4, <3>1 DEF SoundSoFar, WasScraped
    <3> QED
      BY <2>1, <3>2, SoundStays
  <2> QED
    BY <2>1, <2>4 DEF SoundSoFar, WasCompared
<1>5. CASE SourceTier
  <2>1. /\ UNCHANGED <<config, page>> /\ phase = "scrape" /\ k > Len(config.opNodes)
        /\ phase' = "follow" /\ k' = 1 /\ findings \subseteq findings'
        /\ SourceTierFinding \in findings'
    BY <1>5 DEF SourceTier, world, Emit
  <2>2. \A p \in Deployed : WasScraped(p) /\ ~WasCompared(p)'
    BY <1>2, <2>1 DEF WasScraped, WasCompared, Deployed
  <2>3. Cardinality(Sources) >= 2
    <3>1. CASE ~(Cardinality(Sources) >= 2)
      <4>1. SourceTierFinding.severity = "warn"
        BY <3>1 DEF SourceTierFinding, Finding
      <4> QED
        BY <2>1, <4>1 DEF Bad
    <3> QED
      BY <3>1
  <2> QED
    BY <1>1, <2>1, <2>2, <2>3, SoundStands
<1>6. ASSUME Follow
      PROVE  SoundSoFar'
  <2>1. PICK d : d = k
    OBVIOUS
  <2>2. UNCHANGED <<config, page>> /\ phase = "follow" /\ Followers' = Followers
    BY <1>6, TopologyStands DEF Follow, world
  <2>3. CASE /\ k \notin Followers \/ ~FollowsSource(k)
             /\ k' = k + 1 /\ UNCHANGED <<phase, sourceHead>>
             /\ Emit(When(k \in Followers, Declared(IF Node(k).follows = "" THEN "warn" ELSE "fail")))
    <3>1. findings \subseteq findings'
      BY <2>3 DEF Emit
    <3>2. d \notin Followers
      <4> DEFINE severity == IF Node(k).follows = "" THEN "warn" ELSE "fail"
      <4>1. severity \in {"warn", "fail"}
        OBVIOUS
      <4>2. k \in Followers => Declared(severity) \in findings'
        BY <2>3 DEF Emit, When
      <4> HIDE DEF severity
      <4> QED
        BY <2>1, <4>1, <4>2, NotCompared
    <3>3. FollowerSound(d)'
      BY <2>2, <3>2 DEF FollowerSound
    <3> QED
      BY <1>1, <2>1, <2>2, <2>3, <3>1, <3>3, SoundPasses
  <2>4. CASE /\ k \in Followers /\ FollowsSource(k)
             /\ phase' = "sourceHead" /\ UNCHANGED <<k, sourceHead>>
             /\ Emit({Declared("ok")})
    <3>1. findings \subseteq findings'
      BY <2>4 DEF Emit
    <3>2. \A p : (WasScraped(p)' => WasScraped(p)) /\ (WasCompared(p)' => WasCompared(p))
      BY <2>2, <2>4 DEF WasScraped, WasCompared
    <3>3. SoundSoFar /\ Cardinality(Sources) >= 2
      BY <1>1, <2>2, <3>1 DEF SoundSoFar
    <3> QED
      BY <2>2, <3>1, <3>2, <3>3, SoundStands
  <2>5. CASE NextFollower({Declared("ok"), RPCHead("warn", <<"op_nodes", Node(k).name, "rpc">>)})
    <3>1. RPCHead("warn", <<"op_nodes", Node(k).name, "rpc">>) \in findings'
      BY <2>5 DEF NextFollower, Emit
    <3> QED
      BY <3>1, NotCompared
  <2> QED
    BY <1>6, <2>3, <2>4, <2>5 DEF Follow
<1>7. ASSUME SourceHead
      PROVE  SoundSoFar'
  <2>1. UNCHANGED <<config, page>> /\ phase = "sourceHead"
    BY <1>7 DEF SourceHead, world
  <2>2. CASE phase' = "nodeHead" /\ UNCHANGED <<k, findings>>
    <3>1. \A p : (WasScraped(p)' => WasScraped(p)) /\ (WasCompared(p)' => WasCompared(p))
      BY <2>1, <2>2 DEF WasScraped, WasCompared
    <3>2. SoundSoFar /\ Cardinality(Sources) >= 2
      BY <1>1, <2>1, <2>2 DEF SoundSoFar
    <3> QED
      BY <2>1, <2>2, <3>1, <3>2, SoundStands
  <2>3. CASE NextFollower({RPCHead("warn", <<"op_nodes", Node(SourceOf(k)).name, "rpc">>)})
    <3>1. RPCHead("warn", <<"op_nodes", Node(SourceOf(k)).name, "rpc">>) \in findings'
      BY <2>3 DEF NextFollower, Emit
    <3> QED
      BY <3>1, NotCompared
  <2> QED
    BY <1>7, <2>2, <2>3 DEF SourceHead
<1>8. ASSUME NodeHead
      PROVE  SoundSoFar'
  <2>1. PICK d : d = k
    OBVIOUS
  <2>2. UNCHANGED <<config, page>> /\ phase = "nodeHead" /\ k \in Followers /\ FollowsSource(k)
    BY <1>8 DEF NodeHead, world, Types, Doctors
  <2>3. CASE NextFollower({LagFinding(k, "rpc_head", <<"op_nodes", Node(k).name>>,
                                      Lag(sourceHead, unsafe[k]))})
    <3> DEFINE f == LagFinding(k, "rpc_head", <<"op_nodes", Node(k).name>>,
                               Lag(sourceHead, unsafe[k]))
    <3>1. f.id = <<"topology", Node(k).name, "rpc_head">>
      BY LagVerdict
    <3>2. f.sample[1] = "lag_blocks"
      BY DEF LagFinding, Topology, Finding
    <3>3. phase' = "follow" /\ k' = k + 1 /\ findings \subseteq findings' /\ f \in findings'
      BY <2>3 DEF NextFollower, Emit
    <3> HIDE DEF f
    <3>4. \E g \in findings' : /\ g.id = <<"topology", Node(d).name, "rpc_head">>
                               /\ g.sample[1] = "lag_blocks"
      BY <2>1, <3>1, <3>2, <3>3
    <3>5. Node(d)' = Node(d) /\ FollowsSource(d)'
      BY <2>1, <2>2, TopologyStands
    <3>6. Measured(d)'
      BY <3>4, <3>5 DEF Measured
    <3>7. FollowerSound(d)'
      BY <3>5, <3>6 DEF FollowerSound
    <3> QED
      BY <1>1, <2>1, <2>2, <3>3, <3>7, SoundPasses
  <2>4. CASE NextFollower({RPCHead("warn", <<"op_nodes", Node(k).name, "rpc">>)})
    <3>1. RPCHead("warn", <<"op_nodes", Node(k).name, "rpc">>) \in findings'
      BY <2>4 DEF NextFollower, Emit
    <3> QED
      BY <3>1, NotCompared
  <2> QED
    BY <1>8, <2>3, <2>4 DEF NodeHead
<1>9. CASE Return
  <2>1. /\ UNCHANGED <<config, page, k, findings>> /\ phase = "follow" /\ phase' = "done"
    BY <1>9 DEF Return, world
  <2>2. \A p : (WasScraped(p)' => WasScraped(p)) /\ (WasCompared(p)' => WasCompared(p))
    BY <2>1 DEF WasScraped, WasCompared
  <2>3. SoundSoFar /\ Cardinality(Sources) >= 2
    BY <1>1, <2>1 DEF SoundSoFar
  <2> QED
    BY <2>1, <2>2, <2>3, SoundStands
<1> QED
  BY <1>3, <1>4, <1>5, <1>6, <1>7, <1>8, <1>9 DEF Next, Doctor

(***************************************************************************)
(* The gate of --fail-on warn on the op-nodes is sound, in every           *)
(* configuration and for every content of their pages.                     *)
(***************************************************************************)
THEOREM TopologyGateIsSound == Spec => []WarnGateSound
<1>1. Init => Types /\ CompleteInv /\ GateInv
  <2>1. ASSUME Init
        PROVE  CompleteInv /\ GateInv
    <3>1. \A p \in Deployed : ~WasScraped(p) /\ ~WasCompared(p)
      BY <2>1 DEF Init, WasScraped, WasCompared, Deployed
    <3> QED
      BY <2>1, <3>1 DEF Init, CompleteInv, GateInv, SoundSoFar
  <2> QED
    BY <2>1, InitTypes
<1>2. (Types /\ CompleteInv /\ GateInv) /\ [Next]_vars => (Types /\ CompleteInv /\ GateInv)'
  BY NextTypes, NextComplete, NextGate
<1>3. Types /\ CompleteInv /\ GateInv => WarnGateSound
  <2> SUFFICES ASSUME Types, CompleteInv, GateInv, phase = "done", ExitCode(findings, "warn") = 0
               PROVE  /\ Cardinality(Sources) >= 2
                      /\ \A p \in Followers : FollowsSource(p) /\ Measured(p)
                      /\ \A p \in Deployed : PageSound(p)
    BY DEF WarnGateSound, PageSound, Measured
  <2>1. SoundSoFar
    BY ExitCodeWarn DEF GateInv, Types, Graded
  <2>2. k > Len(config.opNodes) /\ k \in Nat /\ Len(config.opNodes) \in Nat
    BY DeploymentTypes DEF CompleteInv, Types, Doctors
  <2>3. \A p \in Deployed : WasScraped(p) /\ WasCompared(p)
    BY <2>2 DEF WasScraped, WasCompared, Deployed
  <2>4. \A p \in Followers : p \in Deployed
    BY DEF Followers
  <2> QED
    BY <2>1, <2>3, <2>4 DEF SoundSoFar, FollowerSound
<1> QED
  BY <1>1, <1>2, <1>3, PTL DEF Spec

-----------------------------------------------------------------------------
(* Where the findings of the topology come from *)

\* What the loop says of the source that p declares.
Judgment(p) ==
    DeclaredFinding(p, IF FollowsSource(p) THEN "ok"
                       ELSE IF Node(p).follows = "" THEN "warn" ELSE "fail")

Comparison(p, id) == <<"topology", Node(p).name, id>>

OfTopology(f) ==
    \/ f = SourceTierFinding
    \/ \E p \in Followers : f = Judgment(p)
    \/ \E p \in Followers, id \in {"rpc_head", "safe_head_metrics"} :
          f.id = Comparison(p, id) /\ f.severity # "fail"

\* The loop has judged the source that p declares.
WasJudged(p) == WasCompared(p) \/ (phase \in {"sourceHead", "nodeHead"} /\ p = k)

(***************************************************************************)
(* The inductive invariant: every finding of the topology is the verdict   *)
(* on the source tier, on the declared source of a follower, or on one of  *)
(* its heads, which never fails; and the first two are there as soon as    *)
(* the loop has come by.                                                   *)
(***************************************************************************)
OriginInv ==
    /\ \A f \in findings : f.id[1] = "topology" => OfTopology(f)
    /\ phase # "scrape" => SourceTierFinding \in findings
    /\ \A p \in Followers : WasJudged(p) => Judgment(p) \in findings

LEMMA OriginStands ==
    ASSUME UNCHANGED config
    PROVE  /\ SourceTierFinding' = SourceTierFinding
           /\ \A p : Judgment(p)' = Judgment(p)
           /\ \A f : OfTopology(f)' <=> OfTopology(f)
<1>1. /\ Followers' = Followers /\ Sources' = Sources
      /\ \A p : Node(p)' = Node(p) /\ (FollowsSource(p)' <=> FollowsSource(p))
  BY TopologyStands
<1>2. SourceTierFinding' = SourceTierFinding
  BY <1>1 DEF SourceTierFinding
<1>3. \A p : Judgment(p)' = Judgment(p)
  BY <1>1 DEF Judgment, DeclaredFinding, Topology, Finding
<1>4. \A p, id : Comparison(p, id)' = Comparison(p, id)
  BY <1>1 DEF Comparison
<1> QED
  BY <1>1, <1>2, <1>3, <1>4 DEF OfTopology

LEMMA ComparisonNeverFails ==
    ASSUME Types, NEW p \in Followers, FollowsSource(p), NEW f \in SafeHeadFindings(p)
    PROVE  OfTopology(f)
<1> DEFINE target == <<"op_nodes", Node(p).name, "metrics">>
<1>1. \/ SafeHeadFindings(p) = {Topology(Node(p).name, "safe_head_metrics", "info", target, NoSample)}
      \/ \E s, n \in Heights :
            SafeHeadFindings(p) = {LagFinding(p, "safe_head_metrics", target, Lag(s, n))}
  BY SafeHeadVerdict
<1> HIDE DEF target
<1>2. /\ Topology(Node(p).name, "safe_head_metrics", "info", target, NoSample).id
           = Comparison(p, "safe_head_metrics")
      /\ Topology(Node(p).name, "safe_head_metrics", "info", target, NoSample).severity = "info"
  BY DEF Topology, Finding, Comparison
<1>3. \A lag : /\ LagFinding(p, "safe_head_metrics", target, lag).id
                    = Comparison(p, "safe_head_metrics")
               /\ LagFinding(p, "safe_head_metrics", target, lag).severity \in {"warn", "ok"}
  BY DEF LagFinding, Topology, Finding, Comparison
<1>4. f.id = Comparison(p, "safe_head_metrics") /\ f.severity # "fail"
  BY <1>1, <1>2, <1>3
<1> QED
  BY <1>4 DEF OfTopology

LEMMA HeadsNeverFail ==
    ASSUME k \in Followers, NEW target
    PROVE  /\ OfTopology(RPCHead("warn", target))
           /\ \A lag : OfTopology(LagFinding(k, "rpc_head", target, lag))
<1>1. /\ RPCHead("warn", target).id = Comparison(k, "rpc_head")
      /\ RPCHead("warn", target).severity = "warn"
  BY DEF RPCHead, Topology, Finding, Comparison
<1>2. \A lag : /\ LagFinding(k, "rpc_head", target, lag).id = Comparison(k, "rpc_head")
               /\ LagFinding(k, "rpc_head", target, lag).severity \in {"warn", "ok"}
  BY DEF LagFinding, Topology, Finding, Comparison
<1> QED
  BY <1>1, <1>2 DEF OfTopology

LEMMA DeclaredIsJudgment ==
    ASSUME k \in Followers,
           NEW severity, severity = (IF FollowsSource(k) THEN "ok"
                                     ELSE IF Node(k).follows = "" THEN "warn" ELSE "fail")
    PROVE  Declared(severity) = Judgment(k) /\ OfTopology(Declared(severity))
<1>1. Declared(severity) = Judgment(k)
  BY DEF Declared, Judgment, DeclaredFinding
<1> QED
  BY <1>1 DEF OfTopology

\* What a comparison emits, in the pass for the node at k.
LEMMA ComparisonOrigin ==
    ASSUME Types, k \in Followers, FollowsSource(k), NEW fs, NextFollower(fs),
           \A f \in fs : OfTopology(f), NEW f \in findings' \ findings
    PROVE  OfTopology(f)
<1>1. f \in fs \/ f \in SafeHeadFindings(k)
  BY DEF NextFollower, Emit
<1> QED
  BY <1>1, ComparisonNeverFails

LEMMA NewOrigin ==
    ASSUME Types, Next, NEW f \in findings' \ findings, f.id[1] = "topology"
    PROVE  OfTopology(f)
<1>1. ASSUME Nodes
      PROVE  FALSE
  BY <1>1, NodesStep DEF Types, doctor
<1>2. ASSUME Scrape
      PROVE  FALSE
  BY <1>2, ScrapePlain DEF OnPages
<1>3. CASE SourceTier
  BY <1>3 DEF SourceTier, Emit, OfTopology
<1>4. CASE Follow
  <2> DEFINE severity == IF Node(k).follows = "" THEN "warn" ELSE "fail"
  <2>1. CASE /\ k \notin Followers \/ ~FollowsSource(k)
             /\ Emit(When(k \in Followers, Declared(severity)))
    <3>1. k \in Followers /\ f = Declared(severity) /\ ~FollowsSource(k)
      BY <2>1 DEF Emit, When
    <3> QED
      BY <3>1, DeclaredIsJudgment
  <2>2. CASE k \in Followers /\ FollowsSource(k) /\ Emit({Declared("ok")})
    <3>1. f = Declared("ok")
      BY <2>2 DEF Emit
    <3> QED
      BY <2>2, <3>1, DeclaredIsJudgment
  <2>3. CASE /\ k \in Followers /\ FollowsSource(k)
             /\ NextFollower({Declared("ok"), RPCHead("warn", <<"op_nodes", Node(k).name, "rpc">>)})
    <3>1. \A g \in {Declared("ok"), RPCHead("warn", <<"op_nodes", Node(k).name, "rpc">>)} :
             OfTopology(g)
      BY <2>3, DeclaredIsJudgment, HeadsNeverFail
    <3> QED
      BY <2>3, <3>1, ComparisonOrigin
  <2> QED
    BY <1>4, <2>1, <2>2, <2>3 DEF Follow
<1>5. CASE SourceHead
  <2>1. k \in Followers /\ FollowsSource(k)
    BY <1>5 DEF SourceHead, Types, Doctors
  <2>2. NextFollower({RPCHead("warn", <<"op_nodes", Node(SourceOf(k)).name, "rpc">>)})
    BY <1>5 DEF SourceHead
  <2>3. \A g \in {RPCHead("warn", <<"op_nodes", Node(SourceOf(k)).name, "rpc">>)} : OfTopology(g)
    BY <2>1, HeadsNeverFail
  <2> QED
    BY <2>1, <2>2, <2>3, ComparisonOrigin
<1>6. CASE NodeHead
  <2>1. k \in Followers /\ FollowsSource(k)
    BY <1>6 DEF NodeHead, Types, Doctors
  <2>2. PICK g : NextFollower({g}) /\ OfTopology(g)
    BY <1>6, <2>1, HeadsNeverFail DEF NodeHead
  <2> QED
    BY <2>1, <2>2, ComparisonOrigin
<1>7. ASSUME Return
      PROVE  FALSE
  BY <1>7 DEF Return
<1> QED
  BY <1>1, <1>2, <1>3, <1>4, <1>5, <1>6, <1>7 DEF Next, Doctor

\* A step keeps what was reported, and where the loops have been.
LEMMA LoopsAdvance ==
    ASSUME Types, [Next]_vars
    PROVE  /\ UNCHANGED config /\ findings \subseteq findings'
           /\ \A p \in Deployed : WasCompared(p) => WasCompared(p)'
<1>1. k \in Nat /\ \A p \in Deployed : p \in Nat
  BY DEF Types, Doctors, Deployed
<1>2. CASE Nodes \/ UNCHANGED vars
  <2>1. UNCHANGED <<config, phase, k, findings>>
    BY <1>2, NodesStep DEF Types, doctor, vars, world
  <2> QED
    BY <2>1 DEF WasCompared
<1>3. CASE Scrape
  <2>1. UNCHANGED config /\ phase = "scrape" /\ findings \subseteq findings'
    BY <1>3, ScrapeStep DEF world
  <2> QED
    BY <2>1 DEF WasCompared
<1>4. CASE SourceTier
  BY <1>4 DEF SourceTier, Emit, WasCompared, world
<1>5. CASE Follow \/ SourceHead \/ NodeHead \/ Return
  <2>1. UNCHANGED config
    BY <1>5 DEF Follow, SourceHead, NodeHead, Return, world
  <2>2. /\ findings \subseteq findings'
        /\ phase' # "scrape" /\ (k' = k \/ k' = k + 1)
    <3>1. CASE Follow
      BY <3>1 DEF Follow, NextFollower, Emit
    <3>2. CASE SourceHead
      BY <3>2 DEF SourceHead, NextFollower, Emit
    <3>3. CASE NodeHead
      BY <3>3 DEF NodeHead, NextFollower, Emit
    <3>4. CASE Return
      BY <3>4 DEF Return
    <3> QED
      BY <1>5, <3>1, <3>2, <3>3, <3>4
  <2>3. ASSUME NEW p \in Deployed, WasCompared(p)
        PROVE  WasCompared(p)'
    BY <1>1, <2>2, <2>3 DEF WasCompared
  <2> QED
    BY <2>1, <2>2, <2>3
<1> QED
  BY <1>2, <1>3, <1>4, <1>5 DEF Next, Doctor

LEMMA NextOrigin ==
    ASSUME Types, OriginInv, [Next]_vars
    PROVE  OriginInv'
<1> USE DEF WasJudged
<1>1. /\ UNCHANGED config /\ findings \subseteq findings' /\ Followers' = Followers
      /\ SourceTierFinding' = SourceTierFinding
      /\ \A p : Judgment(p)' = Judgment(p)
      /\ \A f : OfTopology(f)' <=> OfTopology(f)
  BY LoopsAdvance, TopologyStands, OriginStands
<1>2. ASSUME NEW f \in findings', f.id[1] = "topology"
      PROVE  OfTopology(f)'
  <2>1. CASE f \in findings
    BY <1>1, <1>2, <2>1 DEF OriginInv
  <2>2. CASE f \notin findings
    <3>1. Next
      BY <2>2 DEF vars, doctor
    <3> QED
      BY <1>1, <1>2, <2>2, <3>1, NewOrigin
  <2> QED
    BY <2>1, <2>2
<1>3. ASSUME phase' # "scrape"
      PROVE  SourceTierFinding \in findings'
  <2>1. CASE phase # "scrape"
    BY <1>1, <2>1 DEF OriginInv
  <2>2. CASE phase = "scrape"
    <3>1. SourceTier
      <4>1. ~(Nodes \/ UNCHANGED vars)
        BY <1>3, <2>2, NodesStep DEF Types, doctor, vars
      <4>2. ~Scrape
        BY <1>3, <2>2, ScrapeStep
      <4> QED
        BY <2>2, <4>1, <4>2 DEF Next, Doctor, Follow, SourceHead, NodeHead, Return
    <3> QED
      BY <3>1 DEF SourceTier, Emit
  <2> QED
    BY <2>1, <2>2
<1>4. ASSUME NEW p \in Followers, WasJudged(p)'
      PROVE  Judgment(p) \in findings'
  <2>1. CASE WasJudged(p)
    BY <1>1, <2>1 DEF OriginInv
  <2>2. CASE ~WasJudged(p)
    <3>1. p \in Deployed /\ k \in Nat /\ p \in Nat /\ p >= 1
      BY DEF Followers, Deployed, Types, Doctors
    <3>2. ~(Nodes \/ UNCHANGED vars)
      <4>1. Nodes \/ UNCHANGED vars => UNCHANGED <<phase, k>>
        BY NodesStep DEF Types, doctor, vars
      <4> QED
        BY <1>4, <2>2, <4>1 DEF WasCompared
    <3>3. ~Scrape
      <4>1. Scrape => phase' = "scrape"
        BY ScrapeStep
      <4> QED
        BY <1>4, <4>1 DEF WasCompared
    <3>4. ~SourceTier
      BY <1>4, <3>1 DEF SourceTier, WasCompared
    <3>5. ~SourceHead /\ ~NodeHead
      <4>1. SourceHead \/ NodeHead =>
              /\ phase \in {"sourceHead", "nodeHead"}
              /\ \/ phase' = "follow" /\ k' = k + 1
                 \/ phase' = "nodeHead" /\ k' = k
        BY DEF SourceHead, NodeHead, NextFollower
      <4>2. phase \in {"sourceHead", "nodeHead"} => p # k /\ ~(p < k)
        BY <2>2 DEF WasCompared
      <4>3. ~(p < k + 1) \/ p = k \/ p < k
        BY <3>1
      <4> QED
        BY <1>4, <4>1, <4>2, <4>3 DEF WasCompared
    <3>6. ~Return
      BY <1>4, <2>2, <3>1 DEF Return, WasCompared
    <3>7. CASE Follow
      <4>1. p = k
        <5>1. /\ phase = "follow"
              /\ \/ phase' = "follow" /\ k' = k + 1
                 \/ phase' = "sourceHead" /\ k' = k
          BY <3>7 DEF Follow, NextFollower
        <5>2. ~(p < k)
          BY <2>2, <5>1 DEF WasCompared
        <5>3. ~(p < k + 1) \/ p = k
          BY <3>1, <5>2
        <5> QED
          BY <1>4, <5>1, <5>2, <5>3 DEF WasCompared
      <4>2. CASE FollowsSource(k)
        <5>1. Declared("ok") \in findings'
          BY <3>7, <4>1, <4>2 DEF Follow, NextFollower, Emit
        <5> QED
          BY <4>1, <4>2, <5>1, DeclaredIsJudgment
      <4>3. CASE ~FollowsSource(k)
        <5> DEFINE severity == IF Node(k).follows = "" THEN "warn" ELSE "fail"
        <5>1. Declared(severity) \in findings'
          BY <3>7, <4>1, <4>3 DEF Follow, Emit, When
        <5>2. /\ k \in Followers
              /\ severity = IF FollowsSource(k) THEN "ok"
                            ELSE IF Node(k).follows = "" THEN "warn" ELSE "fail"
          BY <4>1, <4>3
        <5> HIDE DEF severity
        <5>3. Declared(severity) = Judgment(k)
          BY <5>2, DeclaredIsJudgment
        <5> QED
          BY <4>1, <5>1, <5>3
      <4> QED
        BY <4>2, <4>3
    <3> QED
      BY <3>2, <3>3, <3>4, <3>5, <3>6, <3>7 DEF Next, Doctor
  <2> QED
    BY <2>1, <2>2
<1> QED
  BY <1>1, <1>2, <1>3, <1>4 DEF OriginInv

LEMMA InitOrigin ==
    ASSUME Init
    PROVE  OriginInv
<1>1. \A p \in Followers : ~WasJudged(p)
  BY DEF Init, WasJudged, WasCompared
<1> QED
  BY <1>1 DEF Init, OriginInv

-----------------------------------------------------------------------------
(* The other judge: Validate *)

LEMMA NamedIsDeployed ==
    ASSUME World, NEW name, NEW q \in Deployed, Node(q).name = name
    PROVE  Named(name) \in Deployed /\ Node(Named(name)).name = name
<1> DEFINE S == {p \in Deployed : Node(p).name = name}
<1>1. Len(config.opNodes) \in Nat
  BY DeploymentTypes
<1>2. S \in SUBSET (0 .. Len(config.opNodes)) /\ S # {}
  BY <1>1 DEF Deployed
<1>3. Max(S) \in S
  <2> HIDE DEF S
  <2> QED
    BY <1>1, <1>2, MaxExists
<1> QED
  BY <1>3 DEF Named

\* Validate and the checks read the same topology off op_nodes.
LEMMA SameTopology ==
    ASSUME World
    PROVE  /\ DOMAIN config.opNodes = Deployed /\ IsFiniteSet(Deployed)
           /\ FollowersToJudge(config.opNodes) = Followers
           /\ \A p \in Followers :
                 FollowsSource(p) <=>
                    /\ IsNamed(config.opNodes, Node(p).follows)
                    /\ RoleOfNamed(config.opNodes, Node(p).follows) = "source"
<1>1. DOMAIN config.opNodes = Deployed /\ IsFiniteSet(Deployed)
  BY DeploymentTypes, FS_Interval DEF Deployed, ConfigType
<1>2. FollowersToJudge(config.opNodes) = Followers
  BY <1>1 DEF FollowersToJudge, Followers, Node
<1>3. ASSUME NEW p \in Followers
      PROVE  FollowsSource(p) <=>
                /\ IsNamed(config.opNodes, Node(p).follows)
                /\ RoleOfNamed(config.opNodes, Node(p).follows) = "source"
  <2> DEFINE name == Node(p).follows
  <2>1. IsNamed(config.opNodes, name) <=> \E q \in Deployed : Node(q).name = name
    BY <1>1 DEF IsNamed, Node
  <2>2. RoleOfNamed(config.opNodes, name) = Node(Named(name)).role
    BY <1>1 DEF RoleOfNamed, Named, Node
  <2>3. (\E q \in Deployed : Node(q).name = name) => Named(name) \in Deployed
    BY NamedIsDeployed
  <2>4. FollowsSource(p) <=> (\E q \in Deployed : Node(q).name = name) /\ Named(name) \in Sources
    BY DEF FollowsSource
  <2> HIDE DEF name
  <2>5. Named(name) \in Sources <=> Named(name) \in Deployed /\ Node(Named(name)).role = "source"
    BY DEF Sources
  <2> QED
    BY <2>1, <2>2, <2>3, <2>4, <2>5 DEF name
<1> QED
  BY <1>1, <1>2, <1>3

FollowsIssue(p) ==
    Issue(IF Node(p).follows = "" THEN "warn" ELSE "fail", <<"op_nodes", p, "follows">>)

LEMMA FollowsIssuesAre ==
    ASSUME World
    PROVE  FollowsIssues(config.opNodes)
             = {FollowsIssue(p) : p \in {q \in Followers : ~FollowsSource(q)}}
<1> DEFINE bad == {q \in Followers : ~FollowsSource(q)}
<1>1. bad = {q \in FollowersToJudge(config.opNodes) :
                ~(/\ IsNamed(config.opNodes, config.opNodes[q].follows)
                  /\ RoleOfNamed(config.opNodes, config.opNodes[q].follows) = "source")}
  BY SameTopology DEF Node
<1> HIDE DEF bad
<1>2. FollowsIssues(config.opNodes) = {FollowsIssue(p) : p \in bad}
  BY <1>1 DEF FollowsIssues, FollowsIssue, Node
<1> QED
  BY <1>2 DEF bad

LEMMA TopologyIssuesFinite ==
    ASSUME World
    PROVE  IsFiniteSet(TopologyIssues(config.opNodes))
<1> DEFINE nodes == config.opNodes
           S == {q \in Followers : ~FollowsSource(q)}
           issue == [p \in S |-> FollowsIssue(p)]
<1>1. IsFiniteSet(DOMAIN nodes) /\ IsFiniteSet(Deployed)
  BY SameTopology
<1>2. IsFiniteSet(OPNodeIssues(nodes))
  <2>1. IsFiniteSet(NameIssues("op_nodes", nodes))
        /\ IsFiniteSet(RoleIssues("op_nodes", nodes, validRoles))
    BY <1>1, ListIssuesFinite
  <2> QED
    BY <2>1, FS_Union DEF OPNodeIssues
<1>3. IsFiniteSet(FollowsIssues(nodes))
  <2>1. IsFiniteSet(S)
    BY <1>1, FS_Subset DEF Followers
  <2>2. IsFiniteSet(IssuesAt(S, issue))
    BY <2>1, IssuesFinite
  <2>3. IssuesAt(S, issue) = {FollowsIssue(p) : p \in S}
    BY DEF IssuesAt
  <2> QED
    BY <2>2, <2>3, FollowsIssuesAre
<1>4. IsFiniteSet(SourceTierIssues(nodes))
  BY FS_EmptySet, FS_Singleton DEF SourceTierIssues, When
<1>5. TopologyIssues(nodes) = (OPNodeIssues(nodes) \cup SourceTierIssues(nodes)) \cup FollowsIssues(nodes)
  BY DEF TopologyIssues
<1>6. IsFiniteSet(OPNodeIssues(nodes) \cup SourceTierIssues(nodes))
  BY <1>2, <1>4, FS_Union
<1> QED
  BY <1>3, <1>5, <1>6, FS_Union

\* An issue about the declared source of p says that it follows none.
LEMMA JudgedMeans ==
    ASSUME World, NEW p, NEW s
    PROVE  Issue(s, <<"op_nodes", p, "follows">>) \in TopologyIssues(config.opNodes)
             <=> /\ p \in Followers /\ ~FollowsSource(p)
                 /\ s = IF Node(p).follows = "" THEN "warn" ELSE "fail"
<1> DEFINE field == <<"op_nodes", p, "follows">>
           nodes == config.opNodes
           issue == Issue(s, field)
<1>1. /\ \A q : field # <<"op_nodes", q, "name">> /\ field # <<"op_nodes", q, "role">>
      /\ field # <<"op_nodes">>
  OBVIOUS
<1>2. issue \notin NameIssues("op_nodes", nodes)
  <2>1. ASSUME issue \in NameIssues("op_nodes", nodes)
        PROVE  FALSE
    <3>1. PICK q : issue = Issue("fail", <<"op_nodes", q, "name">>)
      BY <2>1 DEF NameIssues
    <3> HIDE DEF field
    <3> QED
      BY <1>1, <3>1, IssuesDiffer
  <2> QED
    BY <2>1
<1>3. issue \notin RoleIssues("op_nodes", nodes, validRoles)
  <2>1. ASSUME issue \in RoleIssues("op_nodes", nodes, validRoles)
        PROVE  FALSE
    <3>1. PICK q : issue = Issue("fail", <<"op_nodes", q, "role">>)
      BY <2>1 DEF RoleIssues
    <3> HIDE DEF field
    <3> QED
      BY <1>1, <3>1, IssuesDiffer
  <2> QED
    BY <2>1
<1>4. issue \notin SourceTierIssues(nodes)
  <2>1. ASSUME issue \in SourceTierIssues(nodes)
        PROVE  FALSE
    <3>1. issue = Issue("warn", <<"op_nodes">>)
      BY <2>1 DEF SourceTierIssues, When
    <3> HIDE DEF field
    <3> QED
      BY <1>1, <3>1, IssuesDiffer
  <2> QED
    BY <2>1
<1>5. issue \in TopologyIssues(nodes) <=> issue \in FollowsIssues(nodes)
  <2> HIDE DEF issue
  <2> QED
    BY <1>2, <1>3, <1>4 DEF TopologyIssues, OPNodeIssues
<1>6. ASSUME issue \in FollowsIssues(nodes)
      PROVE  /\ p \in Followers /\ ~FollowsSource(p)
             /\ s = IF Node(p).follows = "" THEN "warn" ELSE "fail"
  <2>1. PICK q \in {q \in Followers : ~FollowsSource(q)} : issue = FollowsIssue(q)
    BY <1>6, FollowsIssuesAre
  <2>2. /\ field = <<"op_nodes", q, "follows">>
        /\ s = IF Node(q).follows = "" THEN "warn" ELSE "fail"
    <3> DEFINE severity == IF Node(q).follows = "" THEN "warn" ELSE "fail"
               place == <<"op_nodes", q, "follows">>
    <3>1. Issue(s, field) = Issue(severity, place)
      BY <2>1 DEF FollowsIssue
    <3>2. s = severity /\ field = place
      <4> HIDE DEF field, severity, place
      <4> QED
        BY <3>1, IssuesDiffer
    <3> QED
      BY <3>2
  <2>3. q = p
    BY <2>2
  <2> QED
    BY <2>1, <2>2, <2>3
<1>7. ASSUME /\ p \in Followers /\ ~FollowsSource(p)
             /\ s = IF Node(p).follows = "" THEN "warn" ELSE "fail"
      PROVE  issue \in FollowsIssues(nodes)
  <2>1. issue = FollowsIssue(p)
    BY <1>7 DEF FollowsIssue
  <2> HIDE DEF issue
  <2> QED
    BY <1>7, <2>1, FollowsIssuesAre
<1> QED
  BY <1>5, <1>6, <1>7

\* An accepted topology has unique names, and no follower of something else than a source.
LEMMA AcceptedTopology ==
    ASSUME World, Accepted(TopologyIssues(config.opNodes))
    PROVE  /\ UniqueNames
           /\ \A p \in Followers : FollowsSource(p) \/ Node(p).follows = ""
<1>1. \A f \in TopologyIssues(config.opNodes) : f.severity # "fail"
  BY TopologyIssuesFinite, AcceptedMeans
<1>2. UniqueNames
  <2>1. \A f \in NameIssues("op_nodes", config.opNodes) : f.severity # "fail"
    BY <1>1 DEF TopologyIssues, OPNodeIssues
  <2>2. DOMAIN config.opNodes = 1 .. Len(config.opNodes) /\ Len(config.opNodes) \in Nat
    BY SameTopology, DeploymentTypes DEF Deployed
  <2>3. \A p, q \in 1 .. Len(config.opNodes) :
           config.opNodes[p].name = config.opNodes[q].name => p = q
    BY <2>1, <2>2, NamesDiffer
  <2> QED
    BY <2>3 DEF UniqueNames, Deployed, Node
<1>3. ASSUME NEW p \in Followers, ~FollowsSource(p), Node(p).follows # ""
      PROVE  FALSE
  <2>1. Issue("fail", <<"op_nodes", p, "follows">>) \in TopologyIssues(config.opNodes)
    BY <1>3, JudgedMeans
  <2> QED
    BY <1>1, <2>1, IssueFields
<1> QED
  BY <1>2, <1>3

\* The source tier as Validate counts it, by the names, and as the checks count it.
LEMMA TierIssue ==
    ASSUME World, UniqueNames
    PROVE  Issue("warn", <<"op_nodes">>) \in TopologyIssues(config.opNodes)
             <=> Deployed # {} /\ ~(Cardinality(Sources) >= 2)
<1> DEFINE nodes == config.opNodes
           names == {nodes[p].name : p \in {q \in DOMAIN nodes : nodes[q].role = "source"}}
           issue == Issue("warn", <<"op_nodes">>)
           name == [p \in Sources |-> Node(p).name]
<1>1. DOMAIN nodes = Deployed /\ IsFiniteSet(Deployed)
  BY SameTopology
<1>2. IsFiniteSet(Sources) /\ Sources \subseteq Deployed
  BY <1>1, FS_Subset DEF Sources
<1>3. names = {name[p] : p \in DOMAIN name}
  BY <1>1 DEF Sources, Node
<1>4. \A p, q \in DOMAIN name : name[p] = name[q] => p = q
  BY <1>2 DEF UniqueNames
<1>5. Cardinality(names) = Cardinality(Sources)
  <2>1. DOMAIN name = Sources
    OBVIOUS
  <2> HIDE DEF name, names
  <2> QED
    BY <1>2, <1>3, <1>4, <2>1, ImageCardinality
<1>6. Cardinality(Sources) \in Nat
  BY <1>2, FS_CardinalityType
<1>7. nodes # <<>> <=> Deployed # {}
  <2>1. nodes \in Seq(NodeType) /\ Len(nodes) \in Nat
    BY DeploymentTypes DEF ConfigType
  <2>2. nodes = <<>> <=> Len(nodes) = 0
    BY <2>1, EmptySeq
  <2>3. Len(nodes) # 0 => 1 \in Deployed
    BY <2>1 DEF Deployed
  <2>4. Len(nodes) = 0 => Deployed = {}
    BY <2>1 DEF Deployed
  <2> QED
    BY <2>2, <2>3, <2>4
<1>8. issue \in SourceTierIssues(nodes) <=> nodes # <<>> /\ Cardinality(names) < 2
  BY DEF SourceTierIssues, When
<1>9. issue \in TopologyIssues(nodes) <=> issue \in SourceTierIssues(nodes)
  <2>1. \A q : /\ <<"op_nodes">> # <<"op_nodes", q, "name">>
               /\ <<"op_nodes">> # <<"op_nodes", q, "role">>
               /\ <<"op_nodes">> # <<"op_nodes", q, "follows">>
    OBVIOUS
  <2>2. ASSUME issue \in OPNodeIssues(nodes)
        PROVE  FALSE
    <3>1. PICK q : \/ issue = Issue("fail", <<"op_nodes", q, "name">>)
                   \/ issue = Issue("fail", <<"op_nodes", q, "role">>)
      BY <2>2 DEF OPNodeIssues, NameIssues, RoleIssues
    <3> QED
      BY <3>1, IssuesDiffer
  <2>3. ASSUME issue \in FollowsIssues(nodes)
        PROVE  FALSE
    <3>1. PICK q : issue = FollowsIssue(q)
      BY <2>3, FollowsIssuesAre
    <3>2. issue.target = <<"op_nodes">> /\ FollowsIssue(q).target = <<"op_nodes", q, "follows">>
      BY IssueFields DEF FollowsIssue
    <3> HIDE DEF issue
    <3>3. <<"op_nodes">> = <<"op_nodes", q, "follows">>
      BY <3>1, <3>2
    <3> QED
      BY <2>1, <3>3
  <2> HIDE DEF issue
  <2> QED
    BY <2>2, <2>3 DEF TopologyIssues
<1> HIDE DEF issue, names, nodes
<1> QED
  BY <1>5, <1>6, <1>7, <1>8, <1>9 DEF issue, nodes

LEMMA TierFindingIs ==
    ASSUME World, OriginInv, phase # "scrape"
    PROVE  TierFinding("warn") \in findings <=> ~(Cardinality(Sources) >= 2)
<1>1. SourceTierFinding \in findings
  BY DEF OriginInv
<1>2. ~(Cardinality(Sources) >= 2) => SourceTierFinding = TierFinding("warn")
  BY DEF SourceTierFinding, TierFinding
<1>3. ASSUME TierFinding("warn") \in findings
      PROVE  ~(Cardinality(Sources) >= 2)
  <2>1. TierFinding("warn").id = <<"topology", "source_tier">> /\ TierFinding("warn").severity = "warn"
    BY DEF TierFinding, Finding
  <2>2. OfTopology(TierFinding("warn"))
    BY <1>3, <2>1 DEF OriginInv
  <2>3. \A p : Judgment(p).id = <<"topology", Node(p).name, "follows">>
    BY DEF Judgment, DeclaredFinding, Topology, Finding
  <2>4. \A x, y : <<"topology", "source_tier">> # <<"topology", x, y>>
    OBVIOUS
  <2>5. TierFinding("warn") = SourceTierFinding
    BY <2>1, <2>2, <2>3, <2>4 DEF OfTopology, Comparison
  <2>6. SourceTierFinding.severity = IF Cardinality(Sources) >= 2 THEN "ok" ELSE "warn"
    BY DEF SourceTierFinding, Finding
  <2> QED
    BY <2>1, <2>5, <2>6
<1> QED
  BY <1>1, <1>2, <1>3

\* Of followers with unique names, each finding on a declared source is about one.
LEMMA JudgmentIs ==
    ASSUME World, OriginInv, UniqueNames, NEW p \in Followers, NEW s \in {"warn", "fail"},
           DeclaredFinding(p, s) \in findings
    PROVE  ~FollowsSource(p) /\ s = IF Node(p).follows = "" THEN "warn" ELSE "fail"
<1> DEFINE f == DeclaredFinding(p, s)
           verdict(q) == IF FollowsSource(q) THEN "ok"
                         ELSE IF Node(q).follows = "" THEN "warn" ELSE "fail"
<1>1. f.id = <<"topology", Node(p).name, "follows">> /\ f.severity = s
  BY DEF DeclaredFinding, Topology, Finding
<1>2. \A q : Judgment(q).id = <<"topology", Node(q).name, "follows">>
             /\ Judgment(q).severity = verdict(q)
  BY DEF Judgment, DeclaredFinding, Topology, Finding
<1>3. SourceTierFinding.id = <<"topology", "source_tier">>
  BY DEF SourceTierFinding, Finding
<1>4. OfTopology(f)
  BY <1>1 DEF OriginInv
<1> HIDE DEF f, verdict
<1>5. f # SourceTierFinding
  BY <1>1, <1>3
<1>6. \A q, id : id \in {"rpc_head", "safe_head_metrics"} => f.id # Comparison(q, id)
  BY <1>1 DEF Comparison
<1>7. PICK q \in Followers : f = Judgment(q)
  BY <1>4, <1>5, <1>6 DEF OfTopology
<1>8. Node(q).name = Node(p).name
  BY <1>1, <1>2, <1>7
<1>9. q = p
  BY <1>8 DEF UniqueNames, Followers
<1> QED
  BY <1>1, <1>2, <1>7, <1>9 DEF verdict

(***************************************************************************)
(* Validate and the checks never differ on a topology: neither on the      *)
(* source that a follower declares nor on the redundancy of the sources.   *)
(***************************************************************************)
THEOREM TopologyJudgesAgree == Spec => []ValidationAgreesWithTopology
<1>1. Init => Types /\ CompleteInv /\ OriginInv
  <2>1. ASSUME Init
        PROVE  CompleteInv
    <3>1. \A p \in Deployed : ~WasScraped(p) /\ ~WasCompared(p)
      BY <2>1 DEF Init, WasScraped, WasCompared, Deployed
    <3> QED
      BY <2>1, <3>1 DEF Init, CompleteInv
  <2> QED
    BY <2>1, InitTypes, InitOrigin
<1>2. (Types /\ CompleteInv /\ OriginInv) /\ [Next]_vars => (Types /\ CompleteInv /\ OriginInv)'
  BY NextTypes, NextComplete, NextOrigin
<1>3. Types /\ CompleteInv /\ OriginInv => ValidationAgreesWithTopology
  <2> SUFFICES ASSUME Types, CompleteInv, OriginInv, phase = "done"
               PROVE  ValidationAgreesWithTopology
    BY DEF ValidationAgreesWithTopology
  <2> DEFINE issues == TopologyIssues(config.opNodes)
             Judged(p, s) == Issue(s, <<"op_nodes", p, "follows">>) \in issues
  <2>1. World
    BY DEF Types
  <2>2. \A p, s : Judged(p, s) <=> /\ p \in Followers /\ ~FollowsSource(p)
                                   /\ s = IF Node(p).follows = "" THEN "warn" ELSE "fail"
    BY <2>1, JudgedMeans
  <2>3. \A p \in Followers : Judgment(p) \in findings
    <3>1. ASSUME NEW p \in Followers
          PROVE  WasJudged(p)
      <4>1. k > Len(config.opNodes) /\ k \in Nat /\ Len(config.opNodes) \in Nat
        BY DeploymentTypes DEF CompleteInv, Types, Doctors
      <4>2. p \in Nat /\ p <= Len(config.opNodes)
        BY <4>1 DEF Followers, Deployed
      <4> QED
        BY <4>1, <4>2 DEF WasJudged, WasCompared
    <3> QED
      BY <3>1 DEF OriginInv
  <2>4. ASSUME NEW p \in Followers, NEW s \in {"warn", "fail"}, Judged(p, s)
        PROVE  DeclaredFinding(p, s) \in findings
    <3>1. ~FollowsSource(p) /\ s = IF Node(p).follows = "" THEN "warn" ELSE "fail"
      BY <2>2, <2>4
    <3>2. DeclaredFinding(p, s) = Judgment(p)
      BY <3>1 DEF Judgment
    <3> QED
      BY <2>3, <3>2
  <2>5. ASSUME Accepted(issues)
        PROVE  /\ \A p \in Followers, s \in {"warn", "fail"} :
                     DeclaredFinding(p, s) \in findings => Judged(p, s)
               /\ Deployed # {} =>
                     (TierFinding("warn") \in findings
                        <=> Issue("warn", <<"op_nodes">>) \in issues)
               /\ \A f \in findings : f.id[1] = "topology" => f.severity # "fail"
    <3>1. /\ UniqueNames
          /\ \A p \in Followers : FollowsSource(p) \/ Node(p).follows = ""
      BY <2>1, <2>5, AcceptedTopology
    <3>2. \A p \in Followers, s \in {"warn", "fail"} :
             DeclaredFinding(p, s) \in findings => Judged(p, s)
      BY <2>1, <2>2, <3>1, JudgmentIs
    <3>3. Deployed # {} => (TierFinding("warn") \in findings
                              <=> Issue("warn", <<"op_nodes">>) \in issues)
      BY <2>1, <3>1, TierIssue, TierFindingIs
    <3>4. ASSUME NEW f \in findings, f.id[1] = "topology", f.severity = "fail"
          PROVE  FALSE
      <4>1. SourceTierFinding.severity # "fail"
        BY DEF SourceTierFinding, Finding
      <4>2. \A p \in Followers : Judgment(p).severity # "fail"
        BY <3>1 DEF Judgment, DeclaredFinding, Topology, Finding
      <4> QED
        BY <3>4, <4>1, <4>2 DEF OriginInv, OfTopology
    <3> QED
      BY <3>2, <3>3, <3>4
  <2> HIDE DEF issues
  <2> QED
    BY <2>4, <2>5 DEF ValidationAgreesWithTopology, issues
<1> QED
  BY <1>1, <1>2, <1>3, PTL DEF Spec

-----------------------------------------------------------------------------
(* The exported lags *)

LagKinds == {"rpc_head", "safe_head_metrics"}

Lags == {f \in findings : f.id[1] = "topology" /\ f.sample[1] = "lag_blocks"}

\* The finding f is a verdict on a lag of kind id of the follower at p.
IsLagOf(f, p, id) == \E target, lag : f = LagFinding(p, id, target, lag)

(***************************************************************************)
(* The inductive invariant: a lag was found for a follower that the loop   *)
(* has passed, and only one of each kind.                                  *)
(***************************************************************************)
LagsInv ==
    /\ \A f \in Lags : \E p \in Followers, id \in LagKinds : WasCompared(p) /\ IsLagOf(f, p, id)
    /\ UniqueNames => \A f, g \in Lags : f.id = g.id => f = g

LEMMA LagFields ==
    ASSUME NEW f, NEW p, NEW id, IsLagOf(f, p, id)
    PROVE  /\ f.id = <<"topology", Node(p).name, id>>
           /\ f.sample[1] = "lag_blocks"
           /\ f.severity = "warn" <=> f.sample[2] > config.maxSafeLag
<1>1. PICK target, lag : f = LagFinding(p, id, target, lag)
  BY DEF IsLagOf
<1>2. CASE lag > config.maxSafeLag
  BY <1>1, <1>2 DEF LagFinding, Topology, Finding
<1>3. CASE ~(lag > config.maxSafeLag)
  BY <1>1, <1>3 DEF LagFinding, Topology, Finding
<1> QED
  BY <1>2, <1>3

\* A new lag is of the follower at k, and the safe heads yield at most one.
LEMMA NewLag ==
    ASSUME Types, Next, NEW f \in findings' \ findings, f.sample[1] = "lag_blocks"
    PROVE  /\ UNCHANGED config /\ k \in Followers
           /\ phase # "scrape" /\ phase' = "follow" /\ k' = k + 1
           /\ \E id \in LagKinds : IsLagOf(f, k, id)
<1>1. /\ UNCHANGED world /\ k \in Followers /\ FollowsSource(k)
      /\ phase # "scrape" /\ phase' = "follow" /\ k' = k + 1
      /\ \/ f \in SafeHeadFindings(k)
         \/ /\ phase = "nodeHead"
            /\ f = LagFinding(k, "rpc_head", <<"op_nodes", Node(k).name>>,
                              Lag(sourceHead, unsafe[k]))
  BY LagIsOfFollower
<1>2. CASE f = LagFinding(k, "rpc_head", <<"op_nodes", Node(k).name>>, Lag(sourceHead, unsafe[k]))
  BY <1>1, <1>2 DEF IsLagOf, LagKinds, world
<1>3. CASE f \in SafeHeadFindings(k)
  <2> DEFINE target == <<"op_nodes", Node(k).name, "metrics">>
  <2>1. \/ SafeHeadFindings(k) = {Topology(Node(k).name, "safe_head_metrics", "info", target, NoSample)}
        \/ \E s, n \in Heights :
              SafeHeadFindings(k) = {LagFinding(k, "safe_head_metrics", target, Lag(s, n))}
    BY <1>1, SafeHeadVerdict
  <2>2. Topology(Node(k).name, "safe_head_metrics", "info", target, NoSample).sample[1] = ""
    <3>1. NoSample[1] = ""
      BY DEF NoSample
    <3> QED
      BY <3>1, TopologyPlain
  <2> HIDE DEF target
  <2>3. \E s, n : f = LagFinding(k, "safe_head_metrics", target, Lag(s, n))
    BY <1>3, <2>1, <2>2
  <2> QED
    BY <1>1, <2>3 DEF IsLagOf, LagKinds, world
<1> QED
  BY <1>1, <1>2, <1>3

LEMMA NewLagsDiffer ==
    ASSUME Types, Next, NEW f \in findings' \ findings, NEW g \in findings' \ findings,
           f.sample[1] = "lag_blocks", g.sample[1] = "lag_blocks", f.id = g.id
    PROVE  f = g
<1> DEFINE target == <<"op_nodes", Node(k).name, "metrics">>
           rpc == LagFinding(k, "rpc_head", <<"op_nodes", Node(k).name>>, Lag(sourceHead, unsafe[k]))
<1>1. /\ k \in Followers /\ FollowsSource(k)
      /\ f \in SafeHeadFindings(k) \/ f = rpc
      /\ g \in SafeHeadFindings(k) \/ g = rpc
  BY LagIsOfFollower
<1>2. PICK safeHead : SafeHeadFindings(k) = {safeHead}
                      /\ safeHead.id = <<"topology", Node(k).name, "safe_head_metrics">>
  <2>1. \/ SafeHeadFindings(k) = {Topology(Node(k).name, "safe_head_metrics", "info", target, NoSample)}
        \/ \E s, n \in Heights :
              SafeHeadFindings(k) = {LagFinding(k, "safe_head_metrics", target, Lag(s, n))}
    BY <1>1, SafeHeadVerdict
  <2> HIDE DEF target
  <2>2. Topology(Node(k).name, "safe_head_metrics", "info", target, NoSample).id
          = <<"topology", Node(k).name, "safe_head_metrics">>
    BY DEF Topology, Finding
  <2>3. \A lag : LagFinding(k, "safe_head_metrics", target, lag).id
                   = <<"topology", Node(k).name, "safe_head_metrics">>
    BY LagVerdict
  <2> QED
    BY <2>1, <2>2, <2>3
<1>3. rpc.id = <<"topology", Node(k).name, "rpc_head">>
  BY LagVerdict
<1>4. rpc.id # safeHead.id
  BY <1>2, <1>3
<1> HIDE DEF rpc
<1> QED
  BY <1>1, <1>2, <1>4

LEMMA NextLags ==
    ASSUME Types, LagsInv, [Next]_vars
    PROVE  LagsInv'
<1>1. /\ UNCHANGED config /\ findings \subseteq findings'
      /\ \A p \in Deployed : WasCompared(p) => WasCompared(p)'
  BY LoopsAdvance
<1>2. /\ Followers' = Followers /\ (UniqueNames' <=> UniqueNames)
      /\ \A p : Node(p)' = Node(p)
  BY <1>1, TopologyStands
<1>3. \A f, p, id : IsLagOf(f, p, id)' <=> IsLagOf(f, p, id)
  BY <1>1, <1>2 DEF IsLagOf, LagFinding
<1>4. PICK d : d = k
  OBVIOUS
<1>5. ASSUME NEW f \in Lags', f \notin Lags
      PROVE  /\ f \in findings' \ findings /\ f.sample[1] = "lag_blocks"
             /\ Next /\ d \in Followers /\ ~WasCompared(d) /\ WasCompared(d)'
             /\ \E id \in LagKinds : IsLagOf(f, d, id)
  <2>1. f \in findings' \ findings /\ f.sample[1] = "lag_blocks"
    BY <1>5 DEF Lags
  <2>2. Next
    BY <2>1 DEF vars, doctor
  <2>3. /\ d \in Followers /\ phase # "scrape" /\ phase' = "follow" /\ k' = d + 1
        /\ \E id \in LagKinds : IsLagOf(f, d, id)
    BY <1>4, <2>1, <2>2, NewLag
  <2>4. d \in Nat
    BY <2>3 DEF Followers, Deployed
  <2>5. ~(d < d) /\ d < d + 1
    BY <2>4
  <2> QED
    BY <1>4, <2>1, <2>2, <2>3, <2>5 DEF WasCompared
<1>6. ASSUME NEW f \in Lags'
      PROVE  \E p \in Followers, id \in LagKinds : WasCompared(p)' /\ IsLagOf(f, p, id)
  <2>1. CASE f \in Lags
    <3>1. PICK p \in Followers, id \in LagKinds : WasCompared(p) /\ IsLagOf(f, p, id)
      BY <2>1 DEF LagsInv
    <3>2. WasCompared(p)'
      BY <1>1, <3>1 DEF Followers
    <3> QED
      BY <3>1, <3>2
  <2>2. CASE f \notin Lags
    BY <1>5, <2>2
  <2> QED
    BY <2>1, <2>2
<1>7. ASSUME UniqueNames, NEW f \in Lags', f \notin Lags, NEW g \in Lags
      PROVE  f.id # g.id
  <2>1. PICK id \in LagKinds : IsLagOf(f, d, id) /\ d \in Followers /\ ~WasCompared(d)
    BY <1>5, <1>7
  <2>2. PICK p \in Followers, j \in LagKinds : WasCompared(p) /\ IsLagOf(g, p, j)
    BY DEF LagsInv
  <2>3. f.id = <<"topology", Node(d).name, id>> /\ g.id = <<"topology", Node(p).name, j>>
    BY <2>1, <2>2, LagFields
  <2>4. ASSUME f.id = g.id
        PROVE  FALSE
    <3>1. Node(d).name = Node(p).name
      BY <2>3, <2>4
    <3>2. d = p
      BY <1>7, <2>1, <2>2, <3>1 DEF UniqueNames, Followers
    <3> QED
      BY <2>1, <2>2, <3>2
  <2> QED
    BY <2>4
<1>8. ASSUME UniqueNames, NEW f \in Lags', NEW g \in Lags', f.id = g.id
      PROVE  f = g
  <2>1. CASE f \in Lags /\ g \in Lags
    BY <1>8, <2>1 DEF LagsInv
  <2>2. CASE f \notin Lags /\ g \notin Lags
    <3>1. /\ f \in findings' \ findings /\ f.sample[1] = "lag_blocks"
          /\ g \in findings' \ findings /\ g.sample[1] = "lag_blocks" /\ Next
      BY <1>5, <2>2
    <3> QED
      BY <1>8, <3>1, NewLagsDiffer
  <2>3. f \in Lags <=> g \in Lags
    BY <1>7, <1>8
  <2> QED
    BY <2>1, <2>2, <2>3
<1>9. \A f \in Lags' : \E p \in Followers', id \in LagKinds : WasCompared(p)' /\ IsLagOf(f, p, id)'
  BY <1>2, <1>3, <1>6
<1>10. UniqueNames' => \A f, g \in Lags' : f.id = g.id => f = g
  BY <1>2, <1>8
<1> QED
  BY <1>9, <1>10 DEF LagsInv

LagSeriesOf(f) ==
    Series("topology_follower_lag_blocks",
           Join([kind |-> FollowerKind(f.id)], Join(NameFromID(f.id), chainLabels("op"))),
           f.sample[2])

\* A lag series is labelled with the kind of the lag and with the node, if it has a name.
LEMMA LagSeriesLabels ==
    ASSUME NEW f, NEW name, NEW id, f.id = <<"topology", name, id>>
    PROVE  /\ LagSeriesOf(f).labels.kind = (IF id = "rpc_head" THEN "rpc_head" ELSE "safe_head")
           /\ "name" \in DOMAIN LagSeriesOf(f).labels <=> name # ""
           /\ name # "" => LagSeriesOf(f).labels.name = name
<1> DEFINE labels == Join([kind |-> FollowerKind(f.id)], Join(NameFromID(f.id), chainLabels("op")))
<1>1. LagSeriesOf(f).labels = labels
  BY DEF LagSeriesOf, Series
<1>2. FollowerKind(f.id) = IF id = "rpc_head" THEN "rpc_head" ELSE "safe_head"
  BY DEF FollowerKind
<1>3. labels.kind = FollowerKind(f.id)
  BY DEF Join
<1>4. DOMAIN chainLabels("op") = {"chain"} /\ Len(f.id) > 2 /\ f.id[2] = name
  BY DEF chainLabels
<1>5. CASE name = ""
  <2>1. NameFromID(f.id) = <<>>
    BY <1>4, <1>5, Zenon DEF NameFromID
  <2>2. "name" \notin DOMAIN <<>>
    OBVIOUS
  <2>3. "name" \notin DOMAIN Join(NameFromID(f.id), chainLabels("op"))
    BY <1>4, <2>1, <2>2 DEF Join
  <2>4. "name" \notin DOMAIN labels
    BY <2>3 DEF Join
  <2> QED
    BY <1>1, <1>2, <1>3, <1>5, <2>4
<1>6. CASE name # ""
  <2>1. NameFromID(f.id) = [name |-> name]
    BY <1>4, <1>6, Zenon DEF NameFromID
  <2>2. /\ "name" \in DOMAIN Join(NameFromID(f.id), chainLabels("op"))
        /\ Join(NameFromID(f.id), chainLabels("op")).name = name
    BY <2>1 DEF Join
  <2>3. "name" \in DOMAIN labels /\ labels.name = name
    BY <2>2 DEF Join
  <2> QED
    BY <1>1, <1>2, <1>3, <1>6, <2>3
<1> QED
  BY <1>5, <1>6

LEMMA LagSeriesDiffer ==
    ASSUME LagsInv, UniqueNames, NEW f \in Lags, NEW g \in Lags,
           LagSeriesOf(f).labels = LagSeriesOf(g).labels
    PROVE  f = g
<1>1. PICK p \in Followers, id \in LagKinds : IsLagOf(f, p, id)
  BY DEF LagsInv
<1>2. PICK q \in Followers, j \in LagKinds : IsLagOf(g, q, j)
  BY DEF LagsInv
<1>3. f.id = <<"topology", Node(p).name, id>> /\ g.id = <<"topology", Node(q).name, j>>
  BY <1>1, <1>2, LagFields
<1>4. /\ LagSeriesOf(f).labels.kind = (IF id = "rpc_head" THEN "rpc_head" ELSE "safe_head")
      /\ "name" \in DOMAIN LagSeriesOf(f).labels <=> Node(p).name # ""
      /\ Node(p).name # "" => LagSeriesOf(f).labels.name = Node(p).name
  BY <1>3, LagSeriesLabels
<1>5. /\ LagSeriesOf(g).labels.kind = (IF j = "rpc_head" THEN "rpc_head" ELSE "safe_head")
      /\ "name" \in DOMAIN LagSeriesOf(g).labels <=> Node(q).name # ""
      /\ Node(q).name # "" => LagSeriesOf(g).labels.name = Node(q).name
  BY <1>3, LagSeriesLabels
<1>6. id = j
  BY <1>1, <1>2, <1>4, <1>5 DEF LagKinds
<1>7. Node(p).name = Node(q).name
  BY <1>4, <1>5
<1>8. f.id = g.id
  BY <1>3, <1>6, <1>7
<1> QED
  BY <1>8 DEF LagsInv

LEMMA LagSeriesAre ==
    ASSUME LagsInv
    PROVE  FollowerLagSeries(findings, "op") = {LagSeriesOf(f) : f \in Lags}
<1> DEFINE exported == LagFindings(findings, "topology", "rpc_head")
                       \cup LagFindings(findings, "topology", "safe_head_metrics")
<1>1. ASSUME NEW f \in Lags
      PROVE  f \in exported
  <2>1. PICK p \in Followers, id \in LagKinds : IsLagOf(f, p, id)
    BY DEF LagsInv
  <2>2. f.id = <<"topology", Node(p).name, id>>
    BY <2>1, LagFields
  <2>3. f.id[Len(f.id)] = id
    BY <2>2
  <2>4. f \in findings /\ f.id[1] = "topology" /\ f.sample[1] = "lag_blocks"
    BY DEF Lags
  <2> QED
    BY <2>1, <2>3, <2>4 DEF LagFindings, LagKinds
<1>2. exported \subseteq Lags
  BY DEF LagFindings, Lags
<1>3. exported = Lags
  BY <1>1, <1>2
<1>4. FollowerLagSeries(findings, "op") = {LagSeriesOf(f) : f \in exported}
  BY DEF FollowerLagSeries, LagSeriesOf
<1> QED
  BY <1>3, <1>4

(***************************************************************************)
(* However many followers there are and however they are named, as long as *)
(* the names differ, no lag hides another on the exported page.            *)
(***************************************************************************)
THEOREM FollowerSeriesNeverCollide == Spec => []FollowerSeriesAreUnique
<1>1. Init => Types /\ LagsInv
  <2>1. Init => LagsInv
    BY DEF Init, LagsInv, Lags
  <2> QED
    BY <2>1, InitTypes
<1>2. (Types /\ LagsInv) /\ [Next]_vars => (Types /\ LagsInv)'
  BY NextTypes, NextLags
<1>3. Types /\ LagsInv => FollowerSeriesAreUnique
  <2> SUFFICES ASSUME Types, LagsInv, UniqueNames
               PROVE  LET series == FollowerLagSeries(findings, "op") IN
                      /\ \A s, t \in series : s.labels = t.labels => s = t
                      /\ Cardinality(series) = Cardinality(Lags)
                      /\ \A f \in Lags : f.severity = "warn" <=> f.sample[2] > config.maxSafeLag
    BY DEF FollowerSeriesAreUnique, Lags
  <2> DEFINE series == FollowerLagSeries(findings, "op")
             export == [f \in Lags |-> LagSeriesOf(f)]
  <2>1. series = {LagSeriesOf(f) : f \in Lags}
    BY LagSeriesAre
  <2>2. \A s, t \in series : s.labels = t.labels => s = t
    BY <2>1, LagSeriesDiffer
  <2>3. Cardinality(series) = Cardinality(Lags)
    <3>1. IsFiniteSet(Lags)
      BY FS_Subset DEF Lags, Types, Graded
    <3>2. DOMAIN export = Lags /\ series = {export[f] : f \in DOMAIN export}
      BY <2>1
    <3>3. \A f, g \in DOMAIN export : export[f] = export[g] => f = g
      BY LagSeriesDiffer
    <3> HIDE DEF export, series
    <3> QED
      BY <3>1, <3>2, <3>3, ImageCardinality
  <2>4. \A f \in Lags : f.severity = "warn" <=> f.sample[2] > config.maxSafeLag
    BY LagFields DEF LagsInv
  <2> QED
    BY <2>2, <2>3, <2>4
<1> QED
  BY <1>1, <1>2, <1>3, PTL DEF Spec
=============================================================================
