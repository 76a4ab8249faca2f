--------------------------- MODULE ProxydCheckProofs ---------------------------
(***************************************************************************)
(* Proofs about ProxydCheck, for every configuration, every metrics page   *)
(* and every course of the heads: its types, that no lag is missed, that   *)
(* neither gate opens on anything unread or bad, that Validate agrees with *)
(* the check, that the alerts of the generated rules are honest, and that  *)
(* the slowest backend is the one judged.                                  *)
(***************************************************************************)
EXTENDS ProxydAlerts, ReportProofs

World ==
    /\ <<config, page, chain>> \in Deployments
    /\ head \in [Deployed -> Heights] /\ served \in [Endpoints -> Heights]
    /\ expired \in BOOLEAN /\ faults \in 0 .. MaxFaults
    /\ lagged \subseteq Endpoints \X Deployed /\ tracked \subseteq Endpoints \X Deployed

AtEndpoint == {"chainId", "head", "metrics", "backends"}

NothingRead == [n \in Names |-> {}]

\* What a program counter says of the loops and of what was read.
DoctorsAt(ph, kk, jj, pr, rd) ==
    /\ ph \in Phases /\ kk \in 1 .. Len(config.endpoints) + 1
    /\ ph = "start" => kk = 1
    /\ ph \in AtEndpoint => kk \in Endpoints
    /\ ph = "done" /\ config.enabled => kk \notin Endpoints
    /\ ph # "backends" => jj = 1 /\ rd = NothingRead
    /\ ph = "backends" => jj \in 1 .. Len(config.endpoints[kk].backends) + 1
    /\ ph \notin {"metrics", "backends"} => pr = {}
    /\ pr = {} \/ \E h \in Heights : pr = {h}
    /\ rd \in [Names -> SUBSET Heights]
    /\ \A n \in Names : rd[n] = {} \/ \E h \in Heights : rd[n] = {h}

Doctors == DoctorsAt(phase, k, j, probe, readable)

Types == World /\ Doctors /\ Graded(findings)

-----------------------------------------------------------------------------
(* Types of the data *)

LEMMA DeploymentTypes ==
    ASSUME World
    PROVE  /\ config \in ConfigType
           /\ Len(config.opNodes) \in Nat /\ Len(config.endpoints) \in Nat
           /\ config.maxSafeLag \in Nat /\ config.chainId \in Nat
           /\ \A p \in Deployed : Node(p) \in NodeType /\ Node(p).name \in Names
           /\ \A e \in Endpoints : /\ config.endpoints[e].backends \in Seq(STRING)
                                   /\ config.endpoints[e].rpc \in BOOLEAN
                                   /\ chain[e] \in Nat
                                   /\ \A id \in BackendGauges : \A s \in page[e][id] : s.value \in Nat
<1> DEFINE d == <<config, page, chain>>
<1>1. d \in Deployments
  BY DEF World
<1>2. /\ config \in ConfigType
      /\ DOMAIN page = 1 .. Len(config.endpoints)
      /\ \A e \in DOMAIN page, id \in BackendGauges : \A s \in page[e][id] : s.value \in Nat
      /\ chain \in [1 .. Len(config.endpoints) -> Nat]
  BY <1>1, DataAssumption
<1>3. /\ config.opNodes \in Seq(NodeType) /\ config.endpoints \in Seq(EndpointType)
      /\ config.maxSafeLag \in Nat /\ config.chainId \in Nat
  BY <1>2 DEF ConfigType
<1>4. \A p \in Deployed : Node(p) \in NodeType
  BY <1>3 DEF Deployed, Node
<1>5. \A p \in Deployed : Node(p).name \in Names
  BY <1>4 DEF NodeType
<1>6. \A e \in Endpoints : config.endpoints[e] \in EndpointType
  BY <1>3 DEF Endpoints
<1>7. \A e \in Endpoints : /\ config.endpoints[e].backends \in Seq(STRING)
                           /\ config.endpoints[e].rpc \in BOOLEAN
  BY <1>6 DEF EndpointType
<1> QED
  BY <1>2, <1>3, <1>4, <1>5, <1>7 DEF Endpoints

LEMMA HeightTypes == Heights \subseteq Nat /\ MaxHead \in Nat /\ Heights = 0 .. MaxHead
BY BoundsAssumption DEF Heights

\* The op-node that stands for a name: a deployed one of that name.
LEMMA NamedExists ==
    ASSUME World, NEW name, Known(name)
    PROVE  Named(name) \in Deployed /\ Node(Named(name)).name = name /\ name \in Names
<1> DEFINE S == {p \in Deployed : Node(p).name = name}
<1>1. Len(config.opNodes) \in Nat /\ \A p \in Deployed : Node(p).name \in Names
  BY DeploymentTypes
<1>2. S \in SUBSET (0 .. Len(config.opNodes)) /\ S # {}
  BY <1>1 DEF Deployed, Known
<1>3. Max(S) \in S
  BY <1>1, <1>2, MaxExists
<1> QED
  BY <1>1, <1>3 DEF Named

-----------------------------------------------------------------------------
(* What the checks report has a severity *)

\* The findings about an endpoint that alerts or Validate are compared with.
OwnParts == {"consensus_aware", "backend_roles", "backends", "head_lag"}

\* A finite set of findings about the metrics of endpoint e.
Metrical(e, fs) ==
    /\ IsFiniteSet(fs)
    /\ \A f \in fs : \E id : \E severity \in Severities :
          id \notin OwnParts /\ f = Metric(e, id, severity)

LEMMA MetricalOne ==
    ASSUME NEW e, NEW id, id \notin OwnParts, NEW severity \in Severities
    PROVE  Metrical(e, {Metric(e, id, severity)})
BY FS_Singleton DEF Metrical

LEMMA MetricalUnion ==
    ASSUME NEW e, NEW S, NEW T, Metrical(e, S), Metrical(e, T)
    PROVE  Metrical(e, S \cup T)
<1>1. IsFiniteSet(S \cup T)
  BY FS_Union DEF Metrical
<1> QED
  BY <1>1 DEF Metrical

LEMMA MetricalNone ==
    ASSUME NEW e
    PROVE  Metrical(e, {})
BY FS_EmptySet DEF Metrical

LEMMA MetricalGraded ==
    ASSUME NEW e, NEW fs, Metrical(e, fs)
    PROVE  Graded(fs) /\ \A f \in fs : f.sample = NoSample
BY DEF Metrical, Graded, Metric, Finding

LEMMA VerdictMetrical ==
    ASSUME NEW e, NEW pg, NEW id, id \notin OwnParts, Missing[id] \notin OwnParts,
           NEW absent \in Severities, NEW isBad, NEW bad \in Severities
    PROVE  Metrical(e, {Verdict(e, pg, id, absent, isBad, bad)})
<1>1. CASE pg[id] = {}
  BY <1>1, MetricalOne DEF Verdict
<1>2. CASE pg[id] # {} /\ isBad
  BY <1>2, MetricalOne DEF Verdict
<1>3. CASE pg[id] # {} /\ ~isBad
  BY <1>3, MetricalOne DEF Verdict, Severities
<1> QED
  BY <1>1, <1>2, <1>3

\* The metrics with a verdict, and what they are called if they are missing.
LEMMA JudgedMetrics ==
    \A id \in {"up", "backend_probe_healthy", "backend_degraded", "backend_banned",
               "backend_peer_count", "consensus_count", "cl_local_safe", "error_counters",
               "cl_consensus_counters", "backend_error_rate", "backend_latency"} :
        id \notin OwnParts /\ Missing[id] \notin OwnParts
BY DEF OwnParts, Missing

LEMMA BackendHealthMetrical ==
    ASSUME NEW e, NEW pg
    PROVE  Metrical(e, BackendHealthFindings(e, pg))
<1> DEFINE a == BackendVerdict(e, pg, "backend_probe_healthy", NotOne)
           b == BackendVerdict(e, pg, "backend_degraded", Positive)
           c == BackendVerdict(e, pg, "backend_banned", Positive)
           sync == IF pg.backend_in_sync = {} THEN {}
                   ELSE {Metric(e, "backend_in_sync",
                            IF SomeBackend(e, pg.backend_in_sync, NotOne) THEN "warn" ELSE "ok")}
           peers == IF pg.backend_peer_count = {} /\ ~e.aware THEN {}
                    ELSE {Verdict(e, pg, "backend_peer_count", "info", FALSE, "ok")}
<1>1. Metrical(e, {a}) /\ Metrical(e, {b}) /\ Metrical(e, {c})
  BY VerdictMetrical, JudgedMetrics DEF BackendVerdict, Severities
<1>2. Metrical(e, sync)
  <2>1. (IF SomeBackend(e, pg.backend_in_sync, NotOne) THEN "warn" ELSE "ok") \in Severities
    BY DEF Severities
  <2> QED
    BY <2>1, MetricalOne, MetricalNone DEF OwnParts
<1>3. Metrical(e, peers)
  BY VerdictMetrical, JudgedMetrics, MetricalNone DEF Severities
<1>4. BackendHealthFindings(e, pg) = {a, b, c} \cup sync \cup peers
  BY DEF BackendHealthFindings
<1> HIDE DEF a, b, c, sync, peers
<1>5. {a, b, c} = {a} \cup ({b} \cup {c})
  OBVIOUS
<1>6. Metrical(e, {a, b, c})
  <2>1. Metrical(e, {b} \cup {c})
    BY <1>1, MetricalUnion
  <2> QED
    BY <1>1, <1>5, <2>1, MetricalUnion
<1>7. Metrical(e, {a, b, c} \cup sync)
  BY <1>2, <1>6, MetricalUnion
<1> QED
  BY <1>3, <1>4, <1>7, MetricalUnion

LEMMA ConsensusMetrical ==
    ASSUME NEW e, NEW pg
    PROVE  Metrical(e, ConsensusFindings(e, pg))
<1> DEFINE complete == pg.latest # {} /\ pg.safe # {} /\ pg.finalized # {}
           ordered  == Max(pg.latest) >= Max(pg.safe) /\ Max(pg.safe) >= Max(pg.finalized)
           blocks == IF complete THEN {Metric(e, "consensus_blocks", IF ordered THEN "ok" ELSE "warn")}
                     ELSE When(e.aware, Metric(e, "consensus_blocks", "warn"))
           count == IF pg.consensus_count = {} /\ ~e.aware THEN {}
                    ELSE {Verdict(e, pg, "consensus_count", "warn",
                                  \A v \in pg.consensus_count : v <= 0, "warn")}
           local == IF pg.cl_local_safe = {} /\ ~(e.aware /\ e.role = "deriver") THEN {}
                    ELSE {Verdict(e, pg, "cl_local_safe", "info", FALSE, "ok")}
<1>1. ConsensusFindings(e, pg) = blocks \cup count \cup local
  BY DEF ConsensusFindings
<1>2. Metrical(e, blocks)
  <2>1. (IF ordered THEN "ok" ELSE "warn") \in Severities /\ "warn" \in Severities
    BY DEF Severities
  <2> HIDE DEF complete, ordered
  <2>2. Metrical(e, {Metric(e, "consensus_blocks", IF ordered THEN "ok" ELSE "warn")})
    BY <2>1, MetricalOne DEF OwnParts
  <2>3. Metrical(e, When(e.aware, Metric(e, "consensus_blocks", "warn")))
    BY <2>1, MetricalOne, MetricalNone DEF When, OwnParts
  <2> QED
    BY <2>2, <2>3
<1>3. Metrical(e, count)
  BY VerdictMetrical, JudgedMetrics, MetricalNone DEF Severities
<1>4. Metrical(e, local)
  BY VerdictMetrical, JudgedMetrics, MetricalNone DEF Severities
<1> HIDE DEF blocks, count, local
<1>5. Metrical(e, blocks \cup count)
  BY <1>2, <1>3, MetricalUnion
<1> QED
  BY <1>1, <1>4, <1>5, MetricalUnion

LEMMA ErrorMetrical ==
    ASSUME NEW e, NEW pg
    PROVE  Metrical(e, ErrorFindings(e, pg))
<1> DEFINE a == CounterVerdict(e, pg, "error_counters")
           b == CounterVerdict(e, pg, "cl_consensus_counters")
           c == BackendVerdict(e, pg, "backend_error_rate", Positive)
           codes == When(\E s \in pg.http_error_codes : s.error /\ s.value > 0,
                         Metric(e, "http_error_codes", "warn"))
<1>1. Metrical(e, {a}) /\ Metrical(e, {b}) /\ Metrical(e, {c})
  BY VerdictMetrical, JudgedMetrics DEF BackendVerdict, CounterVerdict, Severities
<1>2. Metrical(e, codes)
  BY MetricalOne, MetricalNone DEF When, Severities, OwnParts
<1>3. ErrorFindings(e, pg) = {a, b, c} \cup codes
  BY DEF ErrorFindings
<1> HIDE DEF a, b, c, codes
<1>4. {a, b, c} = {a} \cup ({b} \cup {c})
  OBVIOUS
<1>5. Metrical(e, {b} \cup {c})
  BY <1>1, MetricalUnion
<1>6. Metrical(e, {a, b, c})
  BY <1>1, <1>4, <1>5, MetricalUnion
<1> QED
  BY <1>2, <1>3, <1>6, MetricalUnion

LEMMA PageMetrical ==
    ASSUME NEW e, NEW pg, NEW maxLatency
    PROVE  Metrical(e, PageFindings(e, pg, maxLatency))
<1> DEFINE up == Verdict(e, pg, "up", "warn", \E v \in pg.up : v # 1, "fail")
           latency == LatencyFinding(e, pg, maxLatency)
           native == NativeFindings(e, pg, maxLatency)
           names == IF NoSeries(pg) THEN {Metric(e, "metrics_names", "info")}
                    ELSE {Metric(e, "metrics_names", "ok")} \cup native
<1>1. Metrical(e, {up})
  BY VerdictMetrical, JudgedMetrics DEF Severities
<1>2. Metrical(e, {latency})
  <2> DEFINE values == QuantileValues(pg.backend_latency)
             severity == IF values # <<>> /\ Above(MaxValue(values), {maxLatency})
                         THEN "warn" ELSE "ok"
  <2>1. severity \in Severities /\ "info" \in Severities
    BY DEF Severities
  <2>2. latency = IF pg.backend_latency = <<>> THEN Metric(e, Missing.backend_latency, "info")
                  ELSE Metric(e, "backend_latency", severity)
    BY DEF LatencyFinding
  <2> HIDE DEF severity, latency
  <2>3. Missing.backend_latency \notin OwnParts /\ "backend_latency" \notin OwnParts
    BY DEF Missing, OwnParts
  <2> QED
    BY <2>1, <2>2, <2>3, MetricalOne
<1>3. native = {up, latency} \cup BackendHealthFindings(e, pg)
               \cup ConsensusFindings(e, pg) \cup ErrorFindings(e, pg)
  BY DEF NativeFindings
<1> HIDE DEF up, latency
<1>4. Metrical(e, native)
  <2>1. {up, latency} = {up} \cup {latency}
    OBVIOUS
  <2>2. Metrical(e, {up, latency})
    BY <1>1, <1>2, <2>1, MetricalUnion
  <2>3. Metrical(e, {up, latency} \cup BackendHealthFindings(e, pg))
    BY <2>2, BackendHealthMetrical, MetricalUnion
  <2>4. Metrical(e, {up, latency} \cup BackendHealthFindings(e, pg) \cup ConsensusFindings(e, pg))
    BY <2>3, ConsensusMetrical, MetricalUnion
  <2> QED
    BY <1>3, <2>4, ErrorMetrical, MetricalUnion
<1> HIDE DEF native
<1>5. /\ Metrical(e, {Metric(e, "metrics", "ok")})
      /\ Metrical(e, {Metric(e, "metrics_names", "info")})
      /\ Metrical(e, {Metric(e, "metrics_names", "ok")})
  BY MetricalOne DEF Severities, OwnParts
<1>6. Metrical(e, names)
  BY <1>4, <1>5, MetricalUnion
<1>7. PageFindings(e, pg, maxLatency) = {Metric(e, "metrics", "ok")} \cup names
  BY DEF PageFindings, native
<1> QED
  BY <1>5, <1>6, <1>7, MetricalUnion

\* Graded findings that measure nothing: all but the verdicts on the head lag.
Plain(fs) == Graded(fs) /\ \A f \in fs : f.sample = NoSample

LEMMA PlainUnion ==
    ASSUME NEW S, NEW T, Plain(S), Plain(T)
    PROVE  Plain(S \cup T)
BY GradedUnion DEF Plain

LEMMA PlainNone == Plain({})
BY GradedEmpty DEF Plain

LEMMA PlainFinding ==
    ASSUME NEW id, NEW severity \in Severities, NEW target
    PROVE  Plain({Finding(id, severity, target, NoSample)})
<1>1. Graded({Finding(id, severity, target, NoSample)})
  BY FindingGraded
<1>2. Finding(id, severity, target, NoSample).sample = NoSample
  BY DEF Finding
<1> QED
  BY <1>1, <1>2 DEF Plain

LEMMA PlainFindings ==
    ASSUME NEW severity \in Severities
    PROVE  /\ \A id : Plain({Proxyd(id, severity, NoSample)})
           /\ \A id : Plain({ProxydRPC(id, severity)})
           /\ \A e, id : Plain({Metric(e, id, severity)})
           /\ \A name : Plain({BackendFinding(name, severity)})
BY PlainFinding DEF Proxyd, ProxydRPC, Metric, BackendFinding

LEMMA UnknownPlain ==
    ASSUME NEW name
    PROVE  Plain({UnknownBackend(name)})
BY PlainFinding DEF UnknownBackend, Severities

LEMMA PagePlain ==
    ASSUME NEW e, NEW pg, NEW maxLatency
    PROVE  Plain(PageFindings(e, pg, maxLatency))
BY PageMetrical, MetricalGraded DEF Plain

LEMMA RolesPlain == Plain(BackendRoleFindings)
<1> DEFINE two == IF RoleCount({"source"}) >= 2 THEN "ok" ELSE "warn"
           some == IF RoleCount({"light", "sequencer"}) > 0 THEN "ok" ELSE "info"
<1>1. two \in Severities /\ some \in Severities
  BY DEF Severities
<1>2. BackendRoleFindings =
        CASE Endpoint.role = "deriver" -> {Proxyd("backend_roles", two, NoSample)}
          [] Endpoint.role = "edge" -> {Proxyd("backend_roles", some, NoSample)}
          [] OTHER -> {}
  BY DEF BackendRoleFindings
<1> HIDE DEF two, some
<1>3. CASE Endpoint.role = "deriver"
  BY <1>1, <1>2, <1>3, PlainFindings
<1>4. CASE Endpoint.role = "edge"
  BY <1>1, <1>2, <1>4, PlainFindings
<1>5. CASE Endpoint.role \notin {"deriver", "edge"}
  BY <1>2, <1>5, PlainNone
<1> QED
  BY <1>3, <1>4, <1>5

\* What comparing the heads finds: nothing, nothing to compare with, or one verdict.
LEMMA HeadLagVerdict ==
    ASSUME Types
    PROVE  \/ probe = {} /\ HeadLagFindings = {}
           \/ /\ BackendHeads = {} /\ probe # {}
              /\ HeadLagFindings = {Proxyd("head_lag", "info", NoSample)}
           \/ /\ BackendHeads # {}
              /\ \E h \in Heights, lag \in Nat :
                    /\ probe = {h} /\ lag = IF BackendMax > h THEN BackendMax - h ELSE 0
                    /\ HeadLagFindings =
                         {Proxyd("head_lag", IF lag > config.maxSafeLag THEN "warn" ELSE "ok",
                                 <<"lag_blocks", lag>>)}
<1>1. probe = {} \/ \E h \in Heights : probe = {h}
  BY DEF Types, Doctors, DoctorsAt
<1>2. CASE probe = {}
  BY <1>2 DEF HeadLagFindings
<1>3. ASSUME NEW h \in Heights, probe = {h}, BackendHeads = {}
      PROVE  HeadLagFindings = {Proxyd("head_lag", "info", NoSample)}
  BY <1>3 DEF HeadLagFindings
<1>4. ASSUME NEW h \in Heights, probe = {h}, BackendHeads # {}
      PROVE  \E lag \in Nat :
                /\ lag = IF BackendMax > h THEN BackendMax - h ELSE 0
                /\ HeadLagFindings =
                     {Proxyd("head_lag", IF lag > config.maxSafeLag THEN "warn" ELSE "ok",
                             <<"lag_blocks", lag>>)}
  <2> DEFINE lag == IF BackendMax > h THEN BackendMax - h ELSE 0
  <2>1. BackendHeads \in SUBSET Heights
    BY DEF Types, Doctors, DoctorsAt, BackendHeads
  <2>2. BackendMax \in Heights
    BY <1>4, <2>1, HeightTypes, MaxExists DEF BackendMax
  <2>3. lag \in Nat
    BY <2>2, HeightTypes
  <2>4. HeadLagFindings = {Proxyd("head_lag", IF lag > config.maxSafeLag THEN "warn" ELSE "ok",
                                  <<"lag_blocks", lag>>)}
    BY <1>4 DEF HeadLagFindings
  <2> QED
    BY <2>3, <2>4
<1> QED
  BY <1>1, <1>2, <1>3, <1>4

LEMMA HeadLagGraded ==
    ASSUME Types
    PROVE  Graded(HeadLagFindings)
<1>1. \/ HeadLagFindings = {}
      \/ \E severity \in Severities : \E sample :
            HeadLagFindings = {Proxyd("head_lag", severity, sample)}
  BY HeadLagVerdict DEF Severities
<1> QED
  BY <1>1, GradedEmpty, FindingGraded DEF Proxyd

-----------------------------------------------------------------------------
(* Steps *)

LEMMA EmitGraded ==
    ASSUME Graded(findings), NEW fs, Graded(fs), Emit(fs)
    PROVE  Graded(findings') /\ findings \subseteq findings'
BY GradedUnion DEF Emit

LEMMA FaultsCounted ==
    ASSUME faults \in 0 .. MaxFaults, Answered \/ Failed
    PROVE  faults' \in 0 .. MaxFaults
BY BoundsAssumption DEF Answered, Failed

LEMMA WorldStands ==
    ASSUME World, UNCHANGED world, faults' \in 0 .. MaxFaults
    PROVE  World'
BY DEF World, world, Deployed, Endpoints, Node

LEMMA DoctorsStand ==
    ASSUME UNCHANGED config, DoctorsAt(phase', k', j', probe', readable')
    PROVE  Doctors'
BY DEF Doctors, DoctorsAt, Endpoints

LEMMA StepTypes ==
    ASSUME Types, UNCHANGED world, faults' \in 0 .. MaxFaults, Graded(findings'),
           DoctorsAt(phase', k', j', probe', readable')
    PROVE  Types'
<1>1. config' = config
  BY DEF world
<1> QED
  BY <1>1, WorldStands, DoctorsStand DEF Types

\* A step of the fleet or of the deadline.
LEMMA FleetStep ==
    ASSUME World, Fleet
    PROVE  /\ UNCHANGED <<config, page, chain, faults, doctor>>
           /\ head' \in [Deployed -> Heights] /\ served' \in [Endpoints -> Heights]
           /\ \A p \in Deployed : head[p] <= head'[p]
           /\ expired' \in BOOLEAN
           /\ lagged \subseteq lagged' /\ lagged' \subseteq Endpoints \X Deployed
           /\ tracked \subseteq tracked' /\ tracked' \subseteq Endpoints \X Deployed
           /\ (UNCHANGED <<head, served, lagged, tracked>> \/ Observe(head', served'))
<1> USE BoundsAssumption DEF Heights
<1>1. CASE Expire
  BY <1>1 DEF Expire, World
<1>2. ASSUME NEW p \in Deployed, Advance(p)
      PROVE  /\ head' \in [Deployed -> Heights] /\ UNCHANGED served
             /\ \A q \in Deployed : head[q] <= head'[q]
             /\ Observe(head', served') /\ UNCHANGED <<config, page, chain, expired, faults, doctor>>
  <2>1. head[p] + 1 \in Heights
    BY <1>2 DEF Advance, World
  <2> QED
    BY <1>2, <2>1 DEF Advance, World
<1>3. ASSUME NEW e \in Endpoints, Route(e)
      PROVE  /\ served' \in [Endpoints -> Heights] /\ UNCHANGED head
             /\ Observe(head', served') /\ UNCHANGED <<config, page, chain, expired, faults, doctor>>
  <2>1. PICK p \in Deployed : served' = [served EXCEPT ![e] = head[p]]
    BY <1>3 DEF Route
  <2>2. Observe(head', served') /\ UNCHANGED <<config, page, chain, head, expired, faults, doctor>>
    BY <1>3 DEF Route
  <2>3. head[p] \in Heights
    BY DEF World
  <2> QED
    BY <2>1, <2>2, <2>3 DEF World
<1>4. Observe(head', served') =>
          /\ lagged \subseteq lagged' /\ lagged' \subseteq Endpoints \X Deployed
          /\ tracked \subseteq tracked' /\ tracked' \subseteq Endpoints \X Deployed
  BY DEF Observe, Behind, World
<1>5. \A p \in Deployed : head[p] <= head[p]
  BY DEF World
<1>6. CASE \E p \in Deployed : Advance(p)
  BY <1>2, <1>4, <1>6 DEF World
<1>7. CASE \E e \in Endpoints : Route(e)
  BY <1>3, <1>4, <1>5, <1>7 DEF World
<1> QED
  BY <1>1, <1>5, <1>6, <1>7 DEF Fleet, World, Expire

\* All that the doctor emits before it compares heads is plain.
LEMMA EmitsPlain ==
    ASSUME Types, Start \/ BeginEndpoint \/ ChainID \/ BlockNumber \/ Scrape \/ Backend \/ Return
    PROVE  \E fs : Plain(fs) /\ Emit(fs)
<1>1. CASE Start
  <2> DEFINE severity == IF specializedTopologyConfigured THEN "warn" ELSE "info"
             only(id, grade) == Finding(<<"proxyd", id>>, grade, <<"proxyd">>, NoSample)
  <2>1. severity \in Severities /\ "warn" \in Severities
    BY DEF Severities
  <2>2. Plain({only("disabled", severity)}) /\ Plain({only("endpoints", "warn")})
    BY <2>1, PlainFinding
  <2>3. Emit({only("disabled", severity)}) \/ Emit({only("endpoints", "warn")}) \/ UNCHANGED findings
    BY <1>1 DEF Start
  <2>4. UNCHANGED findings => Emit({})
    BY DEF Emit
  <2> QED
    BY <2>2, <2>3, <2>4, PlainNone
<1>2. CASE BeginEndpoint
  <2> DEFINE severity == IF Endpoint.aware THEN "ok"
                         ELSE IF Endpoint.role = "deriver" THEN "warn" ELSE "info"
  <2>1. severity \in Severities /\ "warn" \in Severities
    BY DEF Severities
  <2>2. ConsensusIntentFinding = Proxyd("consensus_aware", severity, NoSample)
    BY DEF ConsensusIntentFinding
  <2>3. Plain({ConsensusIntentFinding})
    BY <2>1, <2>2, PlainFindings
  <2>4. Plain(When(~Endpoint.rpc, ProxydRPC("rpc", "warn")))
    BY <2>1, PlainFindings, PlainNone DEF When
  <2>5. Plain({ConsensusIntentFinding} \cup When(~Endpoint.rpc, ProxydRPC("rpc", "warn")))
    BY <2>3, <2>4, PlainUnion
  <2> QED
    BY <1>2, <2>5 DEF BeginEndpoint
<1>3. CASE ChainID
  <2> DEFINE severity == IF config.chainId # 0 /\ chain[k] # config.chainId THEN "fail" ELSE "ok"
  <2>1. severity \in Severities /\ "fail" \in Severities
    BY DEF Severities
  <2>2. Emit({ProxydRPC("chain_id", severity)}) \/ Emit({ProxydRPC("rpc", "fail")})
    BY <1>3 DEF ChainID
  <2> HIDE DEF severity
  <2> QED
    BY <2>1, <2>2, PlainFindings
<1>4. CASE BlockNumber
  <2>1. Emit({ProxydRPC("head", "ok")}) \/ Emit({ProxydRPC("head", "fail")})
    BY <1>4 DEF BlockNumber
  <2> QED
    BY <2>1, PlainFindings DEF Severities
<1>5. CASE Scrape
  <2>1. \/ Emit({Metric(Endpoint, "metrics", "warn")})
        \/ Emit(PageFindings(Endpoint, page[k], config.maxLatency))
    BY <1>5 DEF Scrape
  <2>2. Plain({Metric(Endpoint, "metrics", "warn")})
    BY PlainFindings DEF Severities
  <2> QED
    BY <2>1, <2>2, PagePlain
<1>6. CASE Backend
  <2>1. \E name : \/ Emit({UnknownBackend(name)})
                  \/ Emit({BackendFinding(name, "warn")})
                  \/ Emit({BackendFinding(name, "ok")})
    BY <1>6 DEF Backend, NextBackend
  <2> QED
    BY <2>1, UnknownPlain, PlainFindings DEF Severities
<1>7. CASE Return
  <2>1. Emit({})
    BY <1>7 DEF Return, Emit
  <2> QED
    BY <2>1, PlainNone
<1> QED
  BY <1>1, <1>2, <1>3, <1>4, <1>5, <1>6, <1>7

LEMMA EmitsGraded ==
    ASSUME Types, Doctor
    PROVE  Graded(findings') /\ findings \subseteq findings'
<1>1. ASSUME \E fs : Plain(fs) /\ Emit(fs)
      PROVE  Graded(findings') /\ findings \subseteq findings'
  BY <1>1, EmitGraded DEF Types, Plain
<1>2. CASE EndEndpoint
  <2>1. /\ Graded({Proxyd("backends", "warn", NoSample)})
        /\ Graded({Proxyd("backends", "ok", NoSample)}) /\ Graded(BackendRoleFindings)
    BY PlainFindings, RolesPlain DEF Plain, Severities
  <2>2. Graded(BackendRoleFindings \cup HeadLagFindings)
    BY <2>1, HeadLagGraded, GradedUnion
  <2>3. Graded(BackendRoleFindings \cup HeadLagFindings \cup {Proxyd("backends", "ok", NoSample)})
    BY <2>1, <2>2, GradedUnion
  <2>4. PICK fs : Graded(fs) /\ Emit(fs)
    BY <1>2, <2>1, <2>3 DEF EndEndpoint
  <2> QED
    BY <2>4, EmitGraded DEF Types
<1>3. CASE ~EndEndpoint
  BY <1>1, <1>3, EmitsPlain DEF Doctor
<1> QED
  BY <1>2, <1>3

LEMMA DoctorCalls ==
    ASSUME Types, Doctor
    PROVE  UNCHANGED world /\ faults' \in 0 .. MaxFaults
<1>1. faults \in 0 .. MaxFaults
  BY DEF Types, World
<1>2. UNCHANGED faults \/ Answered \/ Failed
  BY DEF Doctor, Start, BeginEndpoint, ChainID, BlockNumber, Scrape, Backend, EndEndpoint, Return
<1>3. UNCHANGED world
  BY DEF Doctor, Start, BeginEndpoint, ChainID, BlockNumber, Scrape, Backend, EndEndpoint, Return
<1> QED
  BY <1>1, <1>2, <1>3, FaultsCounted

\* The outcomes of one pass through expected_backends.
LEMMA BackendStep ==
    ASSUME Types, Backend
    PROVE  /\ phase = "backends" /\ k \in Endpoints /\ j \in 1 .. Len(Backends)
           /\ UNCHANGED <<world, phase, k, probe>> /\ j' = j + 1
           /\ \/ /\ ~Known(Backends[j]) /\ UNCHANGED readable
                 /\ Emit({UnknownBackend(Backends[j])})
              \/ /\ Known(Backends[j]) /\ UNCHANGED readable
                 /\ Emit({BackendFinding(Backends[j], "warn")})
              \/ /\ Known(Backends[j]) /\ Node(Named(Backends[j])).rpc
                 /\ readable' = [readable EXCEPT ![Backends[j]] = {head[Named(Backends[j])]}]
                 /\ Emit({BackendFinding(Backends[j], "ok")})
<1>1. phase = "backends" /\ j <= Len(Backends) /\ k \in Endpoints /\ j \in 1 .. Len(Backends) + 1
  BY DEF Backend, Types, Doctors, DoctorsAt, AtEndpoint, Backends, Endpoint
<1>2. Len(Backends) \in Nat
  BY <1>1, DeploymentTypes DEF Types, Backends, Endpoint
<1>3. j \in 1 .. Len(Backends)
  BY <1>1, <1>2
<1>4. UNCHANGED <<world, phase, k, probe>> /\ j' = j + 1
  BY DEF Backend, NextBackend
<1>5. \/ /\ ~Known(Backends[j]) /\ UNCHANGED readable
         /\ Emit({UnknownBackend(Backends[j])})
      \/ /\ Known(Backends[j]) /\ UNCHANGED readable
         /\ Emit({BackendFinding(Backends[j], "warn")})
      \/ /\ Known(Backends[j]) /\ Node(Named(Backends[j])).rpc
         /\ readable' = [readable EXCEPT ![Backends[j]] = {head[Named(Backends[j])]}]
         /\ Emit({BackendFinding(Backends[j], "ok")})
  BY DEF Backend, NextBackend
<1> QED
  BY <1>1, <1>3, <1>4, <1>5

-----------------------------------------------------------------------------
(* Type correctness *)

LEMMA InitTypes ==
    ASSUME Init
    PROVE  Types
<1>1. PICK d \in Deployments : config = d[1] /\ page = d[2] /\ chain = d[3]
  BY DEF Init
<1>2. d = <<d[1], d[2], d[3]>>
  BY DataAssumption
<1>3. World
  <2>1. <<config, page, chain>> \in Deployments
    BY <1>1, <1>2
  <2>2. faults \in 0 .. MaxFaults
    BY BoundsAssumption DEF Init
  <2>3. expired \in BOOLEAN
    BY DEF Init
  <2>4. lagged \subseteq Endpoints \X Deployed /\ tracked \subseteq Endpoints \X Deployed
    BY DEF Init, Behind
  <2> QED
    BY <2>1, <2>2, <2>3, <2>4 DEF Init, World
<1>4. Doctors
  <2>1. phase = "start" /\ k = 1 /\ j = 1 /\ probe = {} /\ readable = NothingRead
    BY DEF Init, NothingRead
  <2>2. 1 \in 1 .. Len(config.endpoints) + 1
    BY <1>3, DeploymentTypes
  <2> QED
    BY <2>1, <2>2 DEF Doctors, DoctorsAt, Phases, AtEndpoint, NothingRead
<1>5. Graded(findings)
  BY GradedEmpty DEF Init
<1> QED
  BY <1>3, <1>4, <1>5 DEF Types

LEMMA DoctorTypes ==
    ASSUME Types, Doctor
    PROVE  DoctorsAt(phase', k', j', probe', readable')
<1>1. /\ DoctorsAt(phase, k, j, probe, readable) /\ World
      /\ Len(config.endpoints) \in Nat /\ k \in 1 .. Len(config.endpoints) + 1
  BY DeploymentTypes DEF Types, Doctors, DoctorsAt
<1>2. CASE Start
  <2>1. /\ UNCHANGED <<k, j, probe, readable>> /\ phase = "start"
        /\ \/ phase' = "done" /\ (~config.enabled \/ config.endpoints = <<>>)
           \/ phase' = "endpoint"
    BY <1>2 DEF Start
  <2>2. phase' = "done" /\ config.enabled => k \notin Endpoints
    BY <2>1 DEF Endpoints
  <2> QED
    BY <1>1, <2>1, <2>2 DEF DoctorsAt, Phases, AtEndpoint
<1>3. CASE BeginEndpoint
  <2>1. /\ UNCHANGED <<k, j, probe, readable>> /\ phase = "endpoint" /\ k \in Endpoints
        /\ phase' \in {"chainId", "metrics"}
    BY <1>3 DEF BeginEndpoint
  <2> QED
    BY <1>1, <2>1 DEF DoctorsAt, Phases, AtEndpoint
<1>4. CASE ChainID
  <2>1. /\ UNCHANGED <<k, j, probe, readable>> /\ phase = "chainId" /\ phase' \in {"head", "metrics"}
    BY <1>4 DEF ChainID
  <2> QED
    BY <1>1, <2>1 DEF DoctorsAt, Phases, AtEndpoint
<1>5. CASE BlockNumber
  <2>1. /\ UNCHANGED <<k, j, readable>> /\ phase = "head" /\ phase' = "metrics"
        /\ probe' = {served[k]} \/ probe' = {}
    BY <1>5 DEF BlockNumber
  <2>2. k \in Endpoints /\ served[k] \in Heights
    BY <1>1, <2>1 DEF DoctorsAt, AtEndpoint, World
  <2> QED
    BY <1>1, <2>1, <2>2 DEF DoctorsAt, Phases, AtEndpoint
<1>6. CASE Scrape
  <2>1. UNCHANGED <<k, j, probe, readable>> /\ phase = "metrics" /\ phase' = "backends"
    BY <1>6 DEF Scrape
  <2>2. k \in Endpoints /\ j = 1
    BY <1>1, <2>1 DEF DoctorsAt, AtEndpoint
  <2>3. 1 \in 1 .. Len(config.endpoints[k].backends) + 1
    BY <1>1, <2>2, DeploymentTypes
  <2> QED
    BY <1>1, <2>1, <2>2, <2>3 DEF DoctorsAt, Phases, AtEndpoint
<1>7. CASE Backend
  <2>1. /\ phase = "backends" /\ k \in Endpoints /\ j \in 1 .. Len(Backends)
        /\ UNCHANGED <<phase, k, probe>> /\ j' = j + 1
    BY <1>7, BackendStep
  <2>2. j' \in 1 .. Len(config.endpoints[k].backends) + 1
    BY <1>1, <2>1, DeploymentTypes DEF Backends, Endpoint
  <2>3. \/ UNCHANGED readable
        \/ \E h \in Heights : readable' = [readable EXCEPT ![Backends[j]] = {h}]
    <3>1. Known(Backends[j]) => head[Named(Backends[j])] \in Heights
      BY <1>1, NamedExists DEF World
    <3> QED
      BY <1>7, <3>1, BackendStep
  <2>4. /\ readable \in [Names -> SUBSET Heights]
        /\ \A n \in Names : readable[n] = {} \/ \E h \in Heights : readable[n] = {h}
    BY <1>1 DEF DoctorsAt
  <2>5. /\ readable' \in [Names -> SUBSET Heights]
        /\ \A n \in Names : readable'[n] = {} \/ \E h \in Heights : readable'[n] = {h}
    <3>1. ASSUME NEW h \in Heights, readable' = [readable EXCEPT ![Backends[j]] = {h}]
          PROVE  /\ readable' \in [Names -> SUBSET Heights]
                 /\ \A n \in Names : readable'[n] = {} \/ \E g \in Heights : readable'[n] = {g}
      BY <2>4, <3>1
    <3> QED
      BY <2>3, <2>4, <3>1
  <2> QED
    BY <1>1, <2>1, <2>2, <2>5 DEF DoctorsAt, Phases, AtEndpoint
<1>8. CASE EndEndpoint
  <2>1. /\ phase = "backends" /\ phase' = "endpoint" /\ k' = k + 1 /\ j' = 1
        /\ probe' = {} /\ readable' = NothingRead
    BY <1>8 DEF EndEndpoint, NothingRead
  <2>2. k \in Endpoints
    BY <1>1, <2>1 DEF DoctorsAt, AtEndpoint
  <2>3. k' \in 1 .. Len(config.endpoints) + 1
    BY <1>1, <2>1, <2>2 DEF Endpoints
  <2> QED
    BY <2>1, <2>3 DEF DoctorsAt, Phases, AtEndpoint, NothingRead
<1>9. CASE Return
  <2>1. /\ UNCHANGED <<k, j, probe, readable>> /\ phase = "endpoint" /\ phase' = "done"
        /\ k \notin Endpoints
    BY <1>9 DEF Return
  <2> QED
    BY <1>1, <2>1 DEF DoctorsAt, Phases, AtEndpoint
<1> QED
  BY <1>2, <1>3, <1>4, <1>5, <1>6, <1>7, <1>8, <1>9 DEF Doctor

LEMMA NextTypes ==
    ASSUME Types, [Next]_vars
    PROVE  Types'
<1>1. World /\ Doctors /\ Graded(findings)
  BY DEF Types
<1>2. CASE Fleet
  <2>1. UNCHANGED <<config, page, chain, faults, doctor>>
    BY <1>1, <1>2, FleetStep
  <2>2. Deployed' = Deployed /\ Endpoints' = Endpoints
    BY <2>1 DEF Deployed, Endpoints
  <2>3. World'
    <3>1. /\ head' \in [Deployed -> Heights] /\ served' \in [Endpoints -> Heights]
          /\ expired' \in BOOLEAN
          /\ lagged' \subseteq Endpoints \X Deployed /\ tracked' \subseteq Endpoints \X Deployed
      BY <1>1, <1>2, FleetStep
    <3> QED
      BY <1>1, <2>1, <2>2, <3>1 DEF World
  <2>4. Doctors'
    <3>1. DoctorsAt(phase', k', j', probe', readable')
      BY <1>1, <2>1 DEF doctor, Doctors
    <3> QED
      BY <2>1, <3>1, DoctorsStand
  <2> QED
    BY <1>1, <2>1, <2>3, <2>4 DEF Types, doctor
<1>3. CASE Doctor
  BY <1>3, DoctorCalls, EmitsGraded, DoctorTypes, StepTypes
<1>4. CASE UNCHANGED vars
  <2>1. UNCHANGED <<world, faults, phase, k, j, probe, readable, findings>>
    BY <1>4 DEF vars, doctor
  <2>2. DoctorsAt(phase', k', j', probe', readable') /\ faults' \in 0 .. MaxFaults
    BY <1>1, <2>1 DEF Doctors, World
  <2> QED
    BY <1>1, <2>1, <2>2, StepTypes
<1> QED
  BY <1>2, <1>3, <1>4 DEF Next

(***************************************************************************)
(* Every variable of the proxyd check keeps its type.                      *)
(***************************************************************************)
THEOREM ProxydTypeCorrect == Spec => []TypeOK
<1>1. Init => Types
  BY InitTypes
<1>2. Types /\ [Next]_vars => Types'
  BY NextTypes
<1>3. Types => TypeOK
  <2> SUFFICES ASSUME Types PROVE TypeOK
    OBVIOUS
  <2>1. probe \subseteq Heights
    BY DEF Types, Doctors, DoctorsAt
  <2>2. phase \in AtEndpoint => k \in Endpoints /\ j \in 1 .. Len(Backends) + 1
    <3>1. CASE phase = "backends"
      BY <3>1 DEF Types, Doctors, DoctorsAt, AtEndpoint, Backends, Endpoint
    <3>2. CASE phase \in AtEndpoint \ {"backends"}
      <4>1. k \in Endpoints /\ j = 1
        BY <3>2 DEF Types, Doctors, DoctorsAt
      <4>2. Len(Backends) \in Nat
        BY <4>1, DeploymentTypes DEF Types, Backends, Endpoint
      <4> QED
        BY <4>1, <4>2
    <3> QED
      BY <3>1, <3>2
  <2> QED
    BY <2>1, <2>2 DEF Types, World, Doctors, DoctorsAt, Graded, TypeOK, AtEndpoint
<1> QED
  BY <1>1, <1>2, <1>3, PTL DEF Spec

-----------------------------------------------------------------------------
(* No missed lag *)

ReadFrom(rd) == {p \in Deployed : Named(Node(p).name) = p /\ rd[Node(p).name] # {}}

(***************************************************************************)
(* Of heads hd and sv, with history tr, endpoint kk, its head pr and the   *)
(* backend heads rd: a backend that is now not ahead of an endpoint by too *)
(* much, or of the endpoint's head as it was read, is in the history; and  *)
(* so is one whose head, as it was read, is not ahead of that head.        *)
(***************************************************************************)
LagAt(hd, sv, tr, kk, pr, rd) ==
    /\ \A e \in Endpoints, p \in Deployed : hd[p] <= sv[e] + config.maxSafeLag => <<e, p>> \in tr
    /\ \A h \in pr, p \in Deployed : hd[p] <= h + config.maxSafeLag => <<kk, p>> \in tr
    /\ \A h \in pr, p \in ReadFrom(rd) : \A r \in rd[Node(p).name] :
          r <= h + config.maxSafeLag => <<kk, p>> \in tr

LagInv == LagAt(head, served, tracked, k, probe, readable)

LEMMA LagStands ==
    ASSUME UNCHANGED config, LagAt(head', served', tracked', k', probe', readable')
    PROVE  LagInv'
<1>1. /\ Deployed' = Deployed /\ Endpoints' = Endpoints
      /\ \A p : Node(p)' = Node(p)
      /\ \A p : Named(Node(p).name)' = Named(Node(p).name)
  BY DEF Deployed, Endpoints, Node, Named
<1>2. ReadFrom(readable)' = ReadFrom(readable')
  BY <1>1 DEF ReadFrom
<1> QED
  BY <1>1, <1>2 DEF LagInv, LagAt

LEMMA InitLag ==
    ASSUME Init, Types
    PROVE  LagInv
<1>1. /\ head \in [Deployed -> Heights] /\ served \in [Endpoints -> Heights] /\ config.maxSafeLag \in Nat
  BY DeploymentTypes DEF Types, World
<1>2. tracked = Endpoints \X Deployed \ Behind(head, served) /\ probe = {}
  BY DEF Init
<1>3. ASSUME NEW e \in Endpoints, NEW p \in Deployed, head[p] <= served[e] + config.maxSafeLag
      PROVE  <<e, p>> \in tracked
  <2>1. ~(head[p] > served[e] + config.maxSafeLag)
    BY <1>1, <1>3, HeightTypes
  <2>2. <<e, p>> \notin Behind(head, served)
    BY <2>1 DEF Behind
  <2> QED
    BY <1>2, <2>2
<1> QED
  BY <1>2, <1>3 DEF LagInv, LagAt

LEMMA NextLag ==
    ASSUME Types, LagInv, [Next]_vars
    PROVE  LagInv'
<1>1. /\ LagAt(head, served, tracked, k, probe, readable) /\ World
      /\ head \in [Deployed -> Heights] /\ served \in [Endpoints -> Heights]
      /\ config.maxSafeLag \in Nat /\ Heights \subseteq Nat
      /\ probe \subseteq Heights
      /\ \A p \in Deployed : Node(p).name \in Names
  BY DeploymentTypes, HeightTypes DEF Types, World, LagInv, Doctors, DoctorsAt
<1>2. CASE Fleet
  <2>1. /\ UNCHANGED <<config, k, probe, readable>>
        /\ head' \in [Deployed -> Heights] /\ served' \in [Endpoints -> Heights]
        /\ \A p \in Deployed : head[p] <= head'[p]
        /\ tracked \subseteq tracked'
        /\ (UNCHANGED <<head, served, lagged, tracked>> \/ Observe(head', served'))
    BY <1>1, <1>2, FleetStep DEF doctor
  <2>2. ASSUME NEW e \in Endpoints, NEW p \in Deployed,
               head'[p] <= served'[e] + config.maxSafeLag
        PROVE  <<e, p>> \in tracked'
    <3>1. CASE UNCHANGED <<head, served, lagged, tracked>>
      BY <1>1, <2>2, <3>1 DEF LagAt
    <3>2. CASE Observe(head', served')
      <4>1. head'[p] \in Nat /\ served'[e] \in Nat
        BY <1>1, <2>1
      <4>2. ~(head'[p] > served'[e] + config.maxSafeLag)
        BY <1>1, <2>2, <4>1
      <4>3. <<e, p>> \notin Behind(head', served')
        BY <4>2 DEF Behind
      <4> QED
        BY <3>2, <4>3 DEF Observe
    <3> QED
      BY <2>1, <3>1, <3>2
  <2>3. ASSUME NEW h \in probe', NEW p \in Deployed, head'[p] <= h + config.maxSafeLag
        PROVE  <<k', p>> \in tracked'
    <3>1. h \in probe /\ h \in Nat /\ head[p] \in Nat /\ head'[p] \in Nat /\ head[p] <= head'[p]
      BY <1>1, <2>1
    <3>2. head[p] <= h + config.maxSafeLag
      BY <1>1, <2>3, <3>1
    <3> QED
      BY <1>1, <2>1, <3>1, <3>2 DEF LagAt
  <2>4. LagAt(head', served', tracked', k', probe', readable')
    BY <1>1, <2>1, <2>2, <2>3 DEF LagAt
  <2> QED
    BY <2>1, <2>4, LagStands
<1>3. CASE Doctor
  <2>1. UNCHANGED <<config, head, served, tracked>>
    BY <1>3, DoctorCalls DEF world
  <2> SUFFICES LagAt(head', served', tracked', k', probe', readable')
    BY <2>1, LagStands
  <2>2. ASSUME UNCHANGED <<k, probe, readable>>
        PROVE  LagAt(head', served', tracked', k', probe', readable')
    BY <1>1, <2>1, <2>2
  <2>3. CASE BlockNumber
    <3>1. /\ UNCHANGED <<k, readable>> /\ phase = "head"
          /\ probe' = {served[k]} \/ probe' = {}
      BY <2>3 DEF BlockNumber
    <3>2. k \in Endpoints /\ readable = NothingRead
      BY <3>1 DEF Types, Doctors, DoctorsAt, AtEndpoint
    <3>3. ReadFrom(readable') = {}
      BY <1>1, <3>1, <3>2 DEF ReadFrom, NothingRead
    <3>4. LagAt(head', served', tracked', k', probe', readable')
      BY <1>1, <2>1, <3>1, <3>2, <3>3 DEF LagAt
    <3> QED
      BY <3>4
  <2>4. CASE Backend
    <3> DEFINE name == Backends[j]
    <3>1. /\ UNCHANGED <<k, probe>>
          /\ \/ UNCHANGED readable
             \/ Known(name) /\ readable' = [readable EXCEPT ![name] = {head[Named(name)]}]
      <4>1. UNCHANGED <<k, probe>>
        BY <2>4, BackendStep
      <4>2. \/ UNCHANGED readable
            \/ Known(name) /\ readable' = [readable EXCEPT ![name] = {head[Named(name)]}]
        BY <2>4, BackendStep
      <4> QED
        BY <4>1, <4>2
    <3>2. CASE /\ Known(name)
               /\ readable' = [readable EXCEPT ![name] = {head[Named(name)]}]
      <4>1. name \in Names /\ DOMAIN readable = Names
        BY <1>1, <3>2, NamedExists DEF Types, Doctors, DoctorsAt
      <4>2. ASSUME NEW h \in probe', NEW p \in ReadFrom(readable'),
                   NEW r \in readable'[Node(p).name], r <= h + config.maxSafeLag
            PROVE  <<k', p>> \in tracked'
        <5>1. p \in Deployed /\ Named(Node(p).name) = p /\ Node(p).name \in Names /\ h \in probe
          BY <1>1, <3>1 DEF ReadFrom
        <5>2. CASE Node(p).name = name
          <6>1. readable'[name] = {head[Named(name)]}
            BY <3>2, <4>1
          <6>2. r = head[p]
            BY <5>1, <5>2, <6>1
          <6> QED
            BY <1>1, <2>1, <3>1, <4>2, <5>1, <6>2 DEF LagAt
        <5>3. CASE Node(p).name # name
          <6>1. readable'[Node(p).name] = readable[Node(p).name]
            BY <3>2, <4>1, <5>1, <5>3
          <6>2. p \in ReadFrom(readable)
            BY <5>1, <6>1 DEF ReadFrom
          <6> QED
            BY <1>1, <2>1, <3>1, <4>2, <5>1, <6>1, <6>2 DEF LagAt
        <5> QED
          BY <5>2, <5>3
      <4>3. LagAt(head', served', tracked', k', probe', readable')
        BY <1>1, <2>1, <3>1, <4>2 DEF LagAt
      <4> QED
        BY <4>3
    <3> QED
      BY <2>2, <3>1, <3>2
  <2>5. CASE EndEndpoint
    <3>1. probe' = {}
      BY <2>5 DEF EndEndpoint
    <3> QED
      BY <1>1, <2>1, <3>1 DEF LagAt
  <2>6. CASE Start \/ BeginEndpoint \/ ChainID \/ Scrape \/ Return
    BY <2>2, <2>6 DEF Start, BeginEndpoint, ChainID, Scrape, Return
  <2> QED
    BY <1>3, <2>3, <2>4, <2>5, <2>6 DEF Doctor
<1>4. CASE UNCHANGED vars
  <2>1. UNCHANGED <<config, head, served, tracked, k, probe, readable>>
    BY <1>4 DEF vars, world, doctor
  <2> QED
    BY <1>1, <2>1, LagStands
<1> QED
  BY <1>2, <1>3, <1>4 DEF Next

\* Only the comparison of heads gives a verdict on a lag.
LEMMA OnlyHeadLagMeasures ==
    ASSUME Types, [Next]_vars, NEW severity, NewLagVerdict(severity)
    PROVE  /\ EndEndpoint
           /\ \E f \in HeadLagFindings : f.severity = severity /\ f.sample[1] = "lag_blocks"
<1>1. PICK f \in findings' \ findings : f.severity = severity /\ f.sample[1] = "lag_blocks"
  BY DEF NewLagVerdict
<1>2. f.sample # NoSample
  <2>1. NoSample[1] = ""
    BY DEF NoSample
  <2> QED
    BY <1>1, <2>1
<1>3. Doctor
  <2>1. ~Fleet
    BY <1>1, FleetStep DEF Types, doctor
  <2>2. ~UNCHANGED vars
    BY <1>1 DEF vars, doctor
  <2> QED
    BY <2>1, <2>2 DEF Next
<1>4. EndEndpoint
  <2> SUFFICES ASSUME ~EndEndpoint PROVE FALSE
    OBVIOUS
  <2>1. PICK fs : Plain(fs) /\ Emit(fs)
    BY <1>3, EmitsPlain DEF Doctor
  <2>2. f \in fs
    BY <1>1, <2>1 DEF Emit
  <2> QED
    BY <1>2, <2>1, <2>2 DEF Plain
<1>5. f \in HeadLagFindings
  <2>1. /\ Plain({Proxyd("backends", "warn", NoSample)})
        /\ Plain({Proxyd("backends", "ok", NoSample)}) /\ Plain(BackendRoleFindings)
    BY PlainFindings, RolesPlain DEF Severities
  <2>2. \/ Emit({Proxyd("backends", "warn", NoSample)})
        \/ Emit(BackendRoleFindings \cup HeadLagFindings \cup {Proxyd("backends", "ok", NoSample)})
    BY <1>4 DEF EndEndpoint
  <2>3. \/ f \in {Proxyd("backends", "warn", NoSample)}
        \/ f \in BackendRoleFindings \/ f \in HeadLagFindings
        \/ f \in {Proxyd("backends", "ok", NoSample)}
    BY <1>1, <2>2 DEF Emit
  <2> QED
    BY <1>2, <2>1, <2>3 DEF Plain
<1> QED
  BY <1>1, <1>4, <1>5

\* A good verdict on the head lag: each backend that was read was once not too far ahead.
LEMMA GoodVerdictMeansTracked ==
    ASSUME Types, LagInv, NEW f \in HeadLagFindings, f.severity = "ok", f.sample[1] = "lag_blocks",
           NEW p \in ReadBackends
    PROVE  <<k, p>> \in tracked
<1>1. f \in HeadLagFindings /\ f.severity = "ok" /\ f.sample[1] = "lag_blocks"
  OBVIOUS
<1>2. NoSample[1] = "" /\ config.maxSafeLag \in Nat /\ Heights \subseteq Nat
  BY DeploymentTypes, HeightTypes DEF NoSample, Types
<1>3. BackendHeads # {}
      /\ \E h \in Heights, lag \in Nat :
            /\ probe = {h} /\ lag = IF BackendMax > h THEN BackendMax - h ELSE 0
            /\ HeadLagFindings =
                 {Proxyd("head_lag", IF lag > config.maxSafeLag THEN "warn" ELSE "ok",
                         <<"lag_blocks", lag>>)}
  <2>1. HeadLagFindings # {} /\ HeadLagFindings # {Proxyd("head_lag", "info", NoSample)}
    BY <1>1 DEF Proxyd, Finding
  <2> QED
    BY <2>1, HeadLagVerdict
<1>4. PICK h \in Heights, lag \in Nat :
            /\ probe = {h} /\ lag = IF BackendMax > h THEN BackendMax - h ELSE 0
            /\ HeadLagFindings =
                 {Proxyd("head_lag", IF lag > config.maxSafeLag THEN "warn" ELSE "ok",
                         <<"lag_blocks", lag>>)}
  BY <1>3
<1>5. lag <= config.maxSafeLag
  <2>1. f.severity = IF lag > config.maxSafeLag THEN "warn" ELSE "ok"
    BY <1>1, <1>4 DEF Proxyd, Finding
  <2>2. ~(lag > config.maxSafeLag)
    BY <1>1, <2>1
  <2>3. lag \in Nat /\ config.maxSafeLag \in Nat
    BY <1>2, <1>4
  <2> QED
    BY <2>2, <2>3
<1>6. p \in Deployed /\ Node(p).name \in Names /\ readable[Node(p).name] # {}
      /\ p \in ReadFrom(readable)
  BY DeploymentTypes DEF ReadBackends, ReadFrom, Types
<1>7. PICK r \in Heights : r \in readable[Node(p).name]
  BY <1>6 DEF Types, Doctors, DoctorsAt
<1>8. r <= BackendMax /\ BackendMax \in Nat
  <2>1. BackendHeads \in SUBSET Heights /\ r \in BackendHeads
    BY <1>6, <1>7 DEF Types, Doctors, DoctorsAt, BackendHeads
  <2>2. BackendMax \in BackendHeads /\ BackendMax >= r
    BY <2>1, HeightTypes, MaxExists DEF BackendMax
  <2> QED
    BY <1>2, <2>1, <2>2
<1>9. r <= h + config.maxSafeLag
  <2>1. /\ r \in Nat /\ h \in Nat /\ BackendMax \in Nat /\ config.maxSafeLag \in Nat
        /\ lag = IF BackendMax > h THEN BackendMax - h ELSE 0
    BY <1>2, <1>4, <1>8
  <2> HIDE DEF BackendMax
  <2>2. BackendMax <= h + config.maxSafeLag
    BY <1>5, <2>1
  <2> QED
    BY <1>8, <2>1, <2>2
<1> QED
  BY <1>4, <1>6, <1>7, <1>9 DEF LagInv, LagAt

(***************************************************************************)
(* When proxyd's head is reported to track its backends, each of them that *)
(* was read was once not ahead of it by more than max_safe_lag_blocks.     *)
(***************************************************************************)
THEOREM NoMissedProxydLag == Spec => ProxydLagIsNotMissed
<1>1. Init => Types /\ LagInv
  BY InitTypes, InitLag
<1>2. Types /\ LagInv /\ [Next]_vars => (Types /\ LagInv)'
  BY NextTypes, NextLag
<1>3. Types /\ LagInv /\ [Next]_vars
        => [NewLagVerdict("ok") => \A p \in ReadBackends : <<k, p>> \in tracked]_vars
  <2> SUFFICES ASSUME Types, LagInv, [Next]_vars, NewLagVerdict("ok"), NEW p \in ReadBackends
               PROVE  <<k, p>> \in tracked
    OBVIOUS
  <2>1. PICK f \in HeadLagFindings : f.severity = "ok" /\ f.sample[1] = "lag_blocks"
    BY OnlyHeadLagMeasures
  <2> QED
    BY <2>1, GoodVerdictMeansTracked
<1> QED
  BY <1>1, <1>2, <1>3, PTL DEF Spec, ProxydLagIsNotMissed

-----------------------------------------------------------------------------
(* The gate of --fail-on fail *)

Answers(e, fs) ==
    config.endpoints[e].rpc =>
        /\ config.chainId \in {0, chain[e]}
        /\ HasFinding(fs, <<"proxyd", config.endpoints[e].name, "head">>)

KnownUpTo(e, n) == \A b \in 1 .. n : Known(config.endpoints[e].backends[b])

(***************************************************************************)
(* Unless something failed, all endpoints passed, and the calls passed at  *)
(* the current one, are as the gate promises.                              *)
(***************************************************************************)
FailAt(ph, kk, jj, fs) ==
    \/ FailIn(fs)
    \/ /\ \A e \in Endpoints :
            e < kk => Answers(e, fs) /\ KnownUpTo(e, Len(config.endpoints[e].backends))
       /\ ph = "head" => config.chainId \in {0, chain[kk]}
       /\ ph \in {"metrics", "backends"} => Answers(kk, fs)
       /\ ph = "backends" => KnownUpTo(kk, jj - 1)

MetricsNames(e) == <<"proxyd", config.endpoints[e].name, "metrics_names">>

\* A page that was read and says that proxyd is down has made something fail.
UpAt(fs) ==
    UniqueEndpoints =>
        \A e \in Endpoints : HasFinding(fs, MetricsNames(e)) => page[e].up \subseteq {1} \/ FailIn(fs)

FailGateInv == FailAt(phase, k, j, findings) /\ UpAt(findings)

LEMMA FailGateStands ==
    ASSUME UNCHANGED <<config, page, chain>>, FailAt(phase', k', j', findings'), UpAt(findings')
    PROVE  FailGateInv'
BY DEF FailGateInv, FailAt, UpAt, UniqueEndpoints, MetricsNames, Answers, KnownUpTo, Known,
       Endpoints, Deployed, Node

\* More findings keep what was found.
LEMMA FindingsStay ==
    ASSUME NEW S, NEW T, S \subseteq T
    PROVE  /\ FailIn(S) => FailIn(T)
           /\ \A id : HasFinding(S, id) => HasFinding(T, id)
           /\ \A e : Answers(e, S) => Answers(e, T)
           /\ \A ph, kk, jj : FailAt(ph, kk, jj, S) => FailAt(ph, kk, jj, T)
BY DEF FailIn, HasFinding, Answers, FailAt

PageParts == {"metrics_names", "backend_latency"}

\* Only what a scrape finds is filed under the parts of a page.
LEMMA OnlyScrapeFindsPage ==
    ASSUME Types, Doctor, ~Scrape, NEW name, NEW part \in PageParts
    PROVE  \A f \in findings' : f.id = <<"proxyd", name, part>> => f \in findings
<1> DEFINE id == <<"proxyd", name, part>>
<1>1. \A n, end : end \notin PageParts => <<"proxyd", n, end>> # id
  OBVIOUS
<1>2. /\ \A n, s, t : <<"proxyd", n>> # id
      /\ \A n, b : <<"proxyd", n, "backend", b>> # id
      /\ \A n, b : <<"proxyd", n, "backend", b, "head">> # id
  OBVIOUS
<1> DEFINE NothingNew == \A f \in findings' : f.id = id => f \in findings
<1> SUFFICES NothingNew
  OBVIOUS
<1> HIDE DEF id
<1>3. ASSUME NEW fs, Emit(fs), \A f \in fs : f.id # id
      PROVE  NothingNew
  BY <1>3 DEF Emit
<1>4. CASE Start
  <2>1. UNCHANGED findings \/ \E n, s : Emit({Finding(<<"proxyd", n>>, s, <<"proxyd">>, NoSample)})
    BY <1>4 DEF Start
  <2>2. CASE UNCHANGED findings
    BY <2>2
  <2>3. ASSUME NEW n, NEW s, Emit({Finding(<<"proxyd", n>>, s, <<"proxyd">>, NoSample)})
        PROVE  NothingNew
    <3>1. Finding(<<"proxyd", n>>, s, <<"proxyd">>, NoSample).id # id
      BY <1>2 DEF Finding
    <3> QED
      BY <1>3, <2>3, <3>1
  <2> QED
    BY <2>1, <2>2, <2>3
<1>5. CASE BeginEndpoint
  <2>1. \A f \in {ConsensusIntentFinding} \cup When(~Endpoint.rpc, ProxydRPC("rpc", "warn")) : f.id # id
    BY <1>1 DEF PageParts, ConsensusIntentFinding, ProxydRPC, Proxyd, Finding, When
  <2> QED
    BY <1>3, <1>5, <2>1 DEF BeginEndpoint
<1>6. CASE ChainID
  <2>1. \E s : Emit({ProxydRPC("chain_id", s)}) \/ Emit({ProxydRPC("rpc", "fail")})
    BY <1>6 DEF ChainID
  <2>2. \A s : ProxydRPC("chain_id", s).id # id /\ ProxydRPC("rpc", "fail").id # id
    BY <1>1 DEF PageParts, ProxydRPC, Finding
  <2> QED
    BY <1>3, <2>1, <2>2
<1>7. CASE BlockNumber
  <2>1. \E s : Emit({ProxydRPC("head", s)})
    BY <1>7 DEF BlockNumber
  <2>2. \A s : ProxydRPC("head", s).id # id
    BY <1>1 DEF PageParts, ProxydRPC, Finding
  <2> QED
    BY <1>3, <2>1, <2>2
<1>8. CASE Backend
  <2>1. \E n, s : Emit({UnknownBackend(n)}) \/ Emit({BackendFinding(n, s)})
    BY <1>8, BackendStep
  <2>2. \A n, s : UnknownBackend(n).id # id /\ BackendFinding(n, s).id # id
    BY <1>2 DEF UnknownBackend, BackendFinding, Finding
  <2> QED
    BY <1>3, <2>1, <2>2
<1>9. CASE EndEndpoint
  <2>1. \A end, s, m : end \notin PageParts => Proxyd(end, s, m).id # id
    BY <1>1 DEF Proxyd, Finding
  <2>2. \A f \in BackendRoleFindings : f.id # id
    BY <2>1 DEF PageParts, BackendRoleFindings
  <2>3. \A f \in HeadLagFindings : f.id # id
    <3>1. HeadLagFindings = {} \/ \E s, m : HeadLagFindings = {Proxyd("head_lag", s, m)}
      BY HeadLagVerdict
    <3> QED
      BY <2>1, <3>1 DEF PageParts
  <2>4. PICK fs : /\ Emit(fs)
                  /\ \/ fs = {Proxyd("backends", "warn", NoSample)}
                     \/ fs = BackendRoleFindings \cup HeadLagFindings
                             \cup {Proxyd("backends", "ok", NoSample)}
    BY <1>9 DEF EndEndpoint
  <2> QED
    BY <1>3, <2>1, <2>2, <2>3, <2>4 DEF PageParts
<1>10. CASE Return
  BY <1>10 DEF Return
<1> QED
  BY <1>4, <1>5, <1>6, <1>7, <1>8, <1>9, <1>10 DEF Doctor

LEMMA DownIsReported ==
    ASSUME NEW e, NEW pg, NEW maxLatency
    PROVE  pg.up \subseteq {1} \/ FailIn(PageFindings(e, pg, maxLatency))
<1> DEFINE up == Verdict(e, pg, "up", "warn", \E v \in pg.up : v # 1, "fail")
<1>1. CASE NoSeries(pg)
  <2>1. pg["up"] = {}
    BY <1>1 DEF NoSeries, Metrics, ValueMetrics
  <2> QED
    BY <2>1
<1>2. CASE ~NoSeries(pg) /\ ~(pg.up \subseteq {1})
  <2>1. up = Metric(e, "up", "fail")
    BY <1>2 DEF Verdict
  <2>2. Metric(e, "up", "fail").severity = "fail"
    BY DEF Metric, Finding
  <2>3. up \in PageFindings(e, pg, maxLatency)
    BY <1>2 DEF PageFindings, NativeFindings
  <2> HIDE DEF up
  <2> QED
    BY <2>1, <2>2, <2>3 DEF FailIn
<1> QED
  BY <1>1, <1>2

LEMMA ScrapeUp ==
    ASSUME Types, Scrape, UpAt(findings)
    PROVE  UpAt(findings')
<1> SUFFICES ASSUME UniqueEndpoints, NEW e \in Endpoints, HasFinding(findings', MetricsNames(e))
             PROVE  page[e].up \subseteq {1} \/ FailIn(findings')
  BY DEF UpAt
<1>1. PICK fs : /\ Emit(fs)
                /\ \/ fs = {Metric(Endpoint, "metrics", "warn")}
                   \/ fs = PageFindings(Endpoint, page[k], config.maxLatency)
  BY DEF Scrape
<1>2. findings \subseteq findings' /\ fs \subseteq findings'
  BY <1>1 DEF Emit
<1>3. PICK f \in findings' : f.id = MetricsNames(e)
  BY DEF HasFinding
<1>4. CASE f \in findings
  <2>1. HasFinding(findings, MetricsNames(e))
    BY <1>3, <1>4 DEF HasFinding
  <2> QED
    BY <1>2, <2>1, FindingsStay DEF UpAt
<1>5. CASE f \in fs /\ fs = {Metric(Endpoint, "metrics", "warn")}
  <2>1. f.id = <<"proxyd", Endpoint.name, "metrics">>
    BY <1>5 DEF Metric, Finding
  <2> QED
    BY <1>3, <2>1 DEF MetricsNames
<1>6. CASE f \in fs /\ fs = PageFindings(Endpoint, page[k], config.maxLatency)
  <2>1. PICK id, severity : f = Metric(Endpoint, id, severity)
    BY <1>6, PageMetrical DEF Metrical
  <2>2. f.id = <<"proxyd", Endpoint.name, id>>
    BY <2>1 DEF Metric, Finding
  <2>3. Endpoint.name = config.endpoints[e].name
    BY <1>3, <2>2 DEF MetricsNames
  <2>4. k \in Endpoints
    BY DEF Scrape, Types, Doctors, DoctorsAt, AtEndpoint
  <2>5. e = k
    BY <2>3, <2>4 DEF UniqueEndpoints, Endpoint
  <2>6. page[k].up \subseteq {1} \/ FailIn(fs)
    BY <1>6, DownIsReported
  <2> QED
    BY <1>2, <2>5, <2>6, FindingsStay
<1> QED
  BY <1>1, <1>3, <1>4, <1>5, <1>6 DEF Emit

LEMMA NextUp ==
    ASSUME Types, UpAt(findings), Doctor
    PROVE  UpAt(findings')
<1>1. CASE Scrape
  BY <1>1, ScrapeUp
<1>2. CASE ~Scrape
  <2> SUFFICES ASSUME UniqueEndpoints, NEW e \in Endpoints, HasFinding(findings', MetricsNames(e))
               PROVE  page[e].up \subseteq {1} \/ FailIn(findings')
    BY DEF UpAt
  <2>1. HasFinding(findings, MetricsNames(e))
    BY <1>2, OnlyScrapeFindsPage DEF HasFinding, MetricsNames, PageParts
  <2>2. FailIn(findings) => FailIn(findings')
    BY EmitsGraded, FindingsStay
  <2> QED
    BY <2>1, <2>2 DEF UpAt
<1> QED
  BY <1>1, <1>2

LEMMA FailEmitted ==
    ASSUME NEW f, f.severity = "fail", Emit({f})
    PROVE  FailIn(findings')
BY DEF Emit, FailIn

LEMMA NextFailAt ==
    ASSUME Types, FailAt(phase, k, j, findings), Doctor
    PROVE  FailAt(phase', k', j', findings')
<1>1. /\ FailAt(phase, k, j, findings') /\ World
      /\ DoctorsAt(phase, k, j, probe, readable)
      /\ Len(config.endpoints) \in Nat /\ k \in 1 .. Len(config.endpoints) + 1
      /\ phase \in AtEndpoint => k \in Endpoints
      /\ \A e \in Endpoints : Answers(e, findings) => Answers(e, findings')
  BY EmitsGraded, FindingsStay, DeploymentTypes DEF Types, Doctors, DoctorsAt
<1> SUFFICES ASSUME ~FailIn(findings')
             PROVE  FailAt(phase', k', j', findings')
  BY DEF FailAt
<1>2. CASE Start
  <2>1. UNCHANGED <<k, j>> /\ phase' \in {"done", "endpoint"}
    BY <1>2 DEF Start
  <2> QED
    BY <1>1, <2>1 DEF FailAt
<1>3. CASE BeginEndpoint
  <2>1. /\ UNCHANGED <<k, j>>
        /\ \/ phase' = "chainId"
           \/ phase' = "metrics" /\ ~Endpoint.rpc
    <3>1. UNCHANGED <<k, j>> /\ phase' = IF Endpoint.rpc THEN "chainId" ELSE "metrics"
      BY <1>3 DEF BeginEndpoint
    <3>2. CASE Endpoint.rpc
      BY <3>1, <3>2
    <3>3. CASE ~Endpoint.rpc
      BY <3>1, <3>3
    <3> QED
      BY <3>2, <3>3
  <2>2. ~Endpoint.rpc => Answers(k, findings')
    BY DEF Endpoint, Answers
  <2> QED
    BY <1>1, <2>1, <2>2 DEF FailAt
<1>4. CASE ChainID
  <2>1. UNCHANGED <<k, j>> /\ phase = "chainId"
    BY <1>4 DEF ChainID
  <2>2. k \in Endpoints /\ config.chainId \in Nat /\ chain[k] \in Nat
    BY <1>1, <2>1, DeploymentTypes DEF AtEndpoint
  <2>3. ~Emit({ProxydRPC("rpc", "fail")}) /\ ~Emit({ProxydRPC("chain_id", "fail")})
    BY FailEmitted DEF ProxydRPC, Finding
  <2>4. /\ phase' = "head"
        /\ Emit({ProxydRPC("chain_id",
                   IF config.chainId # 0 /\ chain[k] # config.chainId THEN "fail" ELSE "ok")})
    BY <1>4, <2>3 DEF ChainID
  <2>5. config.chainId \in {0, chain[k]}
    BY <2>3, <2>4
  <2> QED
    BY <1>1, <2>1, <2>4, <2>5 DEF FailAt
<1>5. CASE BlockNumber
  <2>1. UNCHANGED <<k, j>> /\ phase = "head" /\ phase' = "metrics"
    BY <1>5 DEF BlockNumber
  <2>2. ~Emit({ProxydRPC("head", "fail")})
    BY FailEmitted DEF ProxydRPC, Finding
  <2>3. Emit({ProxydRPC("head", "ok")})
    BY <1>5, <2>2 DEF BlockNumber
  <2>4. HasFinding(findings', <<"proxyd", Endpoint.name, "head">>)
    <3>1. ProxydRPC("head", "ok") \in findings'
      BY <2>3 DEF Emit
    <3>2. ProxydRPC("head", "ok").id = <<"proxyd", Endpoint.name, "head">>
      BY DEF ProxydRPC, Finding
    <3> QED
      BY <3>1, <3>2 DEF HasFinding
  <2>5. Answers(k, findings')
    BY <1>1, <2>1, <2>4 DEF FailAt, Answers, Endpoint
  <2> QED
    BY <1>1, <2>1, <2>5 DEF FailAt
<1>6. CASE Scrape
  <2>1. UNCHANGED <<k, j>> /\ phase = "metrics" /\ phase' = "backends"
    BY <1>6 DEF Scrape
  <2>2. j = 1
    BY <1>1, <2>1 DEF DoctorsAt
  <2>3. KnownUpTo(k, j - 1)
    BY <2>2 DEF KnownUpTo
  <2> QED
    BY <1>1, <2>1, <2>3 DEF FailAt
<1>7. CASE Backend
  <2>1. /\ UNCHANGED <<phase, k>> /\ phase = "backends" /\ j' = j + 1 /\ k \in Endpoints
        /\ j \in 1 .. Len(Backends)
    BY <1>7, BackendStep
  <2>2. ~Emit({UnknownBackend(Backends[j])})
    BY FailEmitted DEF UnknownBackend, Finding
  <2>3. Known(Backends[j])
    BY <1>7, <2>2, BackendStep
  <2>4. KnownUpTo(k, j - 1)
    BY <1>1, <2>1 DEF FailAt
  <2>5. j \in Nat
    BY <1>1, <2>1, DeploymentTypes DEF Backends, Endpoint
  <2>6. KnownUpTo(k, j' - 1)
    BY <2>1, <2>3, <2>4, <2>5 DEF KnownUpTo, Backends, Endpoint
  <2> QED
    BY <1>1, <2>1, <2>6 DEF FailAt
<1>8. CASE EndEndpoint
  <2>1. /\ phase = "backends" /\ phase' = "endpoint" /\ k' = k + 1
        /\ j > Len(Backends)
    BY <1>8 DEF EndEndpoint
  <2>2. k \in Endpoints /\ j \in 1 .. Len(Backends) + 1 /\ Len(Backends) \in Nat
    BY <1>1, <2>1, DeploymentTypes DEF DoctorsAt, AtEndpoint, Backends, Endpoint
  <2>3. j - 1 = Len(config.endpoints[k].backends)
    BY <2>1, <2>2 DEF Backends, Endpoint
  <2>4. Answers(k, findings') /\ KnownUpTo(k, Len(config.endpoints[k].backends))
    BY <1>1, <2>1, <2>3 DEF FailAt
  <2>5. ASSUME NEW e \in Endpoints, e < k'
        PROVE  Answers(e, findings') /\ KnownUpTo(e, Len(config.endpoints[e].backends))
    <3>1. e < k \/ e = k
      BY <2>1, <2>2, <2>5 DEF Endpoints
    <3> QED
      BY <1>1, <2>4, <3>1 DEF FailAt
  <2> QED
    BY <2>1, <2>5 DEF FailAt
<1>9. CASE Return
  <2>1. UNCHANGED <<k, j>> /\ phase' = "done"
    BY <1>9 DEF Return
  <2> QED
    BY <1>1, <2>1 DEF FailAt
<1> QED
  BY <1>2, <1>3, <1>4, <1>5, <1>6, <1>7, <1>8, <1>9 DEF Doctor

LEMMA InitFailGate ==
    ASSUME Init
    PROVE  FailGateInv
<1>1. phase = "start" /\ k = 1 /\ findings = {}
  BY DEF Init
<1>2. ~\E e \in Endpoints : e < k
  BY <1>1 DEF Endpoints
<1> QED
  BY <1>1, <1>2 DEF FailGateInv, FailAt, UpAt, HasFinding

LEMMA NextFailGate ==
    ASSUME Types, FailGateInv, [Next]_vars
    PROVE  FailGateInv'
<1>1. FailAt(phase, k, j, findings) /\ UpAt(findings)
  BY DEF FailGateInv
<1>2. CASE Doctor
  <2>1. FailAt(phase', k', j', findings') /\ UpAt(findings')
    BY <1>1, <1>2, NextFailAt, NextUp
  <2>2. UNCHANGED <<config, page, chain>>
    BY <1>2, DoctorCalls DEF world
  <2> QED
    BY <2>1, <2>2, FailGateStands
<1>3. CASE Fleet \/ UNCHANGED vars
  <2>1. UNCHANGED <<config, page, chain, phase, k, j, findings>>
    BY <1>3, FleetStep DEF Types, doctor, vars, world
  <2> QED
    BY <1>1, <2>1, FailGateStands
<1> QED
  BY <1>2, <1>3 DEF Next

LEMMA FailGateHolds ==
    ASSUME Types, FailGateInv
    PROVE  FailGateSound
<1> SUFFICES ASSUME phase = "done", config.enabled, ExitCode(findings, "fail") = 0,
                    NEW e \in Endpoints
             PROVE  /\ config.endpoints[e].rpc =>
                          /\ config.chainId \in {0, chain[e]}
                          /\ HasFinding(findings, <<"proxyd", config.endpoints[e].name, "head">>)
                    /\ \A b \in ToSet(config.endpoints[e].backends) : Known(b)
                    /\ UniqueEndpoints /\ HasFinding(findings, MetricsNames(e)) =>
                          page[e].up \subseteq {1}
  BY DEF FailGateSound, MetricsNames
<1>1. ~FailIn(findings)
  BY ExitCodeFail DEF Types, Graded
<1>2. e < k
  <2>1. Len(config.endpoints) \in Nat
    BY DeploymentTypes DEF Types
  <2>2. k \in 1 .. Len(config.endpoints) + 1 /\ k \notin Endpoints
    BY DEF Types, Doctors, DoctorsAt
  <2> QED
    BY <2>1, <2>2 DEF Endpoints
<1>3. Answers(e, findings) /\ KnownUpTo(e, Len(config.endpoints[e].backends))
  BY <1>1, <1>2 DEF FailGateInv, FailAt
<1>4. \A b \in ToSet(config.endpoints[e].backends) : Known(b)
  <2>1. config.endpoints[e].backends \in Seq(STRING)
    BY DeploymentTypes DEF Types
  <2> QED
    BY <1>3, <2>1 DEF KnownUpTo, ToSet
<1> QED
  BY <1>1, <1>3, <1>4 DEF FailGateInv, UpAt, Answers

(***************************************************************************)
(* The gate of --fail-on fail is sound: exit code 0 means that proxyd      *)
(* answered for the configured chain, that its backends are configured and *)
(* that no page that was scraped says it is down, of which the last needs  *)
(* that no two endpoints share a name (see ProxydReportIsSound).           *)
(***************************************************************************)
THEOREM ProxydFailGateIsSound == Spec => []FailGateSound
<1>1. Init => Types /\ FailGateInv
  BY InitTypes, InitFailGate
<1>2. Types /\ FailGateInv /\ [Next]_vars => (Types /\ FailGateInv)'
  BY NextTypes, NextFailGate
<1>3. Types /\ FailGateInv => FailGateSound
  BY FailGateHolds
<1> QED
  BY <1>1, <1>2, <1>3, PTL DEF Spec

-----------------------------------------------------------------------------
(* The gate of --fail-on warn *)

Has(fs, e, part, severity) ==
    \E f \in fs : /\ f.id = <<"proxyd", config.endpoints[e].name, part>>
                  /\ f.severity = severity

LEMMA Said ==
    ASSUME NEW fs, Emit(fs), NEW f \in fs, NEW part, f.id = <<"proxyd", Endpoint.name, part>>
    PROVE  Has(findings', k, part, f.severity)
BY DEF Emit, Has, Endpoint

LEMMA RPCSaid ==
    ASSUME NEW part, NEW severity, Emit({ProxydRPC(part, severity)})
    PROVE  Has(findings', k, part, severity)
<1>1. /\ ProxydRPC(part, severity).id = <<"proxyd", Endpoint.name, part>>
      /\ ProxydRPC(part, severity).severity = severity
  BY DEF ProxydRPC, Finding
<1> QED
  BY <1>1, Said

\* What the series of page e say of its expected backends.
GoodPage(e) ==
    \A b \in ToSet(config.endpoints[e].backends) :
        /\ \A s \in page[e].backend_probe_healthy \cup page[e].backend_in_sync :
              s.backend = b => s.value = 1
        /\ \A s \in page[e].backend_degraded \cup page[e].backend_banned \cup page[e].backend_error_rate :
              s.backend = b => s.value = 0

Reads(name) == Known(name) /\ Node(Named(name)).rpc

\* Declared so that nothing is to be warned of.
Declared(e) ==
    /\ config.endpoints[e].rpc
    /\ config.endpoints[e].role = "deriver" => config.endpoints[e].aware

\* The page was scraped and says nothing bad.
Scanned(e, fs) ==
    /\ config.endpoints[e].metrics /\ Has(fs, e, "metrics", "ok")
    /\ page[e].up \subseteq {1} /\ GoodPage(e)

HeadRead(e, name, fs) ==
    \E f \in fs : /\ f.id = <<"proxyd", config.endpoints[e].name, "backend", name, "head">>
                  /\ f.severity = "ok"

Compared(e, fs) ==
    \E f \in fs : /\ f.id = <<"proxyd", config.endpoints[e].name, "head_lag">>
                  /\ f.severity = "ok" /\ f.sample[1] = "lag_blocks"

Passed(e, fs, tr) ==
    LET endpoint == config.endpoints[e] IN
    /\ Declared(e) /\ Has(fs, e, "head", "ok") /\ Scanned(e, fs)
    /\ endpoint.backends # <<>>
    /\ \A b \in ToSet(endpoint.backends) :
          Reads(b) /\ HeadRead(e, b, fs) /\ <<e, Named(b)>> \in tr
    /\ Compared(e, fs)
    /\ endpoint.role = "deriver" => Cardinality(SourceEntries(endpoint)) >= 2

(***************************************************************************)
(* Unless something is bad, all endpoints passed, and what was done at the *)
(* current one, are as the gate promises.                                  *)
(***************************************************************************)
WarnAt(ph, kk, jj, pr, rd, fs, tr) ==
    \/ Bad(fs)
    \/ /\ ph # "start" /\ config.enabled => config.endpoints # <<>>
       /\ \A e \in Endpoints : e < kk => Passed(e, fs, tr)
       /\ ph \in AtEndpoint => Declared(kk)
       /\ ph \in {"metrics", "backends"} => pr # {} /\ Has(fs, kk, "head", "ok")
       /\ ph = "backends" => Scanned(kk, fs)
       /\ ph = "backends" =>
             \A b \in 1 .. jj - 1 : LET name == config.endpoints[kk].backends[b] IN
                 Reads(name) /\ rd[name] # {} /\ HeadRead(kk, name, fs)

WarnGateInv == WarnAt(phase, k, j, probe, readable, findings, tracked)

LEMMA WarnGateStands ==
    ASSUME UNCHANGED <<config, page>>,
           WarnAt(phase', k', j', probe', readable', findings', tracked')
    PROVE  WarnGateInv'
<1>1. /\ Endpoints' = Endpoints
      /\ \A e : GoodPage(e)' <=> GoodPage(e)
      /\ \A e : Declared(e)' <=> Declared(e)
  BY DEF Endpoints, GoodPage, Declared
<1>2. /\ \A name : Reads(name)' <=> Reads(name)
      /\ \A name : Named(name)' = Named(name)
      /\ \A endpoint : SourceEntries(endpoint)' = SourceEntries(endpoint)
  BY DEF Reads, Known, Named, Node, Deployed, SourceEntries
<1>3. /\ \A e : (Scanned(e, findings))' <=> Scanned(e, findings')
      /\ \A e, name : (HeadRead(e, name, findings))' <=> HeadRead(e, name, findings')
      /\ \A e, part, severity :
            (Has(findings, e, part, severity))' <=> Has(findings', e, part, severity)
  BY <1>1 DEF Scanned, Has, HeadRead
<1>4. \A e : (Passed(e, findings, tracked))' <=> Passed(e, findings', tracked')
  BY <1>1, <1>2, <1>3 DEF Passed, Compared
<1> QED
  BY <1>1, <1>2, <1>3, <1>4 DEF WarnGateInv, WarnAt

\* More findings, and a longer history, keep what was passed.
LEMMA PassedStays ==
    ASSUME NEW S, NEW T, S \subseteq T, NEW X, NEW Y, X \subseteq Y
    PROVE  /\ \A e, part, severity : Has(S, e, part, severity) => Has(T, e, part, severity)
           /\ \A e : Scanned(e, S) => Scanned(e, T)
           /\ \A e, name : HeadRead(e, name, S) => HeadRead(e, name, T)
           /\ \A e : Passed(e, S, X) => Passed(e, T, Y)
<1>1. \A e, part, severity : Has(S, e, part, severity) => Has(T, e, part, severity)
  BY DEF Has
<1>2. /\ \A e : Scanned(e, S) => Scanned(e, T)
      /\ \A e, name : HeadRead(e, name, S) => HeadRead(e, name, T)
      /\ \A e : Compared(e, S) => Compared(e, T)
  BY <1>1 DEF Scanned, HeadRead, Compared
<1>3. \A e : Passed(e, S, X) => Passed(e, T, Y)
  BY <1>1, <1>2 DEF Passed
<1> QED
  BY <1>1, <1>2, <1>3

\* No series of an expected backend has a value that would be reported.
LEMMA NoBadBackend ==
    ASSUME NEW e, NEW samples, NEW bad, ~SomeBackend(e, samples, bad),
           NEW b \in ToSet(e.backends), NEW s \in samples, s.backend = b
    PROVE  s.value \notin bad
<1> DEFINE own == {x \in samples : x.backend \in ToSet(e.backends)}
<1>1. s \in own
  OBVIOUS
<1>2. FilterBackendSamples(samples, e.backends) = own
  BY <1>1 DEF FilterBackendSamples
<1> QED
  BY <1>1, <1>2 DEF SomeBackend

LEMMA BackendJudged ==
    ASSUME NEW e, NEW pg, NEW id, NEW bad, BackendVerdict(e, pg, id, bad).severity # "warn",
           NEW b \in ToSet(e.backends), NEW s \in pg[id], s.backend = b
    PROVE  s.value \notin bad
<1>1. CASE SomeBackend(e, pg[id], bad)
  <2>1. BackendVerdict(e, pg, id, bad) = Metric(e, id, "warn")
    BY <1>1 DEF BackendVerdict, Verdict
  <2>2. Metric(e, id, "warn").severity = "warn"
    BY DEF Metric, Finding
  <2> QED
    BY <2>1, <2>2
<1>2. CASE ~SomeBackend(e, pg[id], bad)
  BY <1>2, NoBadBackend
<1> QED
  BY <1>1, <1>2

LEMMA PageJudged ==
    ASSUME World, NEW e \in Endpoints,
           ~Bad(PageFindings(config.endpoints[e], page[e], config.maxLatency))
    PROVE  GoodPage(e)
<1> DEFINE endpoint == config.endpoints[e]
           pg == page[e]
<1>1. CASE NoSeries(pg)
  <2>1. /\ pg["backend_probe_healthy"] = {} /\ pg["backend_in_sync"] = {}
        /\ pg["backend_degraded"] = {} /\ pg["backend_banned"] = {} /\ pg["backend_error_rate"] = {}
    BY <1>1 DEF NoSeries, Metrics, BackendGauges
  <2> QED
    BY <2>1 DEF GoodPage
<1>2. CASE ~NoSeries(pg)
  <2>1. BackendHealthFindings(endpoint, pg) \cup ErrorFindings(endpoint, pg)
          \subseteq PageFindings(endpoint, pg, config.maxLatency)
    BY <1>2 DEF PageFindings, NativeFindings
  <2>2. \A f \in BackendHealthFindings(endpoint, pg) \cup ErrorFindings(endpoint, pg) :
            f.severity # "warn"
    BY <2>1 DEF Bad
  <2>3. /\ BackendVerdict(endpoint, pg, "backend_probe_healthy", NotOne).severity # "warn"
        /\ BackendVerdict(endpoint, pg, "backend_degraded", Positive).severity # "warn"
        /\ BackendVerdict(endpoint, pg, "backend_banned", Positive).severity # "warn"
    BY <2>2 DEF BackendHealthFindings
  <2>4. BackendVerdict(endpoint, pg, "backend_error_rate", Positive).severity # "warn"
    BY <2>2 DEF ErrorFindings
  <2>5. pg["backend_in_sync"] = {} \/ ~SomeBackend(endpoint, pg["backend_in_sync"], NotOne)
    <3> SUFFICES ASSUME pg["backend_in_sync"] # {}, SomeBackend(endpoint, pg["backend_in_sync"], NotOne)
                 PROVE  FALSE
      OBVIOUS
    <3>1. Metric(endpoint, "backend_in_sync", "warn") \in BackendHealthFindings(endpoint, pg)
      BY DEF BackendHealthFindings
    <3>2. Metric(endpoint, "backend_in_sync", "warn").severity = "warn"
      BY DEF Metric, Finding
    <3> QED
      BY <2>2, <3>1, <3>2
  <2> SUFFICES ASSUME NEW b \in ToSet(endpoint.backends)
               PROVE  /\ \A s \in pg["backend_probe_healthy"] \cup pg["backend_in_sync"] :
                            s.backend = b => s.value = 1
                      /\ \A s \in pg["backend_degraded"] \cup pg["backend_banned"]
                                  \cup pg["backend_error_rate"] :
                            s.backend = b => s.value = 0
    BY DEF GoodPage
  <2>6. \A id \in BackendGauges : \A s \in pg[id] : s.value \in Nat
    BY DeploymentTypes
  <2>7. ASSUME NEW s \in pg["backend_probe_healthy"], s.backend = b PROVE s.value = 1
    BY <2>3, <2>6, <2>7, BackendJudged DEF NotOne, BackendGauges
  <2>8. ASSUME NEW s \in pg["backend_in_sync"], s.backend = b PROVE s.value = 1
    <3>1. ~SomeBackend(endpoint, pg["backend_in_sync"], NotOne)
      BY <2>5, <2>8
    <3>2. s.value \notin NotOne
      BY <2>8, <3>1, NoBadBackend
    <3> QED
      BY <2>6, <2>8, <3>2 DEF NotOne, BackendGauges
  <2>9. ASSUME NEW s \in pg["backend_degraded"], s.backend = b PROVE s.value = 0
    BY <2>3, <2>6, <2>9, BackendJudged DEF Positive, BackendGauges
  <2>10. ASSUME NEW s \in pg["backend_banned"], s.backend = b PROVE s.value = 0
    BY <2>3, <2>6, <2>10, BackendJudged DEF Positive, BackendGauges
  <2>11. ASSUME NEW s \in pg["backend_error_rate"], s.backend = b PROVE s.value = 0
    BY <2>4, <2>6, <2>11, BackendJudged DEF Positive, BackendGauges
  <2> QED
    BY <2>7, <2>8, <2>9, <2>10, <2>11
<1> QED
  BY <1>1, <1>2

LEMMA BadEmitted ==
    ASSUME NEW f, f.severity \in {"warn", "fail"}, NEW fs, f \in fs, Emit(fs)
    PROVE  Bad(findings')
BY DEF Emit, Bad

\* The count of the roles is over the entries of the list.
LEMMA SourcesCounted == RoleCount({"source"}) = Cardinality(SourceEntries(Endpoint))
<1>1. {b \in 1 .. Len(Backends) : Known(Backends[b]) /\ Node(Named(Backends[b])).role \in {"source"}}
        = SourceEntries(Endpoint)
  BY DEF SourceEntries, Backends
<1> QED
  BY <1>1 DEF RoleCount

\* What the end of an endpoint reports, if it reports nothing bad.
LEMMA EndJudged ==
    ASSUME Types, LagInv, EndEndpoint, ~Bad(findings'), probe # {},
           Backends # <<>> => BackendHeads # {}
    PROVE  /\ Backends # <<>> /\ Compared(k, findings')
           /\ \A p \in ReadBackends : <<k, p>> \in tracked
           /\ Endpoint.role = "deriver" => Cardinality(SourceEntries(Endpoint)) >= 2
<1>1. Backends # <<>>
  <2> SUFFICES ASSUME Backends = <<>> PROVE FALSE
    OBVIOUS
  <2>1. Emit({Proxyd("backends", "warn", NoSample)})
    BY DEF EndEndpoint
  <2>2. Proxyd("backends", "warn", NoSample).severity = "warn"
    BY DEF Proxyd, Finding
  <2> QED
    BY <2>1, <2>2, BadEmitted
<1>2. Emit(BackendRoleFindings \cup HeadLagFindings \cup {Proxyd("backends", "ok", NoSample)})
  BY <1>1 DEF EndEndpoint
<1>3. Compared(k, findings') /\ \A p \in ReadBackends : <<k, p>> \in tracked
  <2>1. PICK lag \in Nat :
           HeadLagFindings =
             {Proxyd("head_lag", IF lag > config.maxSafeLag THEN "warn" ELSE "ok",
                     <<"lag_blocks", lag>>)}
    BY <1>1, HeadLagVerdict
  <2>2. PICK f \in HeadLagFindings :
           f = Proxyd("head_lag", IF lag > config.maxSafeLag THEN "warn" ELSE "ok",
                      <<"lag_blocks", lag>>)
    BY <2>1
  <2>3. /\ f.id = <<"proxyd", config.endpoints[k].name, "head_lag">>
        /\ f.severity \in {"ok", "warn"} /\ f.sample[1] = "lag_blocks"
    BY <2>2 DEF Proxyd, Finding, Endpoint
  <2>4. f \in findings'
    BY <1>2, <2>2 DEF Emit
  <2>5. f.severity = "ok"
    BY <2>3, <2>4 DEF Bad
  <2>6. Compared(k, findings')
    BY <2>3, <2>4, <2>5 DEF Compared
  <2>7. \A p \in ReadBackends : <<k, p>> \in tracked
    BY <2>2, <2>3, <2>5, GoodVerdictMeansTracked
  <2> QED
    BY <2>6, <2>7
<1>4. ASSUME Endpoint.role = "deriver"
      PROVE  Cardinality(SourceEntries(Endpoint)) >= 2
  <2>1. Proxyd("backend_roles", IF RoleCount({"source"}) >= 2 THEN "ok" ELSE "warn", NoSample)
          \in BackendRoleFindings
    BY <1>4 DEF BackendRoleFindings
  <2>2. RoleCount({"source"}) >= 2
    <3> SUFFICES ASSUME ~(RoleCount({"source"}) >= 2) PROVE FALSE
      OBVIOUS
    <3>1. Proxyd("backend_roles", "warn", NoSample) \in BackendRoleFindings
      BY <2>1
    <3>2. Proxyd("backend_roles", "warn", NoSample).severity = "warn"
      BY DEF Proxyd, Finding
    <3> QED
      BY <1>2, <3>1, <3>2, BadEmitted
  <2> QED
    BY <2>2, SourcesCounted
<1> QED
  BY <1>1, <1>3, <1>4

LEMMA NextWarnAt ==
    ASSUME Types, LagInv, WarnGateInv, Doctor
    PROVE  WarnAt(phase', k', j', probe', readable', findings', tracked)
<1>1. /\ World /\ DoctorsAt(phase, k, j, probe, readable)
      /\ Len(config.endpoints) \in Nat /\ k \in 1 .. Len(config.endpoints) + 1
      /\ phase \in AtEndpoint => k \in Endpoints
      /\ findings \subseteq findings'
  BY EmitsGraded, DeploymentTypes DEF Types, Doctors, DoctorsAt
<1> SUFFICES ASSUME ~Bad(findings')
             PROVE  WarnAt(phase', k', j', probe', readable', findings', tracked)
  BY DEF WarnAt
<1>2. /\ phase # "start" /\ config.enabled => config.endpoints # <<>>
      /\ \A e \in Endpoints : e < k => Passed(e, findings', tracked)
      /\ phase \in AtEndpoint => Declared(k)
      /\ phase \in {"metrics", "backends"} => probe # {} /\ Has(findings', k, "head", "ok")
      /\ phase = "backends" => Scanned(k, findings')
      /\ phase = "backends" =>
            \A b \in 1 .. j - 1 : LET name == config.endpoints[k].backends[b] IN
                Reads(name) /\ readable[name] # {} /\ HeadRead(k, name, findings')
  <2>1. /\ \A e : Passed(e, findings, tracked) => Passed(e, findings', tracked)
        /\ \A e, part, severity : Has(findings, e, part, severity) => Has(findings', e, part, severity)
        /\ \A e : Scanned(e, findings) => Scanned(e, findings')
        /\ \A e, name : HeadRead(e, name, findings) => HeadRead(e, name, findings')
    BY <1>1, PassedStays
  <2>2. ~Bad(findings)
    BY <1>1, BadStays
  <2> QED
    BY <2>1, <2>2 DEF WarnGateInv, WarnAt
<1>3. CASE Start
  <2> DEFINE none == Finding(<<"proxyd", "endpoints">>, "warn", <<"proxyd">>, NoSample)
  <2>1. none.severity = "warn"
    BY DEF Finding
  <2>2. ~Emit({none})
    BY <2>1, BadEmitted
  <2>3. /\ UNCHANGED <<k, j, probe, readable>> /\ phase = "start" /\ phase' \in {"done", "endpoint"}
        /\ config.enabled => config.endpoints # <<>>
    BY <1>3, <2>2 DEF Start
  <2> QED
    BY <1>2, <2>3 DEF WarnAt, AtEndpoint
<1>4. CASE BeginEndpoint
  <2>1. /\ UNCHANGED <<k, j, probe, readable>> /\ phase = "endpoint" /\ k \in Endpoints
        /\ phase' = IF Endpoint.rpc THEN "chainId" ELSE "metrics"
        /\ Emit({ConsensusIntentFinding} \cup When(~Endpoint.rpc, ProxydRPC("rpc", "warn")))
    BY <1>4 DEF BeginEndpoint
  <2>2. ASSUME ~Endpoint.rpc PROVE FALSE
    <3>1. ProxydRPC("rpc", "warn") \in When(~Endpoint.rpc, ProxydRPC("rpc", "warn"))
      BY <2>2 DEF When
    <3>2. ProxydRPC("rpc", "warn").severity = "warn"
      BY DEF ProxydRPC, Finding
    <3> QED
      BY <2>1, <3>1, <3>2, BadEmitted
  <2>3. ASSUME Endpoint.role = "deriver", ~Endpoint.aware PROVE FALSE
    <3>1. ConsensusIntentFinding.severity = "warn"
      BY <2>3 DEF ConsensusIntentFinding, Proxyd, Finding
    <3> QED
      BY <2>1, <3>1, BadEmitted
  <2>4. Declared(k) /\ phase' = "chainId"
    BY <2>1, <2>2, <2>3 DEF Declared, Endpoint
  <2> QED
    BY <1>2, <2>1, <2>4 DEF WarnAt, AtEndpoint
<1>5. CASE ChainID
  <2>1. ProxydRPC("rpc", "fail").severity = "fail"
    BY DEF ProxydRPC, Finding
  <2>2. ~Emit({ProxydRPC("rpc", "fail")})
    BY <2>1, BadEmitted
  <2>3. UNCHANGED <<k, j, probe, readable>> /\ phase = "chainId" /\ phase' = "head"
    BY <1>5, <2>2 DEF ChainID
  <2> QED
    BY <1>2, <2>3 DEF WarnAt, AtEndpoint
<1>6. CASE BlockNumber
  <2>1. ProxydRPC("head", "fail").severity = "fail"
    BY DEF ProxydRPC, Finding
  <2>2. ~Emit({ProxydRPC("head", "fail")})
    BY <2>1, BadEmitted
  <2>3. UNCHANGED <<k, j, readable>> /\ phase = "head" /\ phase' = "metrics" /\ probe' # {}
        /\ Emit({ProxydRPC("head", "ok")})
    BY <1>6, <2>2 DEF BlockNumber
  <2>4. Has(findings', k, "head", "ok")
    BY <2>3, RPCSaid
  <2> QED
    BY <1>2, <2>3, <2>4 DEF WarnAt, AtEndpoint
<1>7. CASE Scrape
  <2>1. Metric(Endpoint, "metrics", "warn").severity = "warn"
    BY DEF Metric, Finding
  <2>2. ~Emit({Metric(Endpoint, "metrics", "warn")})
    BY <2>1, BadEmitted
  <2>3. /\ UNCHANGED <<k, j, probe, readable>> /\ phase = "metrics" /\ phase' = "backends"
        /\ Endpoint.metrics /\ Emit(PageFindings(Endpoint, page[k], config.maxLatency))
    BY <1>7, <2>2 DEF Scrape
  <2>4. k \in Endpoints /\ j = 1
    BY <1>1, <2>3 DEF DoctorsAt, AtEndpoint
  <2>5. ~Bad(PageFindings(Endpoint, page[k], config.maxLatency))
    BY <2>3, BadStays DEF Emit
  <2>6. GoodPage(k)
    BY <1>1, <2>4, <2>5, PageJudged DEF Endpoint
  <2>7. page[k].up \subseteq {1}
    BY <2>5, DownIsReported DEF Bad, FailIn
  <2>8. Has(findings', k, "metrics", "ok")
    <3>1. /\ Metric(Endpoint, "metrics", "ok") \in PageFindings(Endpoint, page[k], config.maxLatency)
          /\ Metric(Endpoint, "metrics", "ok").id = <<"proxyd", Endpoint.name, "metrics">>
          /\ Metric(Endpoint, "metrics", "ok").severity = "ok"
      BY DEF PageFindings, Metric, Finding
    <3> QED
      BY <2>3, <3>1, Said
  <2>9. Scanned(k, findings')
    BY <2>3, <2>6, <2>7, <2>8 DEF Scanned, Endpoint
  <2>10. ~\E b \in 1 .. j - 1 : TRUE
    BY <2>4
  <2> QED
    BY <1>2, <2>3, <2>10, <2>9 DEF WarnAt, AtEndpoint
<1>8. CASE Backend
  <2> DEFINE name == Backends[j]
  <2>1. /\ UNCHANGED <<phase, k, probe>> /\ phase = "backends" /\ j' = j + 1 /\ k \in Endpoints
        /\ j \in 1 .. Len(Backends)
    BY <1>8, BackendStep
  <2>2. UnknownBackend(name).severity = "fail" /\ BackendFinding(name, "warn").severity = "warn"
    BY DEF UnknownBackend, BackendFinding, Finding
  <2>3. ~Emit({UnknownBackend(name)}) /\ ~Emit({BackendFinding(name, "warn")})
    BY <2>2, BadEmitted
  <2>4. /\ Reads(name) /\ readable' = [readable EXCEPT ![name] = {head[Named(name)]}]
        /\ Emit({BackendFinding(name, "ok")})
    BY <1>8, <2>3, BackendStep DEF Reads
  <2>5. DOMAIN readable = Names /\ j \in Nat
    BY <1>1, <2>1, DeploymentTypes DEF DoctorsAt, Backends, Endpoint
  <2>6. HeadRead(k, name, findings')
    <3>1. /\ BackendFinding(name, "ok").id
               = <<"proxyd", config.endpoints[k].name, "backend", name, "head">>
          /\ BackendFinding(name, "ok").severity = "ok"
      BY DEF BackendFinding, Finding, Endpoint
    <3>2. BackendFinding(name, "ok") \in findings'
      BY <2>4 DEF Emit
    <3> QED
      BY <3>1, <3>2 DEF HeadRead
  <2>7. ASSUME NEW b \in 1 .. j' - 1
        PROVE  Reads(Backends[b]) /\ readable'[Backends[b]] # {} /\ HeadRead(k, Backends[b], findings')
    <3>1. b = j \/ b \in 1 .. j - 1
      BY <2>1, <2>5
    <3>2. /\ Reads(Backends[b]) /\ (b = j \/ readable[Backends[b]] # {})
          /\ HeadRead(k, Backends[b], findings')
      BY <1>2, <2>1, <2>4, <2>6, <3>1 DEF Backends, Endpoint
    <3>3. Backends[b] \in Names
      BY <1>1, <3>2, NamedExists DEF Reads
    <3> QED
      BY <2>4, <2>5, <3>2, <3>3
  <2> QED
    BY <1>2, <2>1, <2>7 DEF WarnAt, AtEndpoint, Backends, Endpoint
<1>9. CASE EndEndpoint
  <2>1. /\ phase = "backends" /\ phase' = "endpoint" /\ k' = k + 1 /\ j > Len(Backends)
    BY <1>9 DEF EndEndpoint
  <2>2. /\ k \in Endpoints /\ j \in 1 .. Len(Backends) + 1 /\ Len(Backends) \in Nat
        /\ Backends \in Seq(STRING)
    BY <1>1, <2>1, DeploymentTypes DEF DoctorsAt, AtEndpoint, Backends, Endpoint
  <2>3. \A b \in 1 .. Len(Backends) :
          /\ Reads(Backends[b]) /\ readable[Backends[b]] # {}
          /\ HeadRead(k, Backends[b], findings')
    <3>1. j - 1 = Len(Backends)
      BY <2>1, <2>2
    <3> QED
      BY <1>2, <2>1, <3>1 DEF Backends, Endpoint
  <2>4. Backends # <<>> => BackendHeads # {}
    <3> SUFFICES ASSUME Backends # <<>> PROVE BackendHeads # {}
      OBVIOUS
    <3>1. Reads(Backends[1]) /\ readable[Backends[1]] # {}
      BY <2>2, <2>3
    <3>2. Backends[1] \in Names
      BY <1>1, <3>1, NamedExists DEF Reads
    <3> QED
      BY <3>1, <3>2 DEF BackendHeads
  <2>5. /\ Backends # <<>> /\ Compared(k, findings')
        /\ \A p \in ReadBackends : <<k, p>> \in tracked
        /\ Endpoint.role = "deriver" => Cardinality(SourceEntries(Endpoint)) >= 2
    BY <1>2, <1>9, <2>1, <2>4, EndJudged
  <2>6. ASSUME NEW b \in ToSet(Backends)
        PROVE  Reads(b) /\ HeadRead(k, b, findings') /\ <<k, Named(b)>> \in tracked
    <3>1. Reads(b) /\ readable[b] # {} /\ HeadRead(k, b, findings')
      BY <2>2, <2>3, <2>6 DEF ToSet
    <3>2. Named(b) \in Deployed /\ Node(Named(b)).name = b
      BY <1>1, <3>1, NamedExists DEF Reads
    <3>3. Named(b) \in ReadBackends
      BY <3>1, <3>2 DEF ReadBackends
    <3> QED
      BY <2>5, <3>1, <3>3
  <2>7. Passed(k, findings', tracked)
    BY <1>2, <2>1, <2>5, <2>6 DEF Passed, Backends, Endpoint, AtEndpoint
  <2>8. ASSUME NEW e \in Endpoints, e < k'
        PROVE  Passed(e, findings', tracked)
    <3>1. e < k \/ e = k
      BY <2>1, <2>2, <2>8 DEF Endpoints
    <3> QED
      BY <1>2, <2>7, <3>1
  <2> QED
    BY <1>2, <2>1, <2>8 DEF WarnAt, AtEndpoint
<1>10. CASE Return
  <2>1. UNCHANGED <<k, j, probe, readable>> /\ phase = "endpoint" /\ phase' = "done"
    BY <1>10 DEF Return
  <2> QED
    BY <1>2, <2>1 DEF WarnAt, AtEndpoint
<1> QED
  BY <1>3, <1>4, <1>5, <1>6, <1>7, <1>8, <1>9, <1>10 DEF Doctor

LEMMA InitWarnGate ==
    ASSUME Init
    PROVE  WarnGateInv
<1>1. phase = "start" /\ k = 1
  BY DEF Init
<1>2. ~\E e \in Endpoints : e < k
  BY <1>1 DEF Endpoints
<1> QED
  BY <1>1, <1>2 DEF WarnGateInv, WarnAt, AtEndpoint

LEMMA NextWarnGate ==
    ASSUME Types, LagInv, WarnGateInv, [Next]_vars
    PROVE  WarnGateInv'
<1>1. CASE Doctor
  <2>1. UNCHANGED <<config, page, tracked>>
    BY <1>1, DoctorCalls DEF world
  <2>2. WarnAt(phase', k', j', probe', readable', findings', tracked')
    BY <1>1, <2>1, NextWarnAt
  <2> QED
    BY <2>1, <2>2, WarnGateStands
<1>2. CASE Fleet \/ UNCHANGED vars
  <2>1. UNCHANGED <<config, page, phase, k, j, probe, readable, findings>> /\ tracked \subseteq tracked'
    BY <1>2, FleetStep DEF Types, doctor, vars, world
  <2>2. \A e : Passed(e, findings, tracked) => Passed(e, findings, tracked')
    BY <2>1, PassedStays
  <2>3. WarnAt(phase, k, j, probe, readable, findings, tracked')
    BY <2>2 DEF WarnGateInv, WarnAt
  <2>4. WarnAt(phase', k', j', probe', readable', findings', tracked')
    BY <2>1, <2>3
  <2> QED
    BY <2>1, <2>4, WarnGateStands
<1> QED
  BY <1>1, <1>2 DEF Next

(***************************************************************************)
(* The gate of --fail-on warn is sound: exit code 0 means that every       *)
(* endpoint was scraped, that the head of each of its backends was read    *)
(* and once was not too far ahead of it, that two entries of a deriver are *)
(* sources, and that no series of an expected backend says that it is in   *)
(* trouble.  That the heads were close at some moment is the invariant of  *)
(* NoMissedProxydLag, LagInv.                                              *)
(***************************************************************************)
THEOREM ProxydWarnGateIsSound == Spec => []WarnGateSound
<1>1. Init => Types /\ LagInv /\ WarnGateInv
  BY InitTypes, InitLag, InitWarnGate
<1>2. Types /\ LagInv /\ WarnGateInv /\ [Next]_vars => (Types /\ LagInv /\ WarnGateInv)'
  BY NextTypes, NextLag, NextWarnGate
<1>3. Types /\ WarnGateInv => WarnGateSound
  <2> SUFFICES ASSUME Types, WarnGateInv,
                      phase = "done", config.enabled, ExitCode(findings, "warn") = 0
               PROVE  /\ config.endpoints # <<>>
                      /\ \A e \in Endpoints : Passed(e, findings, tracked)
    BY DEF WarnGateSound, Passed, Declared, Scanned, Compared, GoodPage, Reads, Has, HeadRead, SaidOk
  <2>1. ~Bad(findings)
    BY ExitCodeWarn DEF Types, Graded
  <2>2. k \in 1 .. Len(config.endpoints) + 1 /\ k \notin Endpoints
    BY DEF Types, Doctors, DoctorsAt
  <2>3. Len(config.endpoints) \in Nat
    BY DeploymentTypes DEF Types
  <2>4. \A e \in Endpoints : e < k
    BY <2>2, <2>3 DEF Endpoints
  <2> QED
    BY <2>1, <2>4 DEF WarnGateInv, WarnAt
<1> QED
  BY <1>1, <1>2, <1>3, PTL DEF Spec

-----------------------------------------------------------------------------
(* Where findings come from *)

IntentSeverity(e) ==
    IF config.endpoints[e].aware THEN "ok"
    ELSE IF config.endpoints[e].role = "deriver" THEN "warn" ELSE "info"

\* The entries of expected_backends of endpoint e that name a node of these roles.
RoleEntries(e, roles) ==
    {b \in 1 .. Len(config.endpoints[e].backends) :
        Known(config.endpoints[e].backends[b])
        /\ Node(Named(config.endpoints[e].backends[b])).role \in roles}

Redundant(e) == Cardinality(RoleEntries(e, {"source"})) >= 2

\* Finding f, filed as part of the report on endpoint e, says this of it.
Judges(f, e, part) ==
    /\ part = "consensus_aware" => f.severity = IntentSeverity(e)
    /\ part = "backend_roles" /\ f.severity = "warn" =>
          config.endpoints[e].role = "deriver" /\ ~Redundant(e)
    /\ part = "backends" /\ f.severity = "warn" => config.endpoints[e].backends = <<>>
    /\ \/ f.sample = NoSample /\ (part = "head_lag" => f.severity # "warn")
       \/ /\ part = "head_lag"
          /\ \E lag \in Nat : /\ f.sample = <<"lag_blocks", lag>>
                              /\ f.severity = "warn" <=> lag > config.maxSafeLag

OfProxyd(f) ==
    /\ f.sample = NoSample
    /\ \/ f.id = <<"proxyd", "disabled">>
       \/ f.id = <<"proxyd", "endpoints">> /\ config.endpoints = <<>>

OfEndpoint(f) ==
    \E e \in Endpoints : \E part :
        f.id = <<"proxyd", config.endpoints[e].name, part>> /\ Judges(f, e, part)

OfBackend(f) ==
    /\ f.sample = NoSample
    /\ \E e \in Endpoints : \E name :
          f.id = <<"proxyd", config.endpoints[e].name, "backend", name, "head">>

OfUnknown(f) ==
    /\ f.sample = NoSample /\ f.severity = "fail"
    /\ \E e \in Endpoints : \E b \in 1 .. Len(config.endpoints[e].backends) :
          /\ ~Known(config.endpoints[e].backends[b])
          /\ f.id = <<"proxyd", config.endpoints[e].name, "backend", config.endpoints[e].backends[b]>>

Origin(f) == OfProxyd(f) \/ OfEndpoint(f) \/ OfBackend(f) \/ OfUnknown(f)

OriginInv == \A f \in findings : Origin(f)

LEMMA RolesCounted ==
    ASSUME NEW roles
    PROVE  RoleCount(roles) = Cardinality(RoleEntries(k, roles))
BY DEF RoleCount, RoleEntries, Backends, Endpoint

\* A finding without a sample about a part with no verdict of its own.
LEMMA PartOrigin ==
    ASSUME k \in Endpoints, NEW part, part \notin OwnParts, NEW f,
           f.id = <<"proxyd", Endpoint.name, part>>, f.sample = NoSample
    PROVE  Origin(f)
<1>1. Judges(f, k, part)
  BY DEF Judges, OwnParts
<1> QED
  BY <1>1 DEF Origin, OfEndpoint, Endpoint

LEMMA PageOrigin ==
    ASSUME k \in Endpoints, NEW fs, Metrical(Endpoint, fs), NEW f \in fs
    PROVE  Origin(f)
<1>1. PICK id : \E severity \in Severities : id \notin OwnParts /\ f = Metric(Endpoint, id, severity)
  BY DEF Metrical
<1>2. f.id = <<"proxyd", Endpoint.name, id>> /\ f.sample = NoSample /\ id \notin OwnParts
  BY <1>1 DEF Metric, Finding
<1> QED
  BY <1>2, PartOrigin

LEMMA RPCOrigin ==
    ASSUME k \in Endpoints, NEW severity, NEW part \in {"rpc", "chain_id", "head"}
    PROVE  Origin(ProxydRPC(part, severity))
<1> DEFINE f == ProxydRPC(part, severity)
<1>1. f.id = <<"proxyd", Endpoint.name, part>> /\ f.sample = NoSample /\ part \notin OwnParts
  BY DEF ProxydRPC, Finding, OwnParts
<1> HIDE DEF f
<1>2. Origin(f)
  BY <1>1, PartOrigin
<1> QED
  BY <1>2 DEF f

LEMMA StartOrigin ==
    ASSUME Start, NEW f \in findings' \ findings
    PROVE  Origin(f)
<1>1. CASE ~config.enabled
  <2>1. Emit({Finding(<<"proxyd", "disabled">>,
                      IF specializedTopologyConfigured THEN "warn" ELSE "info", <<"proxyd">>, NoSample)})
    BY <1>1 DEF Start
  <2>2. f = Finding(<<"proxyd", "disabled">>,
                    IF specializedTopologyConfigured THEN "warn" ELSE "info", <<"proxyd">>, NoSample)
    BY <2>1 DEF Emit
  <2> QED
    BY <2>2 DEF Finding, Origin, OfProxyd
<1>2. CASE config.enabled /\ config.endpoints = <<>>
  <2>1. f = Finding(<<"proxyd", "endpoints">>, "warn", <<"proxyd">>, NoSample)
    BY <1>2 DEF Start, Emit
  <2> QED
    BY <1>2, <2>1 DEF Finding, Origin, OfProxyd
<1>3. CASE config.enabled /\ config.endpoints # <<>>
  BY <1>3 DEF Start
<1> QED
  BY <1>1, <1>2, <1>3

LEMMA BeginOrigin ==
    ASSUME BeginEndpoint, NEW f \in findings' \ findings
    PROVE  Origin(f)
<1>1. k \in Endpoints /\ f \in {ConsensusIntentFinding} \cup When(~Endpoint.rpc, ProxydRPC("rpc", "warn"))
  BY DEF BeginEndpoint, Emit
<1>2. CASE f = ConsensusIntentFinding
  <2>1. /\ f.id = <<"proxyd", Endpoint.name, "consensus_aware">> /\ f.sample = NoSample
        /\ f.severity = IntentSeverity(k)
    BY <1>2 DEF ConsensusIntentFinding, Proxyd, Finding, IntentSeverity, Endpoint
  <2>2. Judges(f, k, "consensus_aware")
    BY <2>1 DEF Judges
  <2> QED
    BY <1>1, <2>1, <2>2 DEF Origin, OfEndpoint, Endpoint
<1>3. CASE f = ProxydRPC("rpc", "warn")
  BY <1>1, <1>3, RPCOrigin
<1> QED
  BY <1>1, <1>2, <1>3 DEF When

LEMMA EndOrigin ==
    ASSUME Types, EndEndpoint, NEW f \in findings' \ findings
    PROVE  Origin(f)
<1>1. k \in Endpoints
  BY DEF EndEndpoint, Types, Doctors, DoctorsAt, AtEndpoint
<1> SUFFICES ASSUME ~\E part : f.id = <<"proxyd", Endpoint.name, part>> /\ Judges(f, k, part)
             PROVE  FALSE
  BY <1>1 DEF Origin, OfEndpoint, Endpoint
<1>2. ASSUME Backends = <<>>
      PROVE  FALSE
  <2>1. f = Proxyd("backends", "warn", NoSample)
    BY <1>2 DEF EndEndpoint, Emit
  <2>2. f.id = <<"proxyd", Endpoint.name, "backends">> /\ f.sample = NoSample
    BY <2>1 DEF Proxyd, Finding
  <2>3. Judges(f, k, "backends")
    BY <1>2, <2>2 DEF Judges, Backends, Endpoint
  <2> QED
    BY <2>2, <2>3
<1>3. \/ f \in BackendRoleFindings \/ f \in HeadLagFindings \/ f = Proxyd("backends", "ok", NoSample)
  BY <1>2 DEF EndEndpoint, Emit
<1>4. ASSUME f = Proxyd("backends", "ok", NoSample)
      PROVE  FALSE
  <2>1. f.id = <<"proxyd", Endpoint.name, "backends">> /\ f.sample = NoSample /\ f.severity = "ok"
    BY <1>4 DEF Proxyd, Finding
  <2>2. Judges(f, k, "backends")
    BY <2>1 DEF Judges
  <2> QED
    BY <2>1, <2>2
<1>5. ASSUME f \in BackendRoleFindings
      PROVE  FALSE
  <2> DEFINE two == IF RoleCount({"source"}) >= 2 THEN "ok" ELSE "warn"
             some == IF RoleCount({"light", "sequencer"}) > 0 THEN "ok" ELSE "info"
  <2>1. BackendRoleFindings =
          CASE Endpoint.role = "deriver" -> {Proxyd("backend_roles", two, NoSample)}
            [] Endpoint.role = "edge" -> {Proxyd("backend_roles", some, NoSample)}
            [] OTHER -> {}
    BY DEF BackendRoleFindings
  <2>2. /\ some # "warn"
        /\ two = "warn" => ~Redundant(k)
    BY RolesCounted DEF Redundant
  <2> HIDE DEF two, some
  <2>3. \/ Endpoint.role = "deriver" /\ f = Proxyd("backend_roles", two, NoSample)
        \/ f = Proxyd("backend_roles", some, NoSample)
    BY <1>5, <2>1
  <2>4. f.id = <<"proxyd", Endpoint.name, "backend_roles">> /\ f.sample = NoSample
    BY <2>3 DEF Proxyd, Finding
  <2>5. f.severity = "warn" => Endpoint.role = "deriver" /\ ~Redundant(k)
    BY <2>2, <2>3 DEF Proxyd, Finding
  <2>6. Judges(f, k, "backend_roles")
    BY <2>4, <2>5 DEF Judges, Endpoint
  <2> QED
    BY <2>4, <2>6
<1>6. ASSUME f \in HeadLagFindings
      PROVE  FALSE
  <2>1. ASSUME f = Proxyd("head_lag", "info", NoSample)
        PROVE  FALSE
    <3>1. f.id = <<"proxyd", Endpoint.name, "head_lag">> /\ f.sample = NoSample /\ f.severity = "info"
      BY <2>1 DEF Proxyd, Finding
    <3>2. Judges(f, k, "head_lag")
      BY <3>1 DEF Judges
    <3> QED
      BY <3>1, <3>2
  <2>2. PICK lag \in Nat :
          f = Proxyd("head_lag", IF lag > config.maxSafeLag THEN "warn" ELSE "ok", <<"lag_blocks", lag>>)
    BY <1>6, <2>1, HeadLagVerdict
  <2>3. /\ f.id = <<"proxyd", Endpoint.name, "head_lag">> /\ f.sample = <<"lag_blocks", lag>>
        /\ f.severity = IF lag > config.maxSafeLag THEN "warn" ELSE "ok"
    BY <2>2 DEF Proxyd, Finding
  <2>4. f.severity = "warn" <=> lag > config.maxSafeLag
    BY <2>3
  <2>5. Judges(f, k, "head_lag")
    BY <2>3, <2>4 DEF Judges
  <2> QED
    BY <2>3, <2>5
<1> QED
  BY <1>3, <1>4, <1>5, <1>6

LEMMA NewOrigin ==
    ASSUME Types, Doctor, NEW f \in findings' \ findings
    PROVE  Origin(f)
<1>1. phase \in AtEndpoint => k \in Endpoints
  BY DEF Types, Doctors, DoctorsAt
<1>2. CASE Start
  BY <1>2, StartOrigin
<1>3. CASE BeginEndpoint
  BY <1>3, BeginOrigin
<1>4. CASE ChainID
  <2>1. k \in Endpoints
    BY <1>1, <1>4 DEF ChainID, AtEndpoint
  <2>2. \E severity, part : part \in {"chain_id", "rpc"} /\ f = ProxydRPC(part, severity)
    BY <1>4 DEF ChainID, Emit
  <2> QED
    BY <2>1, <2>2, RPCOrigin
<1>5. CASE BlockNumber
  <2>1. k \in Endpoints
    BY <1>1, <1>5 DEF BlockNumber, AtEndpoint
  <2>2. f = ProxydRPC("head", "ok") \/ f = ProxydRPC("head", "fail")
    BY <1>5 DEF BlockNumber, Emit
  <2> QED
    BY <2>1, <2>2, RPCOrigin
<1>6. CASE Scrape
  <2>1. k \in Endpoints
    BY <1>1, <1>6 DEF Scrape, AtEndpoint
  <2>2. \/ Emit({Metric(Endpoint, "metrics", "warn")})
        \/ Emit(PageFindings(Endpoint, page[k], config.maxLatency))
    BY <1>6 DEF Scrape
  <2>3. Metrical(Endpoint, {Metric(Endpoint, "metrics", "warn")})
    BY MetricalOne DEF Severities, OwnParts
  <2>4. \E fs : Metrical(Endpoint, fs) /\ f \in fs
    BY <2>2, <2>3, PageMetrical DEF Emit
  <2> QED
    BY <2>1, <2>4, PageOrigin
<1>7. CASE Backend
  <2> DEFINE name == Backends[j]
  <2>1. k \in Endpoints /\ j \in 1 .. Len(Backends)
    BY <1>7, BackendStep
  <2>2. \/ ~Known(name) /\ Emit({UnknownBackend(name)})
        \/ Emit({BackendFinding(name, "warn")}) \/ Emit({BackendFinding(name, "ok")})
    BY <1>7, BackendStep
  <2>3. \/ ~Known(name) /\ f = UnknownBackend(name)
        \/ f = BackendFinding(name, "warn") \/ f = BackendFinding(name, "ok")
    BY <2>2 DEF Emit
  <2>4. CASE ~Known(name) /\ f = UnknownBackend(name)
    <3>1. /\ f.id = <<"proxyd", Endpoint.name, "backend", name>> /\ f.sample = NoSample
          /\ f.severity = "fail" /\ ~Known(name)
      BY <2>4 DEF UnknownBackend, Finding
    <3>2. OfUnknown(f)
      BY <2>1, <3>1 DEF OfUnknown, Endpoint, Backends
    <3> QED
      BY <3>2 DEF Origin
  <2>5. CASE f = BackendFinding(name, "warn") \/ f = BackendFinding(name, "ok")
    <3>1. /\ f.id = <<"proxyd", Endpoint.name, "backend", name, "head">> /\ f.sample = NoSample
      BY <2>5 DEF BackendFinding, Finding
    <3>2. OfBackend(f)
      BY <2>1, <3>1 DEF OfBackend, Endpoint
    <3> QED
      BY <3>2 DEF Origin
  <2> QED
    BY <2>3, <2>4, <2>5
<1>8. CASE EndEndpoint
  BY <1>8, EndOrigin
<1>9. CASE Return
  BY <1>9 DEF Return
<1> QED
  BY <1>2, <1>3, <1>4, <1>5, <1>6, <1>7, <1>8, <1>9 DEF Doctor

LEMMA OriginStands ==
    ASSUME UNCHANGED config, \A f \in findings' : Origin(f)
    PROVE  OriginInv'
<1>1. Deployed' = Deployed /\ Endpoints' = Endpoints /\ \A p : Node(p)' = Node(p)
  BY DEF Deployed, Endpoints, Node
<1>2. \A name : (Known(name)' <=> Known(name)) /\ Named(name)' = Named(name)
  BY <1>1 DEF Known, Named
<1>3. \A e, roles : RoleEntries(e, roles)' = RoleEntries(e, roles)
  BY <1>1, <1>2 DEF RoleEntries
<1>4. \A e : (Redundant(e)' <=> Redundant(e)) /\ IntentSeverity(e)' = IntentSeverity(e)
  BY <1>3 DEF Redundant, IntentSeverity
<1>5. \A f, e, part : Judges(f, e, part)' <=> Judges(f, e, part)
  BY <1>4 DEF Judges
<1>6. \A f : OfUnknown(f)' <=> OfUnknown(f)
  BY <1>1, <1>2 DEF OfUnknown
<1>7. \A f : Origin(f) => Origin(f)'
  BY <1>1, <1>5, <1>6 DEF Origin, OfProxyd, OfEndpoint, OfBackend
<1> QED
  BY <1>7 DEF OriginInv

LEMMA NextOrigin ==
    ASSUME Types, OriginInv, [Next]_vars
    PROVE  OriginInv'
<1>1. CASE Doctor
  <2>1. UNCHANGED config
    BY <1>1, DoctorCalls DEF world
  <2>2. \A f \in findings' : Origin(f)
    BY <1>1, NewOrigin DEF OriginInv
  <2> QED
    BY <2>1, <2>2, OriginStands
<1>2. CASE Fleet \/ UNCHANGED vars
  <2>1. UNCHANGED <<config, findings>>
    BY <1>2, FleetStep DEF Types, doctor, vars, world
  <2> QED
    BY <2>1, OriginStands DEF OriginInv
<1> QED
  BY <1>1, <1>2 DEF Next

-----------------------------------------------------------------------------
(* What is said of every endpoint *)

RightChain(e) == config.chainId \in {0, chain[e]}

Unhealthy(e, fs) == \E part \in {"rpc", "head", "chain_id"} : Has(fs, e, part, "fail")

Begun(e, fs) == Has(fs, e, "consensus_aware", IntentSeverity(e))

Told(e, fs) ==
    config.endpoints[e].rpc => Unhealthy(e, fs) \/ (RightChain(e) /\ Has(fs, e, "head", "ok"))

Scraped(e, fs) ==
    \/ Has(fs, e, "metrics", "warn")
    \/ config.endpoints[e].metrics /\ Has(fs, e, "metrics", "ok")

Weighed(e, fs) ==
    /\ config.endpoints[e].backends = <<>> => Has(fs, e, "backends", "warn")
    /\ config.endpoints[e].backends # <<>> /\ config.endpoints[e].role = "deriver" =>
          Has(fs, e, "backend_roles", IF Redundant(e) THEN "ok" ELSE "warn")

(***************************************************************************)
(* The endpoints passed have all their findings, the one at hand those of  *)
(* the calls it has behind it, and so has an empty list of endpoints.      *)
(***************************************************************************)
SaidAt(ph, kk, fs) ==
    /\ config.enabled /\ config.endpoints = <<>> /\ ph # "start" =>
          HasFinding(fs, <<"proxyd", "endpoints">>)
    /\ \A e \in Endpoints : e < kk =>
          Begun(e, fs) /\ Told(e, fs) /\ Scraped(e, fs) /\ Weighed(e, fs)
    /\ ph \in AtEndpoint => Begun(kk, fs)
    /\ ph = "head" => RightChain(kk) \/ Unhealthy(kk, fs)
    /\ ph \in {"metrics", "backends"} => Told(kk, fs)
    /\ ph = "backends" => Scraped(kk, fs)

SaidInv == SaidAt(phase, k, findings)

LEMMA SaidStays ==
    ASSUME NEW S, NEW T, S \subseteq T
    PROVE  /\ \A e, part, severity : Has(S, e, part, severity) => Has(T, e, part, severity)
           /\ \A e : Unhealthy(e, S) => Unhealthy(e, T)
           /\ \A e : Begun(e, S) => Begun(e, T)
           /\ \A e : Told(e, S) => Told(e, T)
           /\ \A e : Scraped(e, S) => Scraped(e, T)
           /\ \A e : Weighed(e, S) => Weighed(e, T)
           /\ \A ph, kk : SaidAt(ph, kk, S) => SaidAt(ph, kk, T)
<1>1. \A e, part, severity : Has(S, e, part, severity) => Has(T, e, part, severity)
  BY DEF Has
<1>2. /\ \A e : Unhealthy(e, S) => Unhealthy(e, T)
      /\ \A e : Begun(e, S) => Begun(e, T)
  BY <1>1 DEF Unhealthy, Begun
<1>3. \A e : Told(e, S) => Told(e, T)
  BY <1>1, <1>2 DEF Told
<1>4. \A e : Scraped(e, S) => Scraped(e, T)
  BY <1>1 DEF Scraped
<1>5. \A e : Weighed(e, S) => Weighed(e, T)
  BY <1>1 DEF Weighed
<1>6. HasFinding(S, <<"proxyd", "endpoints">>) => HasFinding(T, <<"proxyd", "endpoints">>)
  BY DEF HasFinding
<1>7. \A ph, kk : SaidAt(ph, kk, S) => SaidAt(ph, kk, T)
  BY <1>2, <1>3, <1>4, <1>5, <1>6 DEF SaidAt
<1> QED
  BY <1>1, <1>2, <1>3, <1>4, <1>5, <1>7

LEMMA ScrapeSaid ==
    ASSUME Scrape
    PROVE  Scraped(k, findings')
<1>1. \A severity : /\ Metric(Endpoint, "metrics", severity).id = <<"proxyd", Endpoint.name, "metrics">>
                    /\ Metric(Endpoint, "metrics", severity).severity = severity
  BY DEF Metric, Finding
<1>2. CASE Emit({Metric(Endpoint, "metrics", "warn")})
  BY <1>1, <1>2, Said DEF Scraped
<1>3. CASE Endpoint.metrics /\ Emit(PageFindings(Endpoint, page[k], config.maxLatency))
  <2>1. Metric(Endpoint, "metrics", "ok") \in PageFindings(Endpoint, page[k], config.maxLatency)
    BY DEF PageFindings
  <2>2. Has(findings', k, "metrics", "ok")
    BY <1>1, <1>3, <2>1, Said
  <2> QED
    BY <1>3, <2>2 DEF Scraped, Endpoint
<1> QED
  BY <1>2, <1>3 DEF Scrape

LEMMA EndSaid ==
    ASSUME EndEndpoint
    PROVE  Weighed(k, findings')
<1>1. \A part, severity : /\ Proxyd(part, severity, NoSample).id = <<"proxyd", Endpoint.name, part>>
                          /\ Proxyd(part, severity, NoSample).severity = severity
  BY DEF Proxyd, Finding
<1>2. ASSUME Backends = <<>>
      PROVE  Has(findings', k, "backends", "warn")
  <2>1. Emit({Proxyd("backends", "warn", NoSample)})
    BY <1>2 DEF EndEndpoint
  <2> QED
    BY <1>1, <2>1, Said
<1>3. ASSUME Backends # <<>>, Endpoint.role = "deriver"
      PROVE  Has(findings', k, "backend_roles", IF Redundant(k) THEN "ok" ELSE "warn")
  <2> DEFINE two == IF RoleCount({"source"}) >= 2 THEN "ok" ELSE "warn"
  <2>1. Proxyd("backend_roles", two, NoSample) \in BackendRoleFindings
    BY <1>3 DEF BackendRoleFindings
  <2>2. Emit(BackendRoleFindings \cup HeadLagFindings \cup {Proxyd("backends", "ok", NoSample)})
    BY <1>3 DEF EndEndpoint
  <2>3. two = IF Redundant(k) THEN "ok" ELSE "warn"
    BY RolesCounted DEF Redundant
  <2> HIDE DEF two
  <2>4. Has(findings', k, "backend_roles", two)
    BY <1>1, <2>1, <2>2, Said
  <2> QED
    BY <2>3, <2>4
<1> QED
  BY <1>2, <1>3 DEF Weighed, Backends, Endpoint

LEMMA NextSaidAt ==
    ASSUME Types, SaidInv, Doctor
    PROVE  SaidAt(phase', k', findings')
<1>1. /\ k \in 1 .. Len(config.endpoints) + 1 /\ Len(config.endpoints) \in Nat
      /\ phase \in AtEndpoint => k \in Endpoints
      /\ SaidAt(phase, k, findings')
  BY EmitsGraded, DeploymentTypes, SaidStays DEF Types, Doctors, DoctorsAt, SaidInv
<1>2. CASE Start
  <2>1. /\ UNCHANGED k /\ phase = "start" /\ phase' \in {"done", "endpoint"}
    BY <1>2 DEF Start
  <2>2. ASSUME config.enabled, config.endpoints = <<>>
        PROVE  HasFinding(findings', <<"proxyd", "endpoints">>)
    <3>1. Emit({Finding(<<"proxyd", "endpoints">>, "warn", <<"proxyd">>, NoSample)})
      BY <1>2, <2>2 DEF Start
    <3>2. Finding(<<"proxyd", "endpoints">>, "warn", <<"proxyd">>, NoSample).id = <<"proxyd", "endpoints">>
      BY DEF Finding
    <3> QED
      BY <3>1, <3>2 DEF Emit, HasFinding
  <2> QED
    BY <1>1, <2>1, <2>2 DEF SaidAt, AtEndpoint
<1>3. CASE BeginEndpoint
  <2>1. /\ UNCHANGED k /\ phase = "endpoint" /\ k \in Endpoints
        /\ phase' = IF Endpoint.rpc THEN "chainId" ELSE "metrics"
        /\ Emit({ConsensusIntentFinding} \cup When(~Endpoint.rpc, ProxydRPC("rpc", "warn")))
    BY <1>3 DEF BeginEndpoint
  <2>2. /\ ConsensusIntentFinding.id = <<"proxyd", Endpoint.name, "consensus_aware">>
        /\ ConsensusIntentFinding.severity = IntentSeverity(k)
    BY DEF ConsensusIntentFinding, Proxyd, Finding, IntentSeverity, Endpoint
  <2>3. Begun(k, findings')
    BY <2>1, <2>2, Said DEF Begun
  <2>4. phase' = "metrics" => Told(k, findings')
    BY <2>1 DEF Told, Endpoint
  <2> QED
    BY <1>1, <2>1, <2>3, <2>4 DEF SaidAt, AtEndpoint
<1>4. CASE ChainID
  <2>1. UNCHANGED k /\ phase = "chainId"
    BY <1>4 DEF ChainID
  <2>2. CASE /\ phase' = "head"
             /\ Emit({ProxydRPC("chain_id",
                        IF config.chainId # 0 /\ chain[k] # config.chainId THEN "fail" ELSE "ok")})
    <3>1. RightChain(k) \/ Unhealthy(k, findings')
      <4>1. CASE config.chainId # 0 /\ chain[k] # config.chainId
        BY <2>2, <4>1, RPCSaid DEF Unhealthy
      <4>2. CASE ~(config.chainId # 0 /\ chain[k] # config.chainId)
        BY <4>2 DEF RightChain
      <4> QED
        BY <4>1, <4>2
    <3> QED
      BY <1>1, <2>1, <2>2, <3>1 DEF SaidAt, AtEndpoint
  <2>3. CASE phase' = "metrics" /\ Emit({ProxydRPC("rpc", "fail")})
    <3>1. Told(k, findings')
      BY <2>3, RPCSaid DEF Told, Unhealthy
    <3> QED
      BY <1>1, <2>1, <2>3, <3>1 DEF SaidAt, AtEndpoint
  <2> QED
    BY <1>4, <2>2, <2>3 DEF ChainID
<1>5. CASE BlockNumber
  <2>1. UNCHANGED k /\ phase = "head" /\ phase' = "metrics"
    BY <1>5 DEF BlockNumber
  <2>2. Emit({ProxydRPC("head", "ok")}) \/ Emit({ProxydRPC("head", "fail")})
    BY <1>5 DEF BlockNumber
  <2>3. Has(findings', k, "head", "ok") \/ Unhealthy(k, findings')
    BY <2>2, RPCSaid DEF Unhealthy
  <2>4. Told(k, findings')
    BY <1>1, <2>1, <2>3 DEF SaidAt, Told
  <2> QED
    BY <1>1, <2>1, <2>4 DEF SaidAt, AtEndpoint
<1>6. CASE Scrape
  <2>1. UNCHANGED k /\ phase = "metrics" /\ phase' = "backends"
    BY <1>6 DEF Scrape
  <2> QED
    BY <1>1, <1>6, <2>1, ScrapeSaid DEF SaidAt, AtEndpoint
<1>7. CASE Backend
  <2>1. UNCHANGED <<phase, k>>
    BY <1>7, BackendStep
  <2> QED
    BY <1>1, <2>1
<1>8. CASE EndEndpoint
  <2>1. /\ phase = "backends" /\ phase' = "endpoint" /\ k' = k + 1
    BY <1>8 DEF EndEndpoint
  <2>2. Weighed(k, findings')
    BY <1>8, EndSaid
  <2>3. ASSUME NEW e \in Endpoints, e < k'
        PROVE  Begun(e, findings') /\ Told(e, findings') /\ Scraped(e, findings') /\ Weighed(e, findings')
    <3>1. e < k \/ e = k
      BY <1>1, <2>1, <2>3 DEF Endpoints
    <3>2. Begun(k, findings') /\ Told(k, findings') /\ Scraped(k, findings')
      BY <1>1, <2>1 DEF SaidAt, AtEndpoint
    <3> QED
      BY <1>1, <2>2, <3>1, <3>2 DEF SaidAt
  <2> QED
    BY <1>1, <2>1, <2>3 DEF SaidAt, AtEndpoint
<1>9. CASE Return
  <2>1. UNCHANGED k /\ phase = "endpoint" /\ phase' = "done"
    BY <1>9 DEF Return
  <2> QED
    BY <1>1, <2>1 DEF SaidAt, AtEndpoint
<1> QED
  BY <1>2, <1>3, <1>4, <1>5, <1>6, <1>7, <1>8, <1>9 DEF Doctor

LEMMA SaidStands ==
    ASSUME UNCHANGED <<config, chain>>, SaidAt(phase', k', findings')
    PROVE  SaidInv'
<1>1. Deployed' = Deployed /\ Endpoints' = Endpoints /\ \A p : Node(p)' = Node(p)
  BY DEF Deployed, Endpoints, Node
<1>2. \A name : (Known(name)' <=> Known(name)) /\ Named(name)' = Named(name)
  BY <1>1 DEF Known, Named
<1>3. \A e, roles : RoleEntries(e, roles)' = RoleEntries(e, roles)
  BY <1>1, <1>2 DEF RoleEntries
<1>4. \A e : (Redundant(e)' <=> Redundant(e)) /\ IntentSeverity(e)' = IntentSeverity(e)
  BY <1>3 DEF Redundant, IntentSeverity
<1>5. \A e, part, severity : Has(findings, e, part, severity)' <=> Has(findings', e, part, severity)
  BY DEF Has
<1>6. \A e : Begun(e, findings)' <=> Begun(e, findings')
  BY <1>4, <1>5 DEF Begun
<1>7. \A e : (Unhealthy(e, findings)' <=> Unhealthy(e, findings')) /\ (RightChain(e)' <=> RightChain(e))
  BY <1>5 DEF Unhealthy, RightChain
<1>8. \A e : Told(e, findings)' <=> Told(e, findings')
  BY <1>5, <1>7 DEF Told
<1>9. \A e : Scraped(e, findings)' <=> Scraped(e, findings')
  BY <1>5 DEF Scraped
<1>10. \A e : Weighed(e, findings)' <=> Weighed(e, findings')
  BY <1>4, <1>5 DEF Weighed
<1>11. SaidAt(phase, k, findings)' <=> SaidAt(phase', k', findings')
  BY <1>1, <1>6, <1>7, <1>8, <1>9, <1>10 DEF SaidAt
<1> QED
  BY <1>11 DEF SaidInv

LEMMA InitSaid ==
    ASSUME Init
    PROVE  SaidInv
<1>1. phase = "start" /\ k = 1
  BY DEF Init
<1>2. ~\E e \in Endpoints : e < k
  BY <1>1 DEF Endpoints
<1> QED
  BY <1>1, <1>2 DEF SaidInv, SaidAt, AtEndpoint

LEMMA NextSaid ==
    ASSUME Types, SaidInv, [Next]_vars
    PROVE  SaidInv'
<1>1. CASE Doctor
  <2>1. UNCHANGED <<config, chain>>
    BY <1>1, DoctorCalls DEF world
  <2> QED
    BY <1>1, <2>1, NextSaidAt, SaidStands
<1>2. CASE Fleet \/ UNCHANGED vars
  <2>1. UNCHANGED <<config, chain, phase, k, findings>>
    BY <1>2, FleetStep DEF Types, doctor, vars, world
  <2>2. SaidAt(phase', k', findings')
    BY <2>1 DEF SaidInv
  <2> QED
    BY <2>1, <2>2, SaidStands
<1> QED
  BY <1>1, <1>2 DEF Next

-----------------------------------------------------------------------------
(* The two judges *)

LEMMA DeriverIssuesFinite ==
    ASSUME NEW endpoints, IsFiniteSet(DOMAIN endpoints)
    PROVE  IsFiniteSet(DeriverIssues(endpoints))
<1> DEFINE A == {e \in DOMAIN endpoints : endpoints[e].role = "deriver" /\ ~endpoints[e].aware}
           B == {e \in DOMAIN endpoints : endpoints[e].role = "deriver" /\ Len(endpoints[e].backends) < 2}
           a == [e \in A |-> EndpointIssue("warn", e, "consensus_aware")]
           b == [e \in B |-> EndpointIssue("warn", e, "expected_backends")]
<1>1. IsFiniteSet(A) /\ IsFiniteSet(B)
  BY FS_Subset
<1>2. IsFiniteSet(IssuesAt(A, a)) /\ IsFiniteSet(IssuesAt(B, b))
  BY <1>1, IssuesFinite
<1>3. DeriverIssues(endpoints) = IssuesAt(A, a) \cup IssuesAt(B, b)
  BY DEF DeriverIssues, IssuesAt
<1> QED
  BY <1>2, <1>3, FS_Union

LEMMA BackendIssuesFinite ==
    ASSUME NEW nodes, NEW n \in Nat, NEW endpoints, DOMAIN endpoints = 1 .. n,
           \A e \in 1 .. n : /\ Len(endpoints[e].backends) \in Nat
                             /\ DOMAIN endpoints[e].backends = 1 .. Len(endpoints[e].backends)
    PROVE  IsFiniteSet(BackendIssues(nodes, endpoints))
<1> DEFINE verdict(e, i) ==
             ExpectedBackendVerdict(nodes, endpoints[e].role, endpoints[e].backends[i])
           entries == UNION {{e} \X DOMAIN endpoints[e].backends : e \in DOMAIN endpoints}
           S == {y \in entries : verdict(y[1], y[2]) # ""}
           issue == [x \in S |-> Issue(verdict(x[1], x[2]),
                                       <<"proxyd.endpoints", x[1], "expected_backends", x[2]>>)]
<1>1. PICK top \in Nat : \A e \in 1 .. n : Len(endpoints[e].backends) <= top
  <2> DEFINE g == [e \in 1 .. n |-> Len(endpoints[e].backends)]
  <2>1. g \in [1 .. n -> Nat]
    OBVIOUS
  <2> HIDE DEF g
  <2>2. Bounded(g, n)
    BY <2>1, SequenceBounded
  <2> QED
    BY <2>2 DEF Bounded, g
<1>2. entries \subseteq (1 .. n) \X (1 .. top)
  <2> SUFFICES ASSUME NEW e \in 1 .. n, NEW i \in DOMAIN endpoints[e].backends
               PROVE  <<e, i>> \in (1 .. n) \X (1 .. top)
    OBVIOUS
  <2>1. i \in 1 .. Len(endpoints[e].backends) /\ Len(endpoints[e].backends) <= top
    BY <1>1
  <2>2. i \in 1 .. top
    BY <1>1, <2>1
  <2> QED
    BY <2>2
<1> HIDE DEF entries
<1>3. IsFiniteSet((1 .. n) \X (1 .. top))
  <2>1. IsFiniteSet(1 .. n) /\ IsFiniteSet(1 .. top)
    BY <1>1, FS_Interval
  <2> QED
    BY <2>1, FS_Product
<1>4. IsFiniteSet(S)
  <2>1. S \subseteq (1 .. n) \X (1 .. top)
    BY <1>2
  <2> QED
    BY <1>3, <2>1, FS_Subset
<1>5. DOMAIN issue = S
  OBVIOUS
<1>6. IssuesAt(S, issue) = BackendIssues(nodes, endpoints)
  BY DEF IssuesAt, BackendIssues, entries
<1> HIDE DEF S, issue
<1> QED
  BY <1>4, <1>5, <1>6, IssuesFinite

\* What Validate says of op-nodes and proxyd.
Issues == OPNodeIssues(config.opNodes) \cup ProxydIssues(config.opNodes, config.endpoints)

LEMMA ListTypes ==
    ASSUME World
    PROVE  /\ DOMAIN config.opNodes = Deployed /\ DOMAIN config.endpoints = Endpoints
           /\ Len(config.opNodes) \in Nat /\ Len(config.endpoints) \in Nat
           /\ \A e \in Endpoints :
                 /\ Len(config.endpoints[e].backends) \in Nat
                 /\ DOMAIN config.endpoints[e].backends = 1 .. Len(config.endpoints[e].backends)
<1>1. /\ config \in ConfigType
      /\ \A e \in Endpoints : config.endpoints[e].backends \in Seq(STRING)
  BY DeploymentTypes
<1>2. config.opNodes \in Seq(NodeType) /\ config.endpoints \in Seq(EndpointType)
  BY <1>1 DEF ConfigType
<1> QED
  BY <1>1, <1>2 DEF Deployed, Endpoints

LEMMA ProxydIssuesFinite ==
    ASSUME World
    PROVE  IsFiniteSet(Issues)
<1> DEFINE none == When(config.endpoints = <<>>, Issue("warn", <<"proxyd.endpoints">>))
           names == NameIssues("proxyd.endpoints", config.endpoints)
           roles == RoleIssues("proxyd.endpoints", config.endpoints, validProxydRoles)
           derivers == DeriverIssues(config.endpoints)
           backends == BackendIssues(config.opNodes, config.endpoints)
           nodes == OPNodeIssues(config.opNodes)
<1>1. IsFiniteSet(DOMAIN config.opNodes) /\ IsFiniteSet(DOMAIN config.endpoints)
  BY ListTypes, FS_Interval DEF Deployed, Endpoints
<1>2. IsFiniteSet(none)
  BY FS_Singleton, FS_EmptySet DEF When
<1>3. IsFiniteSet(names) /\ IsFiniteSet(roles) /\ IsFiniteSet(derivers)
  BY <1>1, ListIssuesFinite, DeriverIssuesFinite
<1>4. IsFiniteSet(backends)
  BY ListTypes, BackendIssuesFinite DEF Endpoints
<1>5. IsFiniteSet(nodes)
  <2>1. /\ IsFiniteSet(NameIssues("op_nodes", config.opNodes))
        /\ IsFiniteSet(RoleIssues("op_nodes", config.opNodes, validRoles))
    BY <1>1, ListIssuesFinite
  <2> QED
    BY <2>1, FS_Union DEF OPNodeIssues
<1>6. Issues = nodes \cup (none \cup names \cup roles \cup derivers \cup backends)
  BY DEF Issues, ProxydIssues
<1> HIDE DEF none, names, roles, derivers, backends, nodes
<1>7. IsFiniteSet(none \cup names \cup roles)
  BY <1>2, <1>3, FS_Union
<1>8. IsFiniteSet(none \cup names \cup roles \cup derivers \cup backends)
  BY <1>3, <1>4, <1>7, FS_Union
<1> QED
  BY <1>5, <1>6, <1>8, FS_Union

\* The warnings of Validate.
LEMMA WarningsAre ==
    ASSUME NEW field, Issue("warn", field) \in Issues
    PROVE  \/ config.endpoints = <<>> /\ field = <<"proxyd.endpoints">>
           \/ \E e \in DOMAIN config.endpoints :
                 /\ config.endpoints[e].role = "deriver"
                 /\ \/ ~config.endpoints[e].aware /\ field = <<"proxyd.endpoints", e, "consensus_aware">>
                    \/ /\ Len(config.endpoints[e].backends) < 2
                       /\ field = <<"proxyd.endpoints", e, "expected_backends">>
           \/ \E e, i : field = <<"proxyd.endpoints", e, "expected_backends", i>>
<1> DEFINE f == Issue("warn", field)
           xs == config.endpoints
<1>1. f.severity = "warn"
  BY IssueFields
<1>2. ASSUME NEW list, NEW ys, NEW valid, f \in NameIssues(list, ys) \cup RoleIssues(list, ys, valid)
      PROVE  FALSE
  <2>1. \E where : f = Issue("fail", where)
    BY <1>2 DEF NameIssues, RoleIssues
  <2> QED
    BY <1>1, <2>1, IssueFields
<1>3. \/ f \in When(xs = <<>>, Issue("warn", <<"proxyd.endpoints">>))
      \/ f \in DeriverIssues(xs) \/ f \in BackendIssues(config.opNodes, xs)
  BY <1>2 DEF Issues, OPNodeIssues, ProxydIssues
<1>4. CASE f \in When(xs = <<>>, Issue("warn", <<"proxyd.endpoints">>))
  BY <1>4, IssuesDiffer DEF When
<1>5. CASE f \in DeriverIssues(xs)
  <2>1. PICK e \in DOMAIN xs :
            /\ xs[e].role = "deriver"
            /\ \/ ~xs[e].aware /\ f = EndpointIssue("warn", e, "consensus_aware")
               \/ Len(xs[e].backends) < 2 /\ f = EndpointIssue("warn", e, "expected_backends")
    BY <1>5 DEF DeriverIssues
  <2>2. \A part : f = EndpointIssue("warn", e, part) => field = <<"proxyd.endpoints", e, part>>
    BY IssuesDiffer DEF EndpointIssue
  <2> QED
    BY <2>1, <2>2
<1>6. CASE f \in BackendIssues(config.opNodes, xs)
  <2>1. PICK severity, e, i :
            f = Issue(severity, <<"proxyd.endpoints", e, "expected_backends", i>>)
    BY <1>6 DEF BackendIssues
  <2> QED
    BY <2>1, IssuesDiffer
<1> QED
  BY <1>3, <1>4, <1>5, <1>6

LEMMA DeriverWarnings ==
    ASSUME World
    PROVE  /\ Issue("warn", <<"proxyd.endpoints">>) \in Issues <=> config.endpoints = <<>>
           /\ \A e \in Derivers :
                 /\ Issue("warn", <<"proxyd.endpoints", e, "consensus_aware">>) \in Issues
                      <=> ~config.endpoints[e].aware
                 /\ Issue("warn", <<"proxyd.endpoints", e, "expected_backends">>) \in Issues
                      <=> Len(config.endpoints[e].backends) < 2
<1>1. DOMAIN config.endpoints = Endpoints
  BY ListTypes
<1>2. Issue("warn", <<"proxyd.endpoints">>) \in Issues => config.endpoints = <<>>
  <2> SUFFICES ASSUME Issue("warn", <<"proxyd.endpoints">>) \in Issues
               PROVE  config.endpoints = <<>>
    OBVIOUS
  <2>1. \A e, part : <<"proxyd.endpoints">> # <<"proxyd.endpoints", e, part>>
    OBVIOUS
  <2>2. \A e, i : <<"proxyd.endpoints">> # <<"proxyd.endpoints", e, "expected_backends", i>>
    OBVIOUS
  <2> QED
    BY <2>1, <2>2, WarningsAre
<1>3. config.endpoints = <<>> => Issue("warn", <<"proxyd.endpoints">>) \in Issues
  BY DEF Issues, ProxydIssues, When
<1>4. ASSUME NEW e \in Derivers
      PROVE  /\ Issue("warn", <<"proxyd.endpoints", e, "consensus_aware">>) \in Issues
                  <=> ~config.endpoints[e].aware
             /\ Issue("warn", <<"proxyd.endpoints", e, "expected_backends">>) \in Issues
                  <=> Len(config.endpoints[e].backends) < 2
  <2>1. e \in DOMAIN config.endpoints /\ config.endpoints[e].role = "deriver"
    BY <1>1 DEF Derivers
  <2>2. DeriverIssues(config.endpoints) \subseteq Issues
    BY DEF Issues, ProxydIssues
  <2>3. ~config.endpoints[e].aware =>
            Issue("warn", <<"proxyd.endpoints", e, "consensus_aware">>) \in Issues
    BY <2>1, <2>2 DEF DeriverIssues, EndpointIssue
  <2>4. Len(config.endpoints[e].backends) < 2 =>
            Issue("warn", <<"proxyd.endpoints", e, "expected_backends">>) \in Issues
    BY <2>1, <2>2 DEF DeriverIssues, EndpointIssue
  <2>5. \A part : <<"proxyd.endpoints", e, part>> # <<"proxyd.endpoints">>
    OBVIOUS
  <2>6. \A part, d, i : <<"proxyd.endpoints", e, part>> # <<"proxyd.endpoints", d, "expected_backends", i>>
    OBVIOUS
  <2>7. ASSUME Issue("warn", <<"proxyd.endpoints", e, "consensus_aware">>) \in Issues
        PROVE  ~config.endpoints[e].aware
    BY <2>5, <2>6, <2>7, WarningsAre
  <2>8. ASSUME Issue("warn", <<"proxyd.endpoints", e, "expected_backends">>) \in Issues
        PROVE  Len(config.endpoints[e].backends) < 2
    <3>1. \A d : <<"proxyd.endpoints", e, "expected_backends">> # <<"proxyd.endpoints", d, "consensus_aware">>
      OBVIOUS
    <3>2. PICK d \in DOMAIN config.endpoints :
              /\ Len(config.endpoints[d].backends) < 2
              /\ <<"proxyd.endpoints", e, "expected_backends">>
                   = <<"proxyd.endpoints", d, "expected_backends">>
      BY <2>5, <2>6, <2>8, <3>1, WarningsAre
    <3>3. d = e
      BY <3>2
    <3> QED
      BY <3>2, <3>3
  <2> QED
    BY <2>3, <2>4, <2>7, <2>8
<1> QED
  BY <1>2, <1>3, <1>4

\* What validate --fail-on fail demands of the endpoints.
LEMMA AcceptedEndpoints ==
    ASSUME World, Accepted(Issues)
    PROVE  /\ UniqueEndpoints
           /\ \A e \in Endpoints : \A i \in 1 .. Len(config.endpoints[e].backends) :
                 LET name == config.endpoints[e].backends[i] IN
                 /\ Known(name)
                 /\ config.endpoints[e].role = "deriver" => Node(Named(name)).role = "source"
<1>1. \A f \in Issues : f.severity # "fail"
  BY ProxydIssuesFinite, AcceptedMeans
<1>2. UniqueEndpoints
  <2>1. NameIssues("proxyd.endpoints", config.endpoints) \subseteq Issues
    BY DEF Issues, ProxydIssues
  <2>2. /\ \A f \in NameIssues("proxyd.endpoints", config.endpoints) : f.severity # "fail"
        /\ Len(config.endpoints) \in Nat /\ DOMAIN config.endpoints = 1 .. Len(config.endpoints)
    BY <1>1, <2>1, ListTypes DEF Endpoints
  <2> QED
    BY <2>2, NamesDiffer DEF UniqueEndpoints, Endpoints
<1>3. ASSUME NEW e \in Endpoints, NEW i \in 1 .. Len(config.endpoints[e].backends)
      PROVE  LET name == config.endpoints[e].backends[i] IN
                 /\ Known(name)
                 /\ config.endpoints[e].role = "deriver" => Node(Named(name)).role = "source"
  <2> DEFINE name == config.endpoints[e].backends[i]
             role == config.endpoints[e].role
             verdict == ExpectedBackendVerdict(config.opNodes, role, name)
             field == <<"proxyd.endpoints", e, "expected_backends", i>>
  <2>1. e \in DOMAIN config.endpoints /\ i \in DOMAIN config.endpoints[e].backends
    BY ListTypes
  <2>2. ASSUME verdict = "fail"
        PROVE  FALSE
    <3>1. Issue(verdict, field) \in BackendIssues(config.opNodes, config.endpoints)
      <4> DEFINE v(x, y) == ExpectedBackendVerdict(config.opNodes, config.endpoints[x].role,
                                                   config.endpoints[x].backends[y])
                 entries == UNION {{x} \X DOMAIN config.endpoints[x].backends :
                                      x \in DOMAIN config.endpoints}
      <4>1. <<e, i>> \in entries
        BY <2>1
      <4>2. v(e, i) = "fail" /\ v(e, i) = verdict
        BY <2>2
      <4> HIDE DEF entries, v, verdict
      <4>3. <<e, i>> \in {y \in entries : v(y[1], y[2]) # ""}
        BY <4>1, <4>2
      <4> DEFINE S == {y \in entries : v(y[1], y[2]) # ""}
                 issue(x) == Issue(v(x[1], x[2]),
                                   <<"proxyd.endpoints", x[1], "expected_backends", x[2]>>)
      <4>4. issue(<<e, i>>) = Issue(verdict, field)
        BY <4>2
      <4>5. {issue(x) : x \in S} = BackendIssues(config.opNodes, config.endpoints)
        BY DEF BackendIssues, entries, v
      <4> HIDE DEF S, issue
      <4>6. issue(<<e, i>>) \in {issue(x) : x \in S}
        BY <4>3 DEF S
      <4> QED
        BY <4>4, <4>5, <4>6
    <3>2. Issue(verdict, field) \in Issues
      BY <3>1 DEF Issues, ProxydIssues
    <3> QED
      BY <1>1, <2>2, <3>2, IssueFields
  <2>3. IsNamed(config.opNodes, name) <=> Known(name)
    BY ListTypes DEF IsNamed, Known, Node
  <2>4. RoleOfNamed(config.opNodes, name) = Node(Named(name)).role
    BY ListTypes DEF RoleOfNamed, Named, Node
  <2>5. Known(name)
    <3> SUFFICES ASSUME ~Known(name)
                 PROVE  verdict = "fail"
      BY <2>2
    <3> HIDE DEF name
    <3> QED
      BY <2>3 DEF ExpectedBackendVerdict
  <2>6. ASSUME role = "deriver"
        PROVE  Node(Named(name)).role = "source"
    BY <2>2, <2>3, <2>4, <2>5, <2>6 DEF ExpectedBackendVerdict
  <2> QED
    BY <2>5, <2>6
<1> QED
  BY <1>2, <1>3

\* What exit code 0 under --fail-on fail promises of endpoint e.
Promised(e) ==
    /\ config.endpoints[e].rpc =>
          /\ RightChain(e) /\ HasFinding(findings, <<"proxyd", config.endpoints[e].name, "head">>)
    /\ \A b \in ToSet(config.endpoints[e].backends) : Known(b)
    /\ HasFinding(findings, MetricsNames(e)) => page[e].up \subseteq {1}

(***************************************************************************)
(* check puts the findings of Validate first in its report, so its exit    *)
(* code is that of both.  If it is 0 under --fail-on fail, no two          *)
(* endpoints share a name, and all that FailGateSound promises holds, of   *)
(* every page that was scraped too.                                        *)
(***************************************************************************)
THEOREM ProxydReportIsSound ==
    Spec => [](phase = "done" /\ config.enabled
                 /\ ExitCode(ConfigFindings(Issues) \cup findings, "fail") = 0
               => UniqueEndpoints /\ \A e \in Endpoints : Promised(e))
<1> DEFINE report == ConfigFindings(Issues) \cup findings
           ReportSound == phase = "done" /\ config.enabled /\ ExitCode(report, "fail") = 0
                          => UniqueEndpoints /\ \A e \in Endpoints : Promised(e)
<1>1. Init => Types /\ FailGateInv
  BY InitTypes, InitFailGate
<1>2. Types /\ FailGateInv /\ [Next]_vars => (Types /\ FailGateInv)'
  BY NextTypes, NextFailGate
<1>3. Types /\ FailGateInv => ReportSound
  <2> SUFFICES ASSUME Types, FailGateInv, phase = "done", config.enabled,
                      ExitCode(report, "fail") = 0
               PROVE  UniqueEndpoints /\ \A e \in Endpoints : Promised(e)
    OBVIOUS
  <2>1. IsFiniteSet(Issues) /\ IsFiniteSet(findings)
    BY ProxydIssuesFinite DEF Types, Graded
  <2>2. IsFiniteSet(ConfigFindings(Issues))
    BY <2>1, FS_Singleton DEF ConfigFindings
  <2>3. ~FailIn(report)
    <3>1. IsFiniteSet(report) /\ ExitCode(report, "fail") = 0
      BY <2>1, <2>2, FS_Union
    <3> HIDE DEF report
    <3> QED
      BY <3>1, ExitCodeFail
  <2>4. Issues \subseteq report /\ findings \subseteq report
    BY DEF ConfigFindings
  <2>5. ~FailIn(Issues) /\ ~FailIn(findings)
    BY <2>3, <2>4 DEF FailIn
  <2> HIDE DEF report
  <2>6. Accepted(Issues) /\ ExitCode(findings, "fail") = 0
    <3>1. ExitCode(Issues, "fail") # 1 /\ ExitCode(findings, "fail") # 1
      BY <2>1, <2>5, ExitCodeFail
    <3>2. \A fs : ExitCode(fs, "fail") = IF Summarize(fs)["fail"] > 0 THEN 1 ELSE 0
      BY DEF ExitCode
    <3> QED
      BY <3>1, <3>2 DEF Accepted
  <2>7. UniqueEndpoints
    BY <2>6, AcceptedEndpoints DEF Types
  <2>8. FailGateSound
    BY FailGateHolds
  <2> QED
    BY <2>6, <2>7, <2>8 DEF FailGateSound, Promised, RightChain, MetricsNames
<1> QED
  BY <1>1, <1>2, <1>3, PTL DEF Spec

\* Two source entries are two entries; for an accepted deriver also the other way.
LEMMA RedundancyIsLength ==
    ASSUME World, NEW e \in Endpoints
    PROVE  /\ Redundant(e) => Len(config.endpoints[e].backends) >= 2
           /\ Accepted(Issues) /\ config.endpoints[e].role = "deriver" =>
                 (Redundant(e) <=> Len(config.endpoints[e].backends) >= 2)
<1> DEFINE n == Len(config.endpoints[e].backends)
           all == 1 .. n
           some == RoleEntries(e, {"source"})
<1>1. n \in Nat /\ n \in Int /\ 1 \in Int
  BY ListTypes
<1>2. IsFiniteSet(all) /\ Cardinality(all) = IF 1 > n THEN 0 ELSE n - 1 + 1
  <2> HIDE DEF n
  <2> QED
    BY <1>1, FS_Interval
<1>3. some \subseteq all
  BY DEF RoleEntries
<1>4. ASSUME Accepted(Issues), config.endpoints[e].role = "deriver"
      PROVE  some = all
  <2>1. \A i \in all : /\ Known(config.endpoints[e].backends[i])
                       /\ Node(Named(config.endpoints[e].backends[i])).role = "source"
    BY <1>4, AcceptedEndpoints
  <2> QED
    BY <2>1 DEF RoleEntries
<1> HIDE DEF n, all, some
<1>5. IsFiniteSet(some) /\ Cardinality(some) <= Cardinality(all)
  BY <1>2, <1>3, FS_Subset
<1>6. Cardinality(some) \in Nat
  BY <1>5, FS_CardinalityType
<1>7. Redundant(e) <=> Cardinality(some) >= 2
  BY DEF Redundant, some
<1>8. Redundant(e) => n >= 2
  BY <1>1, <1>2, <1>5, <1>6, <1>7
<1>9. some = all => (Redundant(e) <=> n >= 2)
  BY <1>1, <1>2, <1>7
<1> QED
  BY <1>4, <1>8, <1>9 DEF n

\* A finding about a part of endpoint e, if no other endpoint has its name.
LEMMA OriginOfPart ==
    ASSUME OriginInv, UniqueEndpoints, NEW e \in Endpoints, NEW part, NEW f \in findings,
           f.id = <<"proxyd", config.endpoints[e].name, part>>
    PROVE  Judges(f, e, part)
<1>1. Origin(f)
  BY DEF OriginInv
<1>2. ~OfProxyd(f) /\ ~OfBackend(f) /\ ~OfUnknown(f)
  BY DEF OfProxyd, OfBackend, OfUnknown
<1>3. PICK d \in Endpoints :
          \E p : f.id = <<"proxyd", config.endpoints[d].name, p>> /\ Judges(f, d, p)
  BY <1>1, <1>2 DEF Origin, OfEndpoint
<1>4. d = e
  BY <1>3 DEF UniqueEndpoints
<1> QED
  BY <1>3, <1>4

LEMMA UnknownOrigin ==
    ASSUME OriginInv, NEW e \in Endpoints, NEW b,
           HasFinding(findings, <<"proxyd", config.endpoints[e].name, "backend", b>>)
    PROVE  \E d \in Endpoints : \E i \in 1 .. Len(config.endpoints[d].backends) :
               ~Known(config.endpoints[d].backends[i])
<1>1. PICK f \in findings : f.id = <<"proxyd", config.endpoints[e].name, "backend", b>>
  BY DEF HasFinding
<1>2. ~OfProxyd(f) /\ ~OfBackend(f) /\ ~OfEndpoint(f)
  BY <1>1 DEF OfProxyd, OfBackend, OfEndpoint
<1> QED
  BY <1>2 DEF OriginInv, Origin, OfUnknown

\* At the end every endpoint has been passed.
LEMMA AllSaid ==
    ASSUME Types, SaidInv, phase = "done", config.enabled, NEW e \in Endpoints
    PROVE  /\ Begun(e, findings) /\ Told(e, findings)
           /\ Scraped(e, findings) /\ Weighed(e, findings)
<1>1. k \in 1 .. Len(config.endpoints) + 1 /\ k \notin Endpoints /\ Len(config.endpoints) \in Nat
  BY DeploymentTypes DEF Types, Doctors, DoctorsAt
<1>2. e < k
  BY <1>1 DEF Endpoints
<1> QED
  BY <1>2 DEF SaidInv, SaidAt

LEMMA JudgesOfDeriverAgree ==
    ASSUME Types, OriginInv, SaidInv, phase = "done", config.enabled,
           Accepted(Issues), NEW e \in Derivers
    PROVE  /\ EndpointFinding(e, "consensus_aware", "warn") <=> ~config.endpoints[e].aware
           /\ (EndpointFinding(e, "backend_roles", "warn") \/ EndpointFinding(e, "backends", "warn"))
                <=> Len(config.endpoints[e].backends) < 2
<1>1. e \in Endpoints /\ config.endpoints[e].role = "deriver" /\ World
  BY DEF Derivers, Types
<1>2. UniqueEndpoints
  BY <1>1, AcceptedEndpoints
<1>3. Begun(e, findings) /\ Weighed(e, findings)
  BY <1>1, AllSaid
<1>4. \A part, severity : EndpointFinding(e, part, severity) <=> Has(findings, e, part, severity)
  BY DEF EndpointFinding, Has
<1>5. ~config.endpoints[e].aware => IntentSeverity(e) = "warn"
  BY <1>1 DEF IntentSeverity
<1>6. ~config.endpoints[e].aware => EndpointFinding(e, "consensus_aware", "warn")
  BY <1>3, <1>4, <1>5 DEF Begun
<1>7. ASSUME EndpointFinding(e, "consensus_aware", "warn")
      PROVE  ~config.endpoints[e].aware
  <2>1. PICK f \in findings : /\ f.id = <<"proxyd", config.endpoints[e].name, "consensus_aware">>
                              /\ f.severity = "warn"
    BY <1>7 DEF EndpointFinding
  <2>2. Judges(f, e, "consensus_aware")
    BY <1>1, <1>2, <2>1, OriginOfPart
  <2> QED
    BY <2>1, <2>2 DEF Judges, IntentSeverity
<1>8. Redundant(e) <=> Len(config.endpoints[e].backends) >= 2
  BY <1>1, RedundancyIsLength
<1>9. Len(config.endpoints[e].backends) \in Nat
  BY <1>1, ListTypes
<1>10. ASSUME EndpointFinding(e, "backend_roles", "warn")
       PROVE  Len(config.endpoints[e].backends) < 2
  <2>1. PICK f \in findings : /\ f.id = <<"proxyd", config.endpoints[e].name, "backend_roles">>
                              /\ f.severity = "warn"
    BY <1>10 DEF EndpointFinding
  <2>2. Judges(f, e, "backend_roles")
    BY <1>1, <1>2, <2>1, OriginOfPart
  <2>3. ~Redundant(e)
    BY <2>1, <2>2 DEF Judges
  <2> QED
    BY <1>8, <1>9, <2>3
<1>11. ASSUME EndpointFinding(e, "backends", "warn")
       PROVE  Len(config.endpoints[e].backends) < 2
  <2>1. PICK f \in findings : /\ f.id = <<"proxyd", config.endpoints[e].name, "backends">>
                              /\ f.severity = "warn"
    BY <1>11 DEF EndpointFinding
  <2>2. Judges(f, e, "backends")
    BY <1>1, <1>2, <2>1, OriginOfPart
  <2>3. config.endpoints[e].backends = <<>>
    BY <2>1, <2>2 DEF Judges
  <2> QED
    BY <2>3
<1>12. ASSUME Len(config.endpoints[e].backends) < 2
       PROVE  EndpointFinding(e, "backend_roles", "warn") \/ EndpointFinding(e, "backends", "warn")
  <2>1. ~Redundant(e)
    BY <1>8, <1>9, <1>12
  <2> QED
    BY <1>1, <1>3, <1>4, <2>1 DEF Weighed
<1> QED
  BY <1>6, <1>7, <1>10, <1>11, <1>12

(***************************************************************************)
(* Validate and the check agree: on a configuration that validate accepts, *)
(* a finished run knows every backend, and it warns of derivers and of an  *)
(* empty list of endpoints exactly as Validate does.                       *)
(***************************************************************************)
THEOREM ProxydJudgesAgree == Spec => []ValidationAgreesWithProxyd
<1>1. Init => Types /\ OriginInv /\ SaidInv
  BY InitTypes, InitSaid DEF OriginInv, Init
<1>2. Types /\ OriginInv /\ SaidInv /\ [Next]_vars => (Types /\ OriginInv /\ SaidInv)'
  BY NextTypes, NextOrigin, NextSaid
<1>3. Types /\ OriginInv /\ SaidInv => ValidationAgreesWithProxyd
  <2> SUFFICES ASSUME Types, OriginInv, SaidInv, phase = "done", config.enabled, Accepted(Issues)
               PROVE  /\ \A e \in Endpoints, b \in Names \cup {"unknown"} :
                            ~HasFinding(findings, <<"proxyd", config.endpoints[e].name, "backend", b>>)
                      /\ \A e \in Derivers :
                            /\ EndpointFinding(e, "consensus_aware", "warn")
                                 <=> Issue("warn", <<"proxyd.endpoints", e, "consensus_aware">>) \in Issues
                            /\ (EndpointFinding(e, "backend_roles", "warn")
                                   \/ EndpointFinding(e, "backends", "warn"))
                                 <=> Issue("warn", <<"proxyd.endpoints", e, "expected_backends">>) \in Issues
                      /\ HasFinding(findings, <<"proxyd", "endpoints">>)
                           <=> Issue("warn", <<"proxyd.endpoints">>) \in Issues
    BY DEF ValidationAgreesWithProxyd, Issues
  <2>1. World
    BY DEF Types
  <2>2. ASSUME NEW e \in Endpoints, NEW b,
               HasFinding(findings, <<"proxyd", config.endpoints[e].name, "backend", b>>)
        PROVE  FALSE
    BY <2>1, <2>2, UnknownOrigin, AcceptedEndpoints
  <2>3. \A e \in Derivers :
            /\ EndpointFinding(e, "consensus_aware", "warn")
                 <=> Issue("warn", <<"proxyd.endpoints", e, "consensus_aware">>) \in Issues
            /\ (EndpointFinding(e, "backend_roles", "warn") \/ EndpointFinding(e, "backends", "warn"))
                 <=> Issue("warn", <<"proxyd.endpoints", e, "expected_backends">>) \in Issues
    BY <2>1, JudgesOfDeriverAgree, DeriverWarnings
  <2>4. HasFinding(findings, <<"proxyd", "endpoints">>) <=> config.endpoints = <<>>
    <3>1. ASSUME HasFinding(findings, <<"proxyd", "endpoints">>)
          PROVE  config.endpoints = <<>>
      <4>1. PICK f \in findings : f.id = <<"proxyd", "endpoints">>
        BY <3>1 DEF HasFinding
      <4>2. ~OfEndpoint(f) /\ ~OfBackend(f) /\ ~OfUnknown(f)
        BY <4>1 DEF OfEndpoint, OfBackend, OfUnknown
      <4> QED
        BY <4>1, <4>2 DEF OriginInv, Origin, OfProxyd
    <3>2. config.endpoints = <<>> => HasFinding(findings, <<"proxyd", "endpoints">>)
      BY DEF SaidInv, SaidAt
    <3> QED
      BY <3>1, <3>2
  <2> QED
    BY <2>1, <2>2, <2>3, <2>4, DeriverWarnings
<1> QED
  BY <1>1, <1>2, <1>3, PTL DEF Spec

-----------------------------------------------------------------------------
(* The alerts *)

\* Validate rejects an endpoint without a name.
NamesGiven == \A e \in Endpoints : config.endpoints[e].name # ""

\* What generate alerts reads of the configuration.
AlertsConfig ==
    [chain |-> "op", maxHeadLag |-> 0, maxSafeLag |-> config.maxSafeLag,
     proxyd |-> {<<config.endpoints[e].name>> : e \in Endpoints} \ {<<"">>},
     followers |-> {}]

Page == RenderPrometheus(findings, "op")

LagRule(name) ==
    GaugeRule("ProxydHeadLaggingBackends", "proxyd_head_lag_blocks", "op", <<name>>,
              <<">", config.maxSafeLag>>)

LEMMA AlarmsAre == Alarms = Instances(Alerts(AlertsConfig), Page)
BY DEF Alarms, AlertsConfig, Page

DeriverRule ==
    FindingRule("DeriverProxydNotConsensusAware", <<"proxyd">>, {"consensus_aware"}, "warn", 15)

\* Which rules carry the names of the two alerts that must not be loud without cause.
LEMMA RulesOfAlerts ==
    ASSUME NEW r \in Alerts(AlertsConfig)
    PROVE  /\ r.alert = "DeriverProxydNotConsensusAware" => r = DeriverRule
           /\ r.alert = "ProxydHeadLaggingBackends" =>
                 \E e \in Endpoints : r = LagRule(config.endpoints[e].name)
<1>1. \/ r \in ProxydFindingRules \/ r \in InteropFindingRules \/ r \in ExecutionRules(AlertsConfig)
      \/ r \in ProxydLagRules(AlertsConfig) \/ r \in FollowerRules(AlertsConfig)
  BY DEF Alerts
<1>2. ASSUME r \in ProxydFindingRules
      PROVE  \/ r = DeriverRule
             \/ r.alert \in {"ProxydEndpointUnhealthy", "ProxydMetricsUnavailable"}
  BY <1>2, FindingRuleFields DEF ProxydFindingRules, DeriverRule
<1>3. ASSUME r \in InteropFindingRules
      PROVE  r.alert \in {"DoctorInteropDependencyReadinessWarning",
                          "DoctorInteropSupervisorReadinessFailed",
                          "DoctorInteropSupervisorReadinessWarning",
                          "DoctorInteropMonitorReadinessFailed",
                          "DoctorInteropMonitorReadinessWarning"}
  BY <1>3, FindingRuleFields DEF InteropFindingRules
<1>4. ASSUME r \in ExecutionRules(AlertsConfig)
      PROVE  r.alert \in {"ExecutionCandidateLaggingReference", "ExecutionBlockComparisonMismatch",
                          "ExecutionRPCSurfaceMismatch"}
  BY <1>4, GaugeRuleFields DEF ExecutionRules
<1>5. ASSUME r \in ProxydLagRules(AlertsConfig)
      PROVE  /\ r.alert = "ProxydHeadLaggingBackends"
             /\ \E e \in Endpoints : r = LagRule(config.endpoints[e].name)
  <2>1. PICK n \in AlertsConfig.proxyd \ {<<>>} :
            r = GaugeRule("ProxydHeadLaggingBackends", "proxyd_head_lag_blocks", AlertsConfig.chain, n,
                          <<">", ProxydLagThreshold(AlertsConfig)>>)
    BY <1>5 DEF ProxydLagRules
  <2>2. /\ AlertsConfig.chain = "op" /\ ProxydLagThreshold(AlertsConfig) = config.maxSafeLag
        /\ AlertsConfig.proxyd = {<<config.endpoints[e].name>> : e \in Endpoints} \ {<<"">>}
    BY DEF AlertsConfig, ProxydLagThreshold
  <2>3. PICK e \in Endpoints : n = <<config.endpoints[e].name>>
    BY <2>1, <2>2
  <2>4. r = LagRule(config.endpoints[e].name)
    BY <2>1, <2>2, <2>3 DEF LagRule
  <2> QED
    BY <2>4, GaugeRuleFields DEF LagRule
<1>6. r \notin FollowerRules(AlertsConfig)
  <2>1. AlertsConfig.followers = {}
    BY DEF AlertsConfig
  <2> QED
    BY <2>1 DEF FollowerRules
<1>7. DeriverRule.alert = "DeriverProxydNotConsensusAware"
  BY FindingRuleFields DEF DeriverRule
<1> QED
  BY <1>1, <1>2, <1>3, <1>4, <1>5, <1>6, <1>7

LEMMA RulesGiven ==
    /\ ProxydFindingRules \subseteq Alerts(AlertsConfig)
    /\ \A e \in Endpoints :
          config.endpoints[e].name # "" => LagRule(config.endpoints[e].name) \in Alerts(AlertsConfig)
<1>1. ProxydFindingRules \subseteq Alerts(AlertsConfig)
  BY DEF Alerts
<1>2. ASSUME NEW e \in Endpoints, config.endpoints[e].name # ""
      PROVE  LagRule(config.endpoints[e].name) \in Alerts(AlertsConfig)
  <2>1. /\ AlertsConfig.chain = "op" /\ ProxydLagThreshold(AlertsConfig) = config.maxSafeLag
        /\ AlertsConfig.proxyd = {<<config.endpoints[d].name>> : d \in Endpoints} \ {<<"">>}
    BY DEF AlertsConfig, ProxydLagThreshold
  <2>2. <<config.endpoints[e].name>> \in AlertsConfig.proxyd \ {<<>>}
    BY <1>2, <2>1
  <2>3. LagRule(config.endpoints[e].name) \in ProxydLagRules(AlertsConfig)
    BY <2>1, <2>2 DEF ProxydLagRules, LagRule
  <2> QED
    BY <2>3 DEF Alerts
<1> QED
  BY <1>1, <1>2

\* A finding about a part of an endpoint that a rule on findings of proxyd selects.
LEMMA PartRaises ==
    ASSUME NEW e \in Endpoints, NEW part, NEW severity, Has(findings, e, part, severity),
           NEW r \in ProxydFindingRules, r.metric = "finding", r.scope = <<"proxyd">>,
           part \in r.names, r.severity = severity
    PROVE  \E x \in Alarms : x.alert = r.alert
<1>1. PICK f \in findings : /\ f.id = <<"proxyd", config.endpoints[e].name, part>>
                            /\ f.severity = severity
  BY DEF Has
<1>2. Selects(r, f)
  BY <1>1, SelectsThree
<1>3. r \in Alerts(AlertsConfig)
  BY RulesGiven
<1> QED
  BY <1>1, <1>2, <1>3, FindingRuleFires, AlarmsAre DEF Page

LEMMA QuietEndpointIsHealthy ==
    ASSUME NEW e \in Endpoints, ~\E x \in Alarms : x.alert = "ProxydEndpointUnhealthy",
           Told(e, findings), config.endpoints[e].rpc
    PROVE  RightChain(e) /\ EndpointFinding(e, "head", "ok")
<1> DEFINE r == FindingRule("ProxydEndpointUnhealthy", <<"proxyd">>, {"rpc", "head", "chain_id"}, "fail", 2)
<1>1. r \in ProxydFindingRules
  BY DEF ProxydFindingRules
<1>2. /\ r.alert = "ProxydEndpointUnhealthy" /\ r.metric = "finding" /\ r.scope = <<"proxyd">>
      /\ r.names = {"rpc", "head", "chain_id"} /\ r.severity = "fail"
  BY FindingRuleFields
<1> HIDE DEF r
<1>3. ~Unhealthy(e, findings)
  BY <1>1, <1>2, PartRaises DEF Unhealthy
<1> QED
  BY <1>3 DEF Told, Has, EndpointFinding

LEMMA QuietEndpointIsScraped ==
    ASSUME NEW e \in Endpoints, ~\E x \in Alarms : x.alert = "ProxydMetricsUnavailable",
           Scraped(e, findings)
    PROVE  config.endpoints[e].metrics /\ EndpointFinding(e, "metrics", "ok")
<1> DEFINE r == FindingRule("ProxydMetricsUnavailable", <<"proxyd">>, {"metrics"}, "warn", 10)
<1>1. r \in ProxydFindingRules
  BY DEF ProxydFindingRules
<1>2. /\ r.alert = "ProxydMetricsUnavailable" /\ r.metric = "finding" /\ r.scope = <<"proxyd">>
      /\ r.names = {"metrics"} /\ r.severity = "warn"
  BY FindingRuleFields
<1> HIDE DEF r
<1>3. ~Has(findings, e, "metrics", "warn")
  BY <1>1, <1>2, PartRaises
<1> QED
  BY <1>3 DEF Scraped, Has, EndpointFinding

LEMMA LoudDeriverIsUnaware ==
    ASSUME OriginInv, \E x \in Alarms : x.alert = "DeriverProxydNotConsensusAware"
    PROVE  \E e \in Derivers : ~config.endpoints[e].aware
<1>1. PICK r \in Alerts(AlertsConfig) : \E s \in Matching(r, Page) : r.alert = "DeriverProxydNotConsensusAware"
  BY AlarmsAre, InstanceOfRule
<1>2. r = DeriverRule
  BY <1>1, RulesOfAlerts
<1>3. /\ r.metric = "finding" /\ r.scope = <<"proxyd">>
      /\ r.names = {"consensus_aware"} /\ r.severity = "warn"
  BY <1>2, FindingRuleFields DEF DeriverRule
<1>4. PICK f \in findings : Selects(r, f)
  BY <1>1, <1>3, FindingRuleFired DEF Page
<1>5. Len(f.id) > 2 /\ f.id[Len(f.id)] = "consensus_aware" /\ f.severity = "warn"
  <2>1. Len(r.scope) = 1
    BY <1>3
  <2> QED
    BY <1>3, <1>4, <2>1 DEF Selects
<1>6. ~OfProxyd(f) /\ ~OfBackend(f) /\ ~OfUnknown(f)
  <2>1. ~OfProxyd(f)
    <3>1. Len(<<"proxyd", "disabled">>) = 2 /\ Len(<<"proxyd", "endpoints">>) = 2
      OBVIOUS
    <3> QED
      BY <1>5, <3>1 DEF OfProxyd
  <2>2. ~OfBackend(f)
    <3>1. ASSUME NEW name, NEW b, f.id = <<"proxyd", name, "backend", b, "head">>
          PROVE  FALSE
      <4>1. f.id[Len(f.id)] = "head"
        BY <3>1
      <4> QED
        BY <1>5, <4>1
    <3> QED
      BY <3>1 DEF OfBackend
  <2>3. ~OfUnknown(f)
    BY <1>5 DEF OfUnknown
  <2> QED
    BY <2>1, <2>2, <2>3
<1>7. PICK e \in Endpoints :
          \E part : f.id = <<"proxyd", config.endpoints[e].name, part>> /\ Judges(f, e, part)
  BY <1>6 DEF OriginInv, Origin, OfEndpoint
<1>8. Judges(f, e, "consensus_aware")
  BY <1>5, <1>7
<1>9. config.endpoints[e].role = "deriver" /\ ~config.endpoints[e].aware
  BY <1>5, <1>8 DEF Judges, IntentSeverity
<1> QED
  BY <1>9 DEF Derivers

LEMMA UnawareDeriverIsLoud ==
    ASSUME NEW e \in Derivers, ~config.endpoints[e].aware, Begun(e, findings)
    PROVE  \E x \in Alarms : x.alert = "DeriverProxydNotConsensusAware"
<1>1. DeriverRule \in ProxydFindingRules
  BY DEF ProxydFindingRules, DeriverRule
<1>2. /\ DeriverRule.alert = "DeriverProxydNotConsensusAware" /\ DeriverRule.metric = "finding"
      /\ DeriverRule.scope = <<"proxyd">> /\ DeriverRule.names = {"consensus_aware"}
      /\ DeriverRule.severity = "warn"
  BY FindingRuleFields DEF DeriverRule
<1>3. e \in Endpoints /\ Has(findings, e, "consensus_aware", "warn")
  BY DEF Derivers, Begun, IntentSeverity
<1> QED
  BY <1>1, <1>2, <1>3, PartRaises

LEMMA LagRuleFields ==
    ASSUME NEW name
    PROVE  /\ LagRule(name).alert = "ProxydHeadLaggingBackends"
           /\ LagRule(name).metric = "proxyd_head_lag_blocks" /\ LagRule(name).chain = "op"
           /\ LagRule(name).name = <<name>> /\ LagRule(name).op = ">"
           /\ LagRule(name).bound = config.maxSafeLag
BY GaugeRuleFields DEF LagRule

LEMMA NamedLabels ==
    ASSUME NEW name
    PROVE  LET labels == Join([name |-> name], chainLabels("op")) IN
           /\ "name" \in DOMAIN labels /\ labels.name = name
           /\ "chain" \in DOMAIN labels /\ labels["chain"] = "op"
<1>1. chainLabels("op") = [chain |-> "op"]
  BY DEF chainLabels
<1>2. DOMAIN [name |-> name] = {"name"} /\ DOMAIN [chain |-> "op"] = {"chain"}
  OBVIOUS
<1> QED
  BY <1>1, <1>2 DEF Join

\* A warning about the head lag of an endpoint is about a lag above the threshold.
LEMMA WarnedLag ==
    ASSUME OriginInv, NEW f \in findings, NEW name, f.id = <<"proxyd", name, "head_lag">>,
           f.severity = "warn" \/ f.sample # NoSample
    PROVE  \E lag \in Nat : /\ f.sample = <<"lag_blocks", lag>>
                            /\ f.severity = "warn" <=> lag > config.maxSafeLag
<1>1. ~OfProxyd(f) /\ ~OfBackend(f) /\ ~OfUnknown(f)
  BY DEF OfProxyd, OfBackend, OfUnknown
<1>2. PICK e \in Endpoints :
          \E part : f.id = <<"proxyd", config.endpoints[e].name, part>> /\ Judges(f, e, part)
  BY <1>1 DEF OriginInv, Origin, OfEndpoint
<1>3. Judges(f, e, "head_lag")
  BY <1>2
<1> QED
  BY <1>3 DEF Judges

\* The instances of the lag alert for a name, and the warnings about it.
LagAlarmOf(name) ==
    \E x \in Alarms : /\ x.alert = "ProxydHeadLaggingBackends"
                      /\ "name" \in DOMAIN x.labels /\ x.labels.name = name

LEMMA LoudLagIsWarned ==
    ASSUME OriginInv, NamesGiven, NEW e \in Endpoints, LagAlarmOf(config.endpoints[e].name)
    PROVE  EndpointFinding(e, "head_lag", "warn")
<1> DEFINE name == config.endpoints[e].name
<1>1. PICK x \in Alarms : /\ x.alert = "ProxydHeadLaggingBackends"
                          /\ "name" \in DOMAIN x.labels /\ x.labels.name = name
  BY DEF LagAlarmOf
<1>2. PICK r \in Alerts(AlertsConfig) :
          \E s \in Matching(r, Page) : x.alert = r.alert /\ x.labels = s.labels
  BY AlarmsAre, InstanceOfRule
<1>3. PICK s \in Matching(r, Page) : x.alert = r.alert /\ x.labels = s.labels
  BY <1>2
<1>4. PICK d \in Endpoints : r = LagRule(config.endpoints[d].name)
  BY <1>1, <1>3, RulesOfAlerts
<1>5. /\ r.metric = "proxyd_head_lag_blocks" /\ r.op = ">" /\ r.bound = config.maxSafeLag
  BY <1>4, LagRuleFields
<1>6. s \in Page /\ s.metric = "proxyd_head_lag_blocks" /\ GaugeSelected(r, s)
  BY <1>5 DEF Matching
<1>7. s.value > config.maxSafeLag
  BY <1>5, <1>6 DEF GaugeSelected
<1>8. s \in ProxydLagSeries(findings, "op")
  BY <1>6, SeriesOfMetric DEF Page
<1>9. PICK f \in LagFindings(findings, "proxyd", "head_lag") :
          s = Series("proxyd_head_lag_blocks", Join(NameFromID(f.id), chainLabels("op")), f.sample[2])
  BY <1>8 DEF ProxydLagSeries
<1>10. /\ s.labels = Join(NameFromID(f.id), chainLabels("op")) /\ s.value = f.sample[2]
  BY <1>9 DEF Series
<1>11. f \in findings /\ f.sample[1] = "lag_blocks"
  BY <1>9 DEF LagFindings
<1>12. f.sample # NoSample
  <2>1. NoSample[1] = ""
    BY DEF NoSample
  <2> QED
    BY <1>11, <2>1
<1>13. PICK c \in Endpoints :
          \E part : f.id = <<"proxyd", config.endpoints[c].name, part>> /\ Judges(f, c, part)
  BY <1>11, <1>12 DEF OriginInv, Origin, OfProxyd, OfBackend, OfUnknown, OfEndpoint
<1>14. f.id = <<"proxyd", config.endpoints[c].name, "head_lag">>
  BY <1>12, <1>13 DEF Judges
<1>15. NameFromID(f.id) = [name |-> config.endpoints[c].name]
  <2>1. config.endpoints[c].name # ""
    BY DEF NamesGiven
  <2>2. Len(f.id) > 2 /\ f.id[2] = config.endpoints[c].name
    BY <1>14
  <2> QED
    BY <2>1, <2>2, Zenon DEF NameFromID
<1>16. config.endpoints[c].name = name
  BY <1>1, <1>3, <1>10, <1>15, NamedLabels
<1>17. PICK lag \in Nat : /\ f.sample = <<"lag_blocks", lag>>
                          /\ f.severity = "warn" <=> lag > config.maxSafeLag
  BY <1>11, <1>12, <1>14, WarnedLag
<1>18. lag > config.maxSafeLag
  BY <1>7, <1>10, <1>17
<1> QED
  BY <1>11, <1>14, <1>16, <1>17, <1>18 DEF EndpointFinding

LEMMA WarnedLagIsLoud ==
    ASSUME OriginInv, NamesGiven, NEW e \in Endpoints, EndpointFinding(e, "head_lag", "warn")
    PROVE  LagAlarmOf(config.endpoints[e].name)
<1> DEFINE name == config.endpoints[e].name
           r == LagRule(name)
<1>1. PICK f \in findings : f.id = <<"proxyd", name, "head_lag">> /\ f.severity = "warn"
  BY DEF EndpointFinding
<1>2. PICK lag \in Nat : /\ f.sample = <<"lag_blocks", lag>>
                         /\ f.severity = "warn" <=> lag > config.maxSafeLag
  BY <1>1, WarnedLag
<1> DEFINE s == Series("proxyd_head_lag_blocks", Join(NameFromID(f.id), chainLabels("op")), f.sample[2])
<1>3. f \in LagFindings(findings, "proxyd", "head_lag")
  <2>1. f.id[1] = "proxyd" /\ f.id[Len(f.id)] = "head_lag" /\ f.sample[1] = "lag_blocks"
    BY <1>1, <1>2
  <2> QED
    BY <2>1 DEF LagFindings
<1>4. s \in Page
  BY <1>3 DEF Page, RenderPrometheus, DerivedSeries, ProxydLagSeries
<1>5. NameFromID(f.id) = [name |-> name]
  <2>1. name # ""
    BY DEF NamesGiven
  <2> HIDE DEF name
  <2>2. Len(f.id) > 2 /\ f.id[2] = name
    BY <1>1
  <2> QED
    BY <2>1, <2>2, Zenon DEF NameFromID
<1>6. /\ s.metric = "proxyd_head_lag_blocks" /\ s.value = lag
      /\ s.labels = Join([name |-> name], chainLabels("op"))
  BY <1>2, <1>5 DEF Series
<1>7. /\ "name" \in DOMAIN s.labels /\ s.labels.name = name
      /\ "chain" \in DOMAIN s.labels /\ s.labels["chain"] = "op"
  BY <1>6, NamedLabels
<1>8. /\ r.alert = "ProxydHeadLaggingBackends" /\ r.metric = "proxyd_head_lag_blocks"
      /\ r.chain = "op" /\ r.name = <<name>> /\ r.op = ">" /\ r.bound = config.maxSafeLag
  BY LagRuleFields
<1>9. r \in Alerts(AlertsConfig)
  BY RulesGiven DEF NamesGiven
<1> HIDE DEF s, r, name
<1>10. GaugeSelected(r, s)
  <2>1. LabelIs(s.labels, "chain", r.chain)
    BY <1>7, <1>8 DEF LabelIs
  <2>2. <<s.labels.name>> = r.name
    BY <1>7, <1>8
  <2>3. s.value > r.bound
    BY <1>1, <1>2, <1>6, <1>8
  <2> QED
    BY <1>7, <1>8, <2>1, <2>2, <2>3 DEF GaugeSelected
<1>11. s \in Matching(r, Page)
  BY <1>4, <1>6, <1>8, <1>10 DEF Matching
<1> DEFINE x == [alert |-> r.alert, wait |-> r.wait, labels |-> s.labels]
<1>12. x \in Alarms
  BY <1>9, <1>11, AlarmsAre DEF Instances
<1>13. x.alert = "ProxydHeadLaggingBackends" /\ x.labels = s.labels
  BY <1>8
<1> HIDE DEF x
<1> QED
  BY <1>7, <1>12, <1>13 DEF LagAlarmOf, name

(***************************************************************************)
(* The generated alerts on proxyd are honest, if no endpoint has the empty *)
(* name (no lag rule is generated for one): silent alerts mean healthy and *)
(* scraped endpoints, and those on derivers and on lags are loud exactly   *)
(* when the check warned.                                                  *)
(***************************************************************************)
THEOREM AlertsOnProxydAreHonest == Spec => [](NamesGiven => ProxydAlertsAreHonest)
<1>1. Init => Types /\ OriginInv /\ SaidInv
  BY InitTypes, InitSaid DEF OriginInv, Init
<1>2. Types /\ OriginInv /\ SaidInv /\ [Next]_vars => (Types /\ OriginInv /\ SaidInv)'
  BY NextTypes, NextOrigin, NextSaid
<1>3. Types /\ OriginInv /\ SaidInv => (NamesGiven => ProxydAlertsAreHonest)
  <2> SUFFICES ASSUME Types, OriginInv, SaidInv, NamesGiven, phase = "done", config.enabled
               PROVE  /\ ~(\E x \in Alarms : x.alert = "ProxydEndpointUnhealthy") =>
                            \A e \in Endpoints : config.endpoints[e].rpc =>
                                /\ config.chainId \in {0, chain[e]}
                                /\ EndpointFinding(e, "head", "ok")
                      /\ ~(\E x \in Alarms : x.alert = "ProxydMetricsUnavailable") =>
                            \A e \in Endpoints : /\ config.endpoints[e].metrics
                                                 /\ EndpointFinding(e, "metrics", "ok")
                      /\ (\E x \in Alarms : x.alert = "DeriverProxydNotConsensusAware")
                            <=> \E e \in Derivers : ~config.endpoints[e].aware
                      /\ \A e \in Endpoints :
                            LagAlarmOf(config.endpoints[e].name) <=> EndpointFinding(e, "head_lag", "warn")
    BY DEF ProxydAlertsAreHonest, LagAlarmOf
  <2>1. \A e \in Endpoints : Begun(e, findings) /\ Told(e, findings) /\ Scraped(e, findings)
    BY AllSaid
  <2>2. ASSUME ~\E x \in Alarms : x.alert = "ProxydEndpointUnhealthy",
               NEW e \in Endpoints, config.endpoints[e].rpc
        PROVE  config.chainId \in {0, chain[e]} /\ EndpointFinding(e, "head", "ok")
    BY <2>1, <2>2, QuietEndpointIsHealthy DEF RightChain
  <2>3. ASSUME ~\E x \in Alarms : x.alert = "ProxydMetricsUnavailable", NEW e \in Endpoints
        PROVE  config.endpoints[e].metrics /\ EndpointFinding(e, "metrics", "ok")
    BY <2>1, <2>3, QuietEndpointIsScraped
  <2>4. (\E x \in Alarms : x.alert = "DeriverProxydNotConsensusAware")
            => \E e \in Derivers : ~config.endpoints[e].aware
    BY LoudDeriverIsUnaware
  <2>5. ASSUME NEW e \in Derivers, ~config.endpoints[e].aware
        PROVE  \E x \in Alarms : x.alert = "DeriverProxydNotConsensusAware"
    <3>1. e \in Endpoints
      BY DEF Derivers
    <3> QED
      BY <2>1, <2>5, <3>1, UnawareDeriverIsLoud
  <2>6. \A e \in Endpoints :
            LagAlarmOf(config.endpoints[e].name) <=> EndpointFinding(e, "head_lag", "warn")
    BY LoudLagIsWarned, WarnedLagIsLoud
  <2> QED
    BY <2>2, <2>3, <2>4, <2>5, <2>6
<1> QED
  BY <1>1, <1>2, <1>3, PTL DEF Spec

-----------------------------------------------------------------------------
(* MaxValue and quantileSamples *)

\* The values that the variable max of MaxValue takes.
LEMMA MaxValueLoop ==
    ASSUME NEW vs \in Seq(SampleValues), vs # <<>>
    PROVE  \E max \in [1 .. Len(vs) -> SampleValues] :
              /\ MaxValue(vs) = max[Len(vs)] /\ max[1] = vs[1]
              /\ \A i \in 2 .. Len(vs) :
                    max[i] = IF Above(vs[i], max[i - 1]) THEN vs[i] ELSE max[i - 1]
<1> DEFINE n == Len(vs)
           body(f) == [i \in DOMAIN vs |->
                         IF i = 1 THEN vs[1]
                         ELSE IF Above(vs[i], f[i - 1]) THEN vs[i] ELSE f[i - 1]]
           step == [i \in 1 .. n |->
                      [v \in SampleValues |-> IF Above(vs[i], v) THEN vs[i] ELSE v]]
           IsMax(f) == f = body(f)
<1>1. n \in Nat /\ 1 <= n /\ DOMAIN vs = 1 .. n /\ \A i \in 1 .. n : vs[i] \in SampleValues
  OBVIOUS
<1>2. step \in [1 .. n -> [SampleValues -> SampleValues]]
  BY <1>1
<1>3. \A i \in 1 .. n, v \in SampleValues : step[i][v] = IF Above(vs[i], v) THEN vs[i] ELSE v
  OBVIOUS
<1>4. PICK f \in [1 .. n -> SampleValues] : Iterates(f, 1, n, vs[1], step)
  <2>1. 1 \in Nat /\ n \in Nat /\ 1 <= n /\ vs[1] \in SampleValues
    BY <1>1
  <2> HIDE DEF step, n, body, IsMax
  <2> QED
    BY <1>2, <2>1, IterationExists
<1> HIDE DEF step
<1>5. \A i \in 2 .. n : f[i] = IF Above(vs[i], f[i - 1]) THEN vs[i] ELSE f[i - 1]
  <2>1. ASSUME NEW i \in 2 .. n
        PROVE  f[i] = IF Above(vs[i], f[i - 1]) THEN vs[i] ELSE f[i - 1]
    <3>1. i \in (1 + 1) .. n /\ i \in 1 .. n /\ i - 1 \in 1 .. n
      BY <1>1
    <3>2. f[i] = step[i][f[i - 1]] /\ f[i - 1] \in SampleValues
      BY <1>4, <3>1 DEF Iterates
    <3> QED
      BY <1>3, <3>1, <3>2
  <2> QED
    BY <2>1
<1>6. f[1] = vs[1]
  BY <1>4 DEF Iterates
<1>7. IsMax(f)
  <2>1. \A i \in DOMAIN vs : f[i] = body(f)[i]
    BY <1>1, <1>5, <1>6
  <2> QED
    BY <1>1, <2>1
<1>8. MaxValue(vs) = (CHOOSE g : IsMax(g))[n]
  BY DEF MaxValue
<1> DEFINE max == CHOOSE g : IsMax(g)
<1>9. IsMax(max)
  <2> HIDE DEF IsMax
  <2> QED
    BY <1>7
<1>10. /\ DOMAIN max = 1 .. n /\ max[1] = vs[1]
       /\ \A i \in 2 .. n : max[i] = IF Above(vs[i], max[i - 1]) THEN vs[i] ELSE max[i - 1]
  <2> HIDE DEF max
  <2>1. max = body(max)
    BY <1>9
  <2>2. DOMAIN max = 1 .. n
    BY <1>1, <2>1
  <2>3. \A i \in 1 .. n : max[i] = body(max)[i]
    BY <2>1
  <2>4. max[1] = vs[1]
    BY <1>1, <2>3
  <2>5. ASSUME NEW i \in 2 .. n
        PROVE  max[i] = IF Above(vs[i], max[i - 1]) THEN vs[i] ELSE max[i - 1]
    BY <1>1, <2>3
  <2> QED
    BY <2>2, <2>4, <2>5
<1> HIDE DEF IsMax
<1>11. max = f
  <2> HIDE DEF max
  <2> DEFINE D == {i \in 1 .. n : max[i] # f[i]}
  <2>1. D = {}
    <3> SUFFICES ASSUME D # {}
                 PROVE  FALSE
      OBVIOUS
    <3>1. D \subseteq Nat
      OBVIOUS
    <3>2. PICK m \in D : \A d \in D : m <= d
      <4> HIDE DEF D
      <4>1. D \in SUBSET Nat
        BY <3>1
      <4> QED
        BY <4>1, LeastNumber
    <3>3. m \in 2 .. n /\ m - 1 \in 1 .. n /\ m - 1 \notin D
      BY <1>6, <1>10, <3>2
    <3> QED
      BY <1>5, <1>10, <3>2, <3>3
  <2>2. \A i \in 1 .. n : max[i] = f[i]
    BY <2>1
  <2> QED
    BY <1>4, <1>9, <1>10, <2>2 DEF IsMax
<1> QED
  BY <1>4, <1>5, <1>6, <1>8, <1>11

\* With a first value that is a number, the result exceeds a bound if some value does.
LEMMA MaxValueExceeds ==
    ASSUME NEW vs \in Seq(SampleValues), vs # <<>>, NEW b \in Int
    PROVE  /\ Above(MaxValue(vs), {b}) => \E i \in DOMAIN vs : Above(vs[i], {b})
           /\ vs[1] # NaN /\ (\E i \in DOMAIN vs : Above(vs[i], {b})) => Above(MaxValue(vs), {b})
<1> DEFINE n == Len(vs)
<1>1. n \in Nat /\ 1 <= n /\ DOMAIN vs = 1 .. n /\ \A i \in 1 .. n : vs[i] \in SampleValues
  OBVIOUS
<1>2. PICK max \in [1 .. n -> SampleValues] :
          /\ MaxValue(vs) = max[n] /\ max[1] = vs[1]
          /\ \A i \in 2 .. n : max[i] = IF Above(vs[i], max[i - 1]) THEN vs[i] ELSE max[i - 1]
  BY MaxValueLoop
<1> HIDE DEF n
<1>3. ASSUME NEW m \in 1 .. n, Above(max[m], {b})
      PROVE  \E i \in 1 .. n : Above(vs[i], {b})
  <2> DEFINE D == {i \in 1 .. n : Above(max[i], {b})}
  <2>1. D \subseteq Nat /\ D # {}
    <3>1. m \in D
      BY <1>3
    <3>2. D \subseteq 1 .. n /\ 1 .. n \subseteq Nat
      BY <1>1
    <3> QED
      BY <3>1, <3>2
  <2>2. PICK l \in D : \A d \in D : l <= d
    <3> HIDE DEF D
    <3>1. D \in SUBSET Nat
      BY <2>1
    <3> QED
      BY <2>1, <3>1, LeastNumber
  <2>3. CASE l = 1
    BY <1>2, <2>2, <2>3
  <2>4. CASE l # 1
    <3>1. l \in 2 .. n /\ l - 1 \in 1 .. n /\ ~(l <= l - 1)
      BY <1>1, <2>2, <2>4
    <3>2. l - 1 \notin D
      BY <2>2, <3>1
    <3> QED
      BY <1>2, <2>2, <3>1, <3>2
  <2> QED
    BY <2>3, <2>4
<1>4. ASSUME vs[1] # NaN, NEW k0 \in 1 .. n, Above(vs[k0], {b})
      PROVE  Above(max[n], {b})
  <2>1. PICK x \in vs[k0] : x > b /\ x \in Int
    BY <1>1, <1>4 DEF Above, SampleValues
  <2> DEFINE Holds(m) == /\ \E y \in max[m] : y \in Int
                         /\ k0 <= m => \E y \in max[m] : y \in Int /\ y >= x
             D == {i \in 1 .. n : ~Holds(i)}
  <2>2. D = {}
    <3> SUFFICES ASSUME D # {}
                 PROVE  FALSE
      OBVIOUS
    <3>1. D \subseteq Nat
      OBVIOUS
    <3>2. PICK l \in D : \A d \in D : l <= d
      <4> HIDE DEF D
      <4>1. D \in SUBSET Nat
        BY <3>1
      <4> QED
        BY <4>1, LeastNumber
    <3>3. CASE l = 1
      <4>1. \E y \in vs[1] : y \in Int
        BY <1>1, <1>4 DEF NaN, SampleValues
      <4>2. k0 <= 1 => k0 = 1
        BY <1>4
      <4> QED
        BY <1>2, <2>1, <3>2, <3>3, <4>1, <4>2
    <3>4. CASE l # 1
      <4>1. l \in 2 .. n /\ l - 1 \in 1 .. n /\ l \in 1 .. n /\ ~(l <= l - 1)
        BY <1>1, <3>2, <3>4
      <4>2. Holds(l - 1)
        BY <3>2, <4>1
      <4>3. PICK y \in max[l - 1] : y \in Int /\ (k0 <= l - 1 => y >= x)
        BY <4>2
      <4>4. vs[l] \in SampleValues /\ max[l] = IF Above(vs[l], max[l - 1]) THEN vs[l] ELSE max[l - 1]
        BY <1>1, <1>2, <4>1
      <4>5. CASE Above(vs[l], max[l - 1])
        <5>1. PICK z \in vs[l] : \E w \in max[l - 1] : z > w
          BY <4>5 DEF Above
        <5>2. z \in Int /\ z > y /\ max[l] = vs[l]
          <6>1. max[l - 1] \in SampleValues /\ \A w \in max[l - 1] : w = y
            BY <4>1, <4>3 DEF SampleValues
          <6>2. z \in Int
            BY <4>4, <5>1 DEF SampleValues
          <6> QED
            BY <4>4, <4>5, <5>1, <6>1, <6>2
        <5>3. k0 = l => z = x
          BY <2>1, <4>4, <5>1 DEF SampleValues
        <5>4. k0 <= l => z >= x
          BY <1>4, <2>1, <4>1, <4>3, <5>2, <5>3
        <5> QED
          BY <3>2, <5>1, <5>2, <5>4
      <4>6. CASE ~Above(vs[l], max[l - 1])
        <5>1. max[l] = max[l - 1]
          BY <4>4, <4>6
        <5>2. k0 = l => y >= x
          BY <2>1, <4>3, <4>6 DEF Above
        <5>3. k0 <= l => y >= x
          BY <1>4, <4>1, <4>3, <5>2
        <5> QED
          BY <3>2, <4>3, <5>1, <5>3
      <4> QED
        BY <4>5, <4>6
    <3> QED
      BY <3>3, <3>4
  <2>3. n \in 1 .. n /\ k0 <= n
    BY <1>1, <1>4
  <2>4. Holds(n)
    BY <2>2, <2>3
  <2> QED
    BY <2>1, <2>3, <2>4 DEF Above
<1>5. n \in 1 .. n
  BY <1>1
<1> QED
  BY <1>1, <1>2, <1>3, <1>4, <1>5

\* The samples without sums and counts are samples still.
LEMMA QuantilesTyped ==
    ASSUME NEW series \in Seq(LatencyType)
    PROVE  /\ QuantileValues(series) \in Seq(SampleValues)
           /\ series = <<>> => QuantileValues(series) = <<>>
<1> DEFINE n == Len(series)
           X == Seq(SampleValues)
           body(f) == [i \in 0 .. n |->
                         IF i = 0 THEN <<>>
                         ELSE IF series[i].quantile THEN Append(f[i - 1], series[i].value) ELSE f[i - 1]]
           step == [i \in 0 .. n |->
                      [v \in X |-> IF i = 0 THEN v
                                   ELSE IF series[i].quantile THEN Append(v, series[i].value) ELSE v]]
           IsOut(f) == f = body(f)
<1>1. n \in Nat /\ \A i \in 1 .. n : series[i].value \in SampleValues
  <2>1. n \in Nat /\ \A i \in 1 .. n : series[i] \in LatencyType
    OBVIOUS
  <2>2. \A s \in LatencyType : s.value \in SampleValues
    BY DEF LatencyType
  <2> QED
    BY <2>1, <2>2
<1>2. step \in [0 .. n -> [X -> X]] /\ <<>> \in X
  <2>1. ASSUME NEW i \in 0 .. n, NEW v \in X
        PROVE  (IF i = 0 THEN v
                ELSE IF series[i].quantile THEN Append(v, series[i].value) ELSE v) \in X
    <3>1. CASE i = 0
      BY <3>1
    <3>2. CASE i # 0
      <4>1. series[i].value \in SampleValues
        BY <1>1, <3>2
      <4>2. Append(v, series[i].value) \in X
        BY <4>1
      <4> QED
        BY <3>2, <4>2
    <3> QED
      BY <3>1, <3>2
  <2>2. <<>> \in X
    OBVIOUS
  <2> HIDE DEF X
  <2> QED
    BY <2>1, <2>2
<1>3. \A i \in 1 .. n, v \in X :
          step[i][v] = IF series[i].quantile THEN Append(v, series[i].value) ELSE v
  <2> HIDE DEF X
  <2> QED
    BY <1>1
<1> HIDE DEF X
<1>4. PICK f \in [0 .. n -> X] : Iterates(f, 0, n, <<>>, step)
  <2>1. 0 <= n /\ 0 \in Nat
    BY <1>1
  <2> HIDE DEF step, n
  <2> QED
    BY <1>1, <1>2, <2>1, IterationExists
<1> HIDE DEF step
<1>5. ASSUME NEW i \in 1 .. n
      PROVE  f[i] = IF series[i].quantile THEN Append(f[i - 1], series[i].value) ELSE f[i - 1]
  <2>1. i \in (0 + 1) .. n /\ i - 1 \in 0 .. n
    BY <1>1
  <2>2. f[i] = step[i][f[i - 1]] /\ f[i - 1] \in X
    BY <1>4, <2>1 DEF Iterates
  <2> QED
    BY <1>3, <2>2
<1>6. IsOut(f)
  <2>1. f[0] = <<>>
    BY <1>4 DEF Iterates
  <2>2. ASSUME NEW i \in 0 .. n
        PROVE  f[i] = body(f)[i]
    <3>1. CASE i = 0
      BY <2>1, <3>1
    <3>2. CASE i # 0
      <4>1. i \in 1 .. n
        BY <1>1, <3>2
      <4> QED
        BY <1>5, <3>2, <4>1
    <3> QED
      BY <3>1, <3>2
  <2> QED
    BY <2>2
<1> DEFINE out == CHOOSE g : IsOut(g)
<1>7. QuantileValues(series) = out[n]
  BY DEF QuantileValues
<1>8. IsOut(out)
  <2> HIDE DEF IsOut
  <2> QED
    BY <1>6
<1> HIDE DEF out
<1>9. /\ out[0] = <<>>
      /\ \A i \in 1 .. n :
            out[i] = IF series[i].quantile THEN Append(out[i - 1], series[i].value) ELSE out[i - 1]
  <2>1. out = body(out)
    BY <1>8
  <2>2. \A i \in 0 .. n : out[i] = body(out)[i]
    BY <2>1
  <2>3. 0 \in 0 .. n /\ \A i \in 1 .. n : i \in 0 .. n /\ i # 0
    BY <1>1
  <2>4. out[0] = <<>>
    BY <2>2, <2>3
  <2>5. ASSUME NEW i \in 1 .. n
        PROVE  out[i] = IF series[i].quantile THEN Append(out[i - 1], series[i].value) ELSE out[i - 1]
    BY <2>2, <2>3
  <2> QED
    BY <2>4, <2>5
<1> HIDE DEF IsOut
<1> DEFINE D == {i \in 0 .. n : out[i] \notin X}
<1>10. D = {}
  <2> SUFFICES ASSUME D # {}
               PROVE  FALSE
    OBVIOUS
  <2>1. D \subseteq Nat
    OBVIOUS
  <2>2. PICK m \in D : \A d \in D : m <= d
    <3> HIDE DEF D
    <3>1. D \in SUBSET Nat
      BY <2>1
    <3> QED
      BY <3>1, LeastNumber
  <2>3. m \in 1 .. n /\ m - 1 \in 0 .. n /\ ~(m <= m - 1)
    BY <1>2, <1>9, <2>2
  <2>4. out[m - 1] \in X
    BY <2>2, <2>3
  <2>5. Append(out[m - 1], series[m].value) \in X
    BY <1>1, <2>3, <2>4 DEF X
  <2> QED
    BY <1>9, <2>2, <2>3, <2>4, <2>5
<1>11. series = <<>> => n = 0
  OBVIOUS
<1>12. out[n] \in Seq(SampleValues) /\ (n = 0 => out[n] = <<>>)
  BY <1>1, <1>9, <1>10 DEF X
<1> QED
  BY <1>7, <1>11, <1>12

-----------------------------------------------------------------------------
(* The latency of the backends *)

LatencyId(e) == <<"proxyd", e.name, "backend_latency">>

\* What the code compares with max_rpc_latency_seconds exceeds it.
TooSlow(pg, maxLatency) ==
    LET values == QuantileValues(pg.backend_latency)
    IN values # <<>> /\ Above(MaxValue(values), {maxLatency})

LEMMA OtherVerdicts ==
    ASSUME NEW e, NEW pg, NEW absent, NEW isBad, NEW bad,
           NEW id \in {"up", "backend_probe_healthy", "backend_degraded", "backend_banned",
                       "backend_peer_count", "consensus_count", "cl_local_safe", "error_counters",
                       "cl_consensus_counters", "backend_error_rate"}
    PROVE  Verdict(e, pg, id, absent, isBad, bad).id # LatencyId(e)
<1>1. id # "backend_latency" /\ Missing[id] # "backend_latency"
  BY DEF Missing
<1>2. \A part, severity : Metric(e, part, severity).id = <<"proxyd", e.name, part>>
  BY DEF Metric, Finding
<1>3. \E part, severity : part # "backend_latency" /\ Verdict(e, pg, id, absent, isBad, bad) = Metric(e, part, severity)
  BY <1>1 DEF Verdict
<1> QED
  BY <1>2, <1>3 DEF LatencyId

LEMMA OtherMetrics ==
    ASSUME NEW e, NEW pg
    PROVE  \A f \in BackendHealthFindings(e, pg) \cup ConsensusFindings(e, pg) \cup ErrorFindings(e, pg) :
              f.id # LatencyId(e)
<1>1. \A part, severity : part # "backend_latency" => Metric(e, part, severity).id # LatencyId(e)
  BY DEF Metric, Finding, LatencyId
<1>2. ASSUME NEW f \in BackendHealthFindings(e, pg)
      PROVE  f.id # LatencyId(e)
  <2>1. \/ \E id \in {"backend_probe_healthy", "backend_degraded", "backend_banned", "backend_peer_count"} :
             \E absent, isBad, bad : f = Verdict(e, pg, id, absent, isBad, bad)
        \/ \E severity : f = Metric(e, "backend_in_sync", severity)
    BY DEF BackendHealthFindings, BackendVerdict
  <2> QED
    BY <1>1, <2>1, OtherVerdicts
<1>3. ASSUME NEW f \in ConsensusFindings(e, pg)
      PROVE  f.id # LatencyId(e)
  <2>1. \/ \E id \in {"consensus_count", "cl_local_safe"} :
             \E absent, isBad, bad : f = Verdict(e, pg, id, absent, isBad, bad)
        \/ \E severity : f = Metric(e, "consensus_blocks", severity)
    BY DEF ConsensusFindings, When
  <2> QED
    BY <1>1, <2>1, OtherVerdicts
<1>4. ASSUME NEW f \in ErrorFindings(e, pg)
      PROVE  f.id # LatencyId(e)
  <2>1. \/ \E id \in {"error_counters", "cl_consensus_counters", "backend_error_rate"} :
             \E absent, isBad, bad : f = Verdict(e, pg, id, absent, isBad, bad)
        \/ \E severity : f = Metric(e, "http_error_codes", severity)
    BY DEF ErrorFindings, BackendVerdict, CounterVerdict, When
  <2> QED
    BY <1>1, <2>1, OtherVerdicts
<1> QED
  BY <1>2, <1>3, <1>4

\* A page gives rise to a warning about the latency exactly when it is too slow.
LEMMA PageLatency ==
    ASSUME NEW e, NEW pg, NEW maxLatency
    PROVE  /\ \A f \in PageFindings(e, pg, maxLatency) :
                 f.id = LatencyId(e) /\ f.severity = "warn" => TooSlow(pg, maxLatency)
           /\ TooSlow(pg, maxLatency) /\ pg.backend_latency # <<>> =>
                 Metric(e, "backend_latency", "warn") \in PageFindings(e, pg, maxLatency)
<1> DEFINE latency == LatencyFinding(e, pg, maxLatency)
<1>1. \A part, severity : /\ Metric(e, part, severity).id = <<"proxyd", e.name, part>>
                          /\ Metric(e, part, severity).severity = severity
  BY DEF Metric, Finding
<1>2. latency = IF pg.backend_latency = <<>> THEN Metric(e, "backend_latency_missing", "info")
                ELSE Metric(e, "backend_latency", IF TooSlow(pg, maxLatency) THEN "warn" ELSE "ok")
  BY DEF LatencyFinding, TooSlow, Missing
<1> HIDE DEF latency
<1>3. latency.severity = "warn" => TooSlow(pg, maxLatency)
  BY <1>1, <1>2
<1>4. ASSUME NEW f \in PageFindings(e, pg, maxLatency), f.id = LatencyId(e)
      PROVE  f = latency
  <2>1. \A s : Metric(e, "metrics", s).id # LatencyId(e) /\ Metric(e, "metrics_names", s).id # LatencyId(e)
    BY <1>1 DEF LatencyId
  <2>2. f \in NativeFindings(e, pg, maxLatency)
    BY <1>4, <2>1 DEF PageFindings
  <2> QED
    BY <1>4, <2>2, OtherVerdicts, OtherMetrics DEF NativeFindings, latency
<1>5. pg.backend_latency # <<>> => latency \in PageFindings(e, pg, maxLatency)
  BY DEF PageFindings, NativeFindings, NoSeries, latency
<1> QED
  BY <1>2, <1>3, <1>4, <1>5

(***************************************************************************)
(* A warning about the latency is about a page that is too slow, and a     *)
(* page that was read and is too slow has led to one.                      *)
(***************************************************************************)
SlowAt(fs) ==
    UniqueEndpoints =>
        \A e \in Endpoints : LET endpoint == config.endpoints[e] IN
            /\ \A f \in fs : f.id = LatencyId(endpoint) /\ f.severity = "warn"
                                => TooSlow(page[e], config.maxLatency)
            /\ HasFinding(fs, MetricsNames(e)) /\ TooSlow(page[e], config.maxLatency) =>
                  \E f \in fs : f.id = LatencyId(endpoint) /\ f.severity = "warn"

SlowInv == SlowAt(findings)

LEMMA LatencyTyped ==
    ASSUME World, NEW e \in Endpoints
    PROVE  /\ page[e].backend_latency \in Seq(LatencyType) /\ config.maxLatency \in Int
           /\ page[e].backend_latency = <<>> => ~TooSlow(page[e], config.maxLatency)
<1>1. page[e].backend_latency \in Seq(LatencyType) /\ config \in ConfigType
  <2> DEFINE d == <<config, page, chain>>
  <2>1. d \in Deployments
    BY DEF World
  <2>2. /\ DOMAIN page = 1 .. Len(config.endpoints)
        /\ \A c \in DOMAIN page : page[c].backend_latency \in Seq(LatencyType)
    BY <2>1, DataAssumption
  <2> QED
    BY <2>2, DeploymentTypes DEF Endpoints
<1>2. page[e].backend_latency = <<>> => QuantileValues(page[e].backend_latency) = <<>>
  BY <1>1, QuantilesTyped
<1>3. config.maxLatency \in Int
  BY <1>1 DEF ConfigType
<1> QED
  BY <1>1, <1>2, <1>3 DEF TooSlow

LEMMA ScrapeSlow ==
    ASSUME Types, Scrape, SlowInv
    PROVE  SlowAt(findings')
<1> SUFFICES ASSUME UniqueEndpoints, NEW e \in Endpoints
             PROVE  /\ \A f \in findings' : f.id = LatencyId(config.endpoints[e]) /\ f.severity = "warn"
                                               => TooSlow(page[e], config.maxLatency)
                    /\ HasFinding(findings', MetricsNames(e)) /\ TooSlow(page[e], config.maxLatency) =>
                          \E f \in findings' : f.id = LatencyId(config.endpoints[e]) /\ f.severity = "warn"
  BY DEF SlowAt
<1> DEFINE slow == TooSlow(page[e], config.maxLatency)
           id   == LatencyId(config.endpoints[e])
<1>1. PICK fs : /\ Emit(fs)
                /\ \/ fs = {Metric(Endpoint, "metrics", "warn")}
                   \/ fs = PageFindings(Endpoint, page[k], config.maxLatency)
  BY DEF Scrape
<1>2. findings' = findings \cup fs
  BY <1>1 DEF Emit
<1>3. k \in Endpoints /\ World
  BY DEF Scrape, Types, Doctors, DoctorsAt, AtEndpoint
<1>4. /\ \A f \in findings : f.id = id /\ f.severity = "warn" => slow
      /\ HasFinding(findings, MetricsNames(e)) /\ slow =>
            \E f \in findings : f.id = id /\ f.severity = "warn"
  BY DEF SlowInv, SlowAt
<1>5. \A part, severity : Metric(Endpoint, part, severity).id = <<"proxyd", Endpoint.name, part>>
  BY DEF Metric, Finding
<1>6. id = <<"proxyd", config.endpoints[e].name, "backend_latency">>
  BY DEF LatencyId
<1>7. CASE fs = {Metric(Endpoint, "metrics", "warn")}
  <2>1. \A f \in fs : f.id # id /\ f.id # MetricsNames(e)
    BY <1>5, <1>6, <1>7 DEF MetricsNames
  <2> HIDE DEF id, slow
  <2>2. HasFinding(findings', MetricsNames(e)) => HasFinding(findings, MetricsNames(e))
    BY <1>2, <2>1 DEF HasFinding
  <2> QED
    BY <1>2, <1>4, <2>1, <2>2 DEF id, slow
<1>8. CASE fs = PageFindings(Endpoint, page[k], config.maxLatency) /\ k # e
  <2>1. Endpoint.name # config.endpoints[e].name
    BY <1>3, <1>8 DEF UniqueEndpoints, Endpoint
  <2>2. \A f \in fs : f.id # id /\ f.id # MetricsNames(e)
    BY <1>5, <1>6, <1>8, <2>1, PageMetrical DEF Metrical, MetricsNames
  <2> HIDE DEF id, slow
  <2>3. HasFinding(findings', MetricsNames(e)) => HasFinding(findings, MetricsNames(e))
    BY <1>2, <2>2 DEF HasFinding
  <2> QED
    BY <1>2, <1>4, <2>2, <2>3 DEF id, slow
<1>9. CASE fs = PageFindings(Endpoint, page[k], config.maxLatency) /\ k = e
  <2>1. Endpoint = config.endpoints[e] /\ fs = PageFindings(Endpoint, page[e], config.maxLatency)
    BY <1>9 DEF Endpoint
  <2>2. \A f \in fs : f.id = id /\ f.severity = "warn" => slow
    BY <2>1, PageLatency
  <2>3. slow => Metric(Endpoint, "backend_latency", "warn") \in fs
    BY <1>3, <2>1, PageLatency, LatencyTyped
  <2>4. /\ Metric(Endpoint, "backend_latency", "warn").id = id
        /\ Metric(Endpoint, "backend_latency", "warn").severity = "warn"
    BY <2>1 DEF Metric, Finding, LatencyId
  <2> HIDE DEF id, slow
  <2> QED
    BY <1>2, <1>4, <2>2, <2>3, <2>4 DEF id, slow
<1> QED
  BY <1>1, <1>7, <1>8, <1>9

LEMMA NextSlow ==
    ASSUME Types, SlowInv, [Next]_vars
    PROVE  SlowInv'
<1>1. UNCHANGED <<config, page>> /\ SlowAt(findings') => SlowInv'
  BY DEF SlowInv, SlowAt, UniqueEndpoints, MetricsNames, Endpoints
<1>2. CASE Scrape
  <2>1. UNCHANGED <<config, page>>
    BY <1>2 DEF Scrape, world
  <2> QED
    BY <1>1, <1>2, <2>1, ScrapeSlow
<1>3. CASE Doctor /\ ~Scrape
  <2>1. UNCHANGED <<config, page>>
    BY <1>3, DoctorCalls DEF world
  <2>2. findings \subseteq findings'
    BY <1>3, EmitsGraded
  <2>3. \A e : \A f \in findings' :
           f.id \in {LatencyId(config.endpoints[e]), MetricsNames(e)} => f \in findings
    BY <1>3, OnlyScrapeFindsPage DEF LatencyId, MetricsNames, PageParts
  <2>4. \A e : HasFinding(findings', MetricsNames(e)) => HasFinding(findings, MetricsNames(e))
    BY <2>3 DEF HasFinding
  <2>5. SlowAt(findings')
    BY <2>2, <2>3, <2>4 DEF SlowInv, SlowAt
  <2> QED
    BY <1>1, <2>1, <2>5
<1>4. CASE Fleet \/ UNCHANGED vars
  <2>1. UNCHANGED <<config, page, findings>>
    BY <1>4, FleetStep DEF Types, doctor, vars, world
  <2> QED
    BY <1>1, <2>1 DEF SlowInv
<1> QED
  BY <1>2, <1>3, <1>4 DEF Next

(***************************************************************************)
(* The verdict on the latency of the backends is about the slowest of      *)
(* them, for every page: MaxValue is above the threshold only if a         *)
(* quantile is, and, with a number first, if one is; given that no two     *)
(* endpoints share a name.                                                 *)
(***************************************************************************)
THEOREM SlowestBackendIsJudged == Spec => []SlowBackendsAreReported
<1>1. Init => Types /\ SlowInv
  <2>1. Init => SlowInv
    BY DEF Init, SlowInv, SlowAt, HasFinding
  <2> QED
    BY <2>1, InitTypes
<1>2. Types /\ SlowInv /\ [Next]_vars => (Types /\ SlowInv)'
  BY NextTypes, NextSlow
<1>3. Types /\ SlowInv => SlowBackendsAreReported
  <2> SUFFICES ASSUME Types, SlowInv, UniqueEndpoints, NEW e \in Endpoints,
                      HasFinding(findings, MetricsNames(e))
               PROVE  LET values == QuantileValues(page[e].backend_latency)
                          slow   == \E i \in DOMAIN values : Above(values[i], {config.maxLatency})
                      IN /\ LatencyWarned(config.endpoints[e].name) => slow
                         /\ slow /\ values[1] # NaN => LatencyWarned(config.endpoints[e].name)
    BY DEF SlowBackendsAreReported, MetricsNames
  <2> DEFINE values == QuantileValues(page[e].backend_latency)
             slow   == \E i \in DOMAIN values : Above(values[i], {config.maxLatency})
  <2>1. LatencyWarned(config.endpoints[e].name) <=> TooSlow(page[e], config.maxLatency)
    BY DEF LatencyWarned, SlowInv, SlowAt, LatencyId
  <2>2. values \in Seq(SampleValues) /\ config.maxLatency \in Int
    BY LatencyTyped, QuantilesTyped DEF Types
  <2>3. TooSlow(page[e], config.maxLatency)
           <=> values # <<>> /\ Above(MaxValue(values), {config.maxLatency})
    BY DEF TooSlow
  <2> HIDE DEF values
  <2>4. slow => values # <<>>
    BY <2>2
  <2>5. values # <<>> =>
           /\ Above(MaxValue(values), {config.maxLatency}) => slow
           /\ values[1] # NaN /\ slow => Above(MaxValue(values), {config.maxLatency})
    BY <2>2, MaxValueExceeds
  <2>6. /\ LatencyWarned(config.endpoints[e].name) => slow
        /\ slow /\ values[1] # NaN => LatencyWarned(config.endpoints[e].name)
    BY <2>1, <2>3, <2>4, <2>5
  <2> QED
    BY <2>6 DEF values
<1> QED
  BY <1>1, <1>2, <1>3, PTL DEF Spec
=============================================================================
