-------------------------- MODULE InteropCheckProofs --------------------------
(***************************************************************************)
(* Proofs about InteropCheck, for every dependency set and every pair of   *)
(* pages: its types, that every dependency gets all its verdicts, that the *)
(* gate of --fail-on warn does not open on anything unread or bad, that    *)
(* Validate agrees with it, that quiet alerts are sound, and that an alarm *)
(* about the order of safety heads is real.                                *)
(***************************************************************************)
EXTENDS InteropAlerts, ReportProofs

World ==
    /\ <<config, pages, chain>> \in Deployments
    /\ expired \in BOOLEAN /\ faults \in 0 .. MaxFaults

Doctors ==
    /\ phase \in Phases /\ k \in 1 .. Len(config.dependencies) + 1
    /\ phase \in {"head", "metrics"} => k \in Deps

Types == World /\ Doctors /\ Graded(findings)

-----------------------------------------------------------------------------
(* What the checks report has a severity *)

LEMMA DeploymentTypes ==
    ASSUME World
    PROVE  /\ config \in ConfigType
           /\ config.dependencies \in Seq(DependencyType)
           /\ Len(config.dependencies) \in Nat
           /\ \A d \in Deps : config.dependencies[d] \in DependencyType
           /\ pages \in [supervisor : SupervisorPage, monitor : MonitorPage]
<1>1. <<config, pages, chain>>
        \in ConfigType \X [supervisor : SupervisorPage, monitor : MonitorPage] \X Seq(Chains)
  BY DataAssumption DEF World
<1>2. config \in ConfigType
      /\ pages \in [supervisor : SupervisorPage, monitor : MonitorPage]
  BY <1>1
<1>3. config.dependencies \in Seq(DependencyType)
  BY <1>2 DEF ConfigType
<1> QED
  BY <1>2, <1>3 DEF Deps

LEMMA ServiceGraded ==
    ASSUME NEW name, NEW id, NEW severity, severity \in Severities
    PROVE  Graded({Service(name, id, severity)})
BY FindingGraded DEF Service

LEMMA PresenceGraded ==
    ASSUME NEW name, NEW id, NEW missing, NEW present
    PROVE  Graded({Presence(name, id, missing, present)})
<1>1. CASE present
  BY <1>1, ServiceGraded DEF Presence, Severities
<1>2. CASE ~present
  BY <1>2, ServiceGraded DEF Presence, Severities
<1> QED
  BY <1>1, <1>2

LEMMA UpGraded ==
    ASSUME NEW name, NEW up
    PROVE  Graded({UpFinding(name, up)})
<1>1. CASE up = {}
  BY <1>1, ServiceGraded DEF UpFinding, Severities
<1>2. CASE up # {} /\ \E v \in up : v # 1
  BY <1>2, ServiceGraded DEF UpFinding, Severities
<1>3. CASE up # {} /\ ~\E v \in up : v # 1
  BY <1>3, ServiceGraded DEF UpFinding, Severities
<1> QED
  BY <1>1, <1>2, <1>3

LEMMA CounterGraded ==
    ASSUME NEW name, NEW id, NEW missing, NEW counter
    PROVE  Graded({CounterFinding(name, id, missing, counter)})
<1>1. CASE counter = {}
  BY <1>1, ServiceGraded DEF CounterFinding, Severities
<1>2. CASE counter # {} /\ Max(counter) > 0
  BY <1>2, ServiceGraded DEF CounterFinding, Severities
<1>3. CASE counter # {} /\ ~(Max(counter) > 0)
  BY <1>3, ServiceGraded DEF CounterFinding, Severities
<1> QED
  BY <1>1, <1>2, <1>3

LEMMA ExpectedChainsGraded ==
    ASSUME NEW refs
    PROVE  Graded({ExpectedChainsFinding(refs)})
<1> DEFINE sev == IF ExpectedChains = {} THEN "info"
                  ELSE IF ExpectedChains \subseteq {r.chain : r \in refs} THEN "ok" ELSE "warn"
<1>1. sev \in Severities
  BY DEF Severities
<1>2. ExpectedChainsFinding(refs) = Service("supervisor", "expected_chains", sev)
  BY DEF ExpectedChainsFinding
<1> QED
  BY <1>1, <1>2, ServiceGraded

LEMMA RefTypesGraded ==
    ASSUME NEW refs
    PROVE  Graded({RefTypesFinding(refs)})
<1> DEFINE sev == IF SeenTypes(refs) # RefTypes THEN "info"
                  ELSE IF \/ MaxRef(refs, "cross_unsafe") > MaxRef(refs, "local_unsafe")
                          \/ MaxRef(refs, "cross_safe") > MaxRef(refs, "local_safe")
                       THEN "warn" ELSE "ok"
<1>1. sev \in Severities
  BY DEF Severities
<1>2. RefTypesFinding(refs) = Service("supervisor", "ref_types", sev)
  BY DEF RefTypesFinding
<1> QED
  BY <1>1, <1>2, ServiceGraded

LEMMA MessageStatusGraded ==
    ASSUME NEW status
    PROVE  Graded({MessageStatusFinding(status)})
<1>1. CASE status = {}
  BY <1>1, ServiceGraded DEF MessageStatusFinding, Severities
<1>2. CASE status # {} /\ \E s \in status : s.risky /\ s.value > 0
  BY <1>2, ServiceGraded DEF MessageStatusFinding, Severities
<1>3. CASE status # {} /\ ~\E s \in status : s.risky /\ s.value > 0
  BY <1>3, ServiceGraded DEF MessageStatusFinding, Severities
<1> QED
  BY <1>1, <1>2, <1>3

LEMMA SupervisorGraded ==
    ASSUME NEW pg
    PROVE  Graded(SupervisorFindings(pg))
<1> DEFINE Optional(id, missing, present) == Presence("supervisor", id, missing, present)
           a == UpFinding("supervisor", pg.up)
           b == Optional("info", "info_missing", pg.info)
           c == CounterFinding("supervisor", "access_list_verify_failure",
                    "access_list_verify_failure_missing", pg.access_list_verify_failure)
           d == Optional("logdb_entries", "logdb_entries_missing", pg.logdb_entries)
           e == Optional("rpc_metrics", "rpc_metrics_missing", pg.rpc_metrics)
           m == Service("supervisor", "refs_missing", "warn")
           o == Service("supervisor", "refs", "ok")
           p == ExpectedChainsFinding(pg.refs)
           q == RefTypesFinding(pg.refs)
<1>1. Graded({a}) /\ Graded({b}) /\ Graded({c}) /\ Graded({d}) /\ Graded({e})
  BY UpGraded, PresenceGraded, CounterGraded
<1>2. Graded({m}) /\ Graded({o}) /\ Graded({p}) /\ Graded({q})
  BY ServiceGraded, ExpectedChainsGraded, RefTypesGraded DEF Severities
<1>3. SupervisorFindings(pg)
        = {a, b, c, d, e} \cup IF pg.refs = {} THEN {m} ELSE {o, p, q}
  BY DEF SupervisorFindings
<1> HIDE DEF a, b, c, d, e, m, o, p, q
<1>4. /\ {a, b, c, d, e} = {a} \cup ({b} \cup ({c} \cup ({d} \cup {e})))
      /\ {o, p, q} = {o} \cup ({p} \cup {q})
  OBVIOUS
<1>5. Graded({a, b, c, d, e})
  <2>1. Graded({d} \cup {e})
    BY <1>1, GradedPair
  <2>2. Graded({c} \cup ({d} \cup {e}))
    BY <1>1, <2>1, GradedPair
  <2>3. Graded({b} \cup ({c} \cup ({d} \cup {e})))
    BY <1>1, <2>2, GradedPair
  <2>4. Graded({a} \cup ({b} \cup ({c} \cup ({d} \cup {e}))))
    BY <1>1, <2>3, GradedPair
  <2> QED
    BY <1>4, <2>4
<1>6. Graded({o, p, q})
  <2>1. Graded({p} \cup {q})
    BY <1>2, GradedPair
  <2>2. Graded({o} \cup ({p} \cup {q}))
    BY <1>2, <2>1, GradedPair
  <2> QED
    BY <1>4, <2>2
<1>7. Graded(IF pg.refs = {} THEN {m} ELSE {o, p, q})
  BY <1>2, <1>6
<1> QED
  BY <1>3, <1>5, <1>7, GradedUnion

LEMMA MonitorGraded ==
    ASSUME NEW pg
    PROVE  Graded(MonitorFindings(pg))
<1> DEFINE a == UpFinding("monitor", pg.up)
           b == MessageStatusFinding(pg.message_status)
           c == CounterFinding("monitor", "terminal_status_changes",
                    "terminal_status_changes_missing", pg.terminal_status_changes)
           d == Presence("monitor", "block_ranges", "block_ranges_missing", pg.block_ranges)
<1>1. Graded({a}) /\ Graded({b}) /\ Graded({c}) /\ Graded({d})
  BY UpGraded, MessageStatusGraded, PresenceGraded, CounterGraded
<1>2. MonitorFindings(pg) = {a, b, c, d}
  BY DEF MonitorFindings
<1> HIDE DEF a, b, c, d
<1>3. {a, b, c, d} = {a} \cup ({b} \cup ({c} \cup {d}))
  OBVIOUS
<1>4. Graded({c} \cup {d})
  BY <1>1, GradedPair
<1>5. Graded({b} \cup ({c} \cup {d}))
  BY <1>1, <1>4, GradedPair
<1>6. Graded({a} \cup ({b} \cup ({c} \cup {d})))
  BY <1>1, <1>5, GradedPair
<1> QED
  BY <1>2, <1>3, <1>6

-----------------------------------------------------------------------------
(* Type correctness *)

\* Findings that grow by graded ones are graded.
LEMMA EmitGraded ==
    ASSUME Graded(findings), NEW fs, Graded(fs), Emit(fs)
    PROVE  Graded(findings')
<1>1. findings' = findings \cup fs
  BY DEF Emit
<1> QED
  BY <1>1, GradedUnion

LEMMA FaultsCounted ==
    ASSUME faults \in 0 .. MaxFaults, Answered \/ Failed
    PROVE  faults' \in 0 .. MaxFaults
BY BoundsAssumption DEF Answered, Failed

\* An action of the doctor leaves the deployment and the deadline alone.
LEMMA WorldStands ==
    ASSUME World, UNCHANGED world, faults' \in 0 .. MaxFaults
    PROVE  World'
BY DEF World, world

LEMMA DependencyGraded ==
    ASSUME NEW id, NEW severity, severity \in Severities
    PROVE  Graded({Dependency(id, severity)})
BY FindingGraded DEF Dependency

LEMMA DoctorsStand ==
    ASSUME Types, UNCHANGED config, phase' \in Phases,
           k' \in 1 .. Len(config.dependencies) + 1,
           phase' \in {"head", "metrics"} => k' \in Deps
    PROVE  Doctors'
BY DEF Doctors, Deps

\* A scrape of a service emits graded findings.
LEMMA ScrapeGraded ==
    ASSUME Types, NEW name, NEW configured, NEW detected, NEW fs, Graded(fs),
           ScrapeService(name, configured, detected, fs)
    PROVE  Graded(findings') /\ faults' \in 0 .. MaxFaults
<1>1. faults \in 0 .. MaxFaults /\ Graded(findings)
  BY DEF Types, World
<1>2. /\ Graded({Service(name, "metrics_endpoint", "info")})
      /\ Graded({Service(name, "metrics_fetch", "ok")})
      /\ Graded({Service(name, "metrics_names", "ok")})
      /\ Graded({Service(name, "metrics_names", "warn")})
      /\ Graded({Service(name, "metrics_fetch", "warn")})
  BY ServiceGraded DEF Severities
<1>3. CASE UNCHANGED faults /\ Emit({Service(name, "metrics_endpoint", "info")})
  BY <1>1, <1>2, <1>3, EmitGraded
<1>4. CASE Answered /\ Emit({Service(name, "metrics_fetch", "ok")}
               \cup IF detected THEN {Service(name, "metrics_names", "ok")} \cup fs
                    ELSE {Service(name, "metrics_names", "warn")})
  <2>1. Graded({Service(name, "metrics_names", "ok")} \cup fs)
    BY <1>2, GradedPair
  <2>2. Graded(IF detected THEN {Service(name, "metrics_names", "ok")} \cup fs
               ELSE {Service(name, "metrics_names", "warn")})
    BY <1>2, <2>1
  <2>3. Graded({Service(name, "metrics_fetch", "ok")}
               \cup IF detected THEN {Service(name, "metrics_names", "ok")} \cup fs
                    ELSE {Service(name, "metrics_names", "warn")})
    BY <1>2, <2>2, GradedPair
  <2> QED
    BY <1>1, <1>4, <2>3, EmitGraded, FaultsCounted
<1>5. CASE Failed /\ Emit({Service(name, "metrics_fetch", "warn")})
  BY <1>1, <1>2, <1>5, EmitGraded, FaultsCounted
<1> QED
  BY <1>3, <1>4, <1>5 DEF ScrapeService

LEMMA InitTypes ==
    ASSUME Init
    PROVE  Types
<1>1. PICK d \in Deployments : config = d[1] /\ pages = d[2] /\ chain = d[3]
  BY DEF Init
<1>2. d = <<d[1], d[2], d[3]>>
  BY DataAssumption
<1>3. World
  <2>1. <<config, pages, chain>> \in Deployments
    BY <1>1, <1>2
  <2>2. faults \in 0 .. MaxFaults
    BY BoundsAssumption DEF Init
  <2>3. expired \in BOOLEAN
    BY DEF Init
  <2> QED
    BY <2>1, <2>2, <2>3 DEF World
<1>4. Len(config.dependencies) \in Nat
  BY <1>3, DeploymentTypes
<1>5. Doctors
  BY <1>4 DEF Init, Doctors, Phases
<1>6. Graded(findings)
  BY FS_EmptySet DEF Init, Graded
<1> QED
  BY <1>3, <1>5, <1>6 DEF Types

LEMMA NextTypes ==
    ASSUME Types, [Next]_vars
    PROVE  Types'
<1>1. /\ World /\ Doctors /\ Graded(findings)
      /\ faults \in 0 .. MaxFaults /\ k \in 1 .. Len(config.dependencies) + 1
      /\ Len(config.dependencies) \in Nat
  BY DeploymentTypes DEF Types, World, Doctors
<1>2. ASSUME Expire
      PROVE  Types'
  <2>1. World' /\ Doctors' /\ findings' = findings
    BY <1>1, <1>2 DEF Expire, World, Doctors, doctor, Deps
  <2> QED
    BY <1>1, <2>1 DEF Types
<1>3. ASSUME Start
      PROVE  Types'
  <2>1. /\ Graded({Finding(<<"interop", "scope">>, "info", <<"interop">>, NoSample)})
        /\ Graded({Finding(<<"interop", "disabled">>, "info", <<"interop">>, NoSample)})
    BY FindingGraded DEF Severities
  <2>2. Graded(findings')
    BY <1>1, <1>3, <2>1, EmitGraded DEF Start
  <2>3. World' /\ Doctors'
    <3>1. UNCHANGED <<world, faults, k>> /\ phase' \in {"supervisor", "done"}
      BY <1>3 DEF Start
    <3> QED
      BY <1>1, <3>1, WorldStands, DoctorsStand DEF world, Phases, Types
  <2> QED
    BY <2>2, <2>3 DEF Types
<1>4. ASSUME SupervisorMetrics
      PROVE  Types'
  <2>1. Graded(findings') /\ faults' \in 0 .. MaxFaults
    BY <1>4, ScrapeGraded, SupervisorGraded DEF SupervisorMetrics
  <2>2. UNCHANGED <<world, k>> /\ phase' = "monitor"
    BY <1>4 DEF SupervisorMetrics
  <2>3. World' /\ Doctors'
    BY <1>1, <2>1, <2>2, WorldStands, DoctorsStand DEF world, Phases, Types
  <2> QED
    BY <2>1, <2>3 DEF Types
<1>5. ASSUME MonitorMetrics
      PROVE  Types'
  <2>1. Graded(findings') /\ faults' \in 0 .. MaxFaults
    BY <1>5, ScrapeGraded, MonitorGraded DEF MonitorMetrics
  <2>2. UNCHANGED <<world, k>> /\ phase' = "dependency"
    BY <1>5 DEF MonitorMetrics
  <2>3. World' /\ Doctors'
    BY <1>1, <2>1, <2>2, WorldStands, DoctorsStand DEF world, Phases, Types
  <2> QED
    BY <2>1, <2>3 DEF Types
<1>6. ASSUME NoDependencies
      PROVE  Types'
  <2>1. Graded({Finding(<<"interop", "dependencies">>, "warn",
                        <<"interop", "dependencies">>, NoSample)})
    BY FindingGraded DEF Severities
  <2>2. Graded(findings')
    BY <1>1, <1>6, <2>1, EmitGraded DEF NoDependencies
  <2>3. UNCHANGED <<world, faults, k>> /\ phase' = "done"
    BY <1>6 DEF NoDependencies
  <2>4. World' /\ Doctors'
    BY <1>1, <2>3, WorldStands, DoctorsStand DEF world, Phases, Types
  <2> QED
    BY <2>2, <2>4 DEF Types
<1>7. ASSUME MissingRPC
      PROVE  Types'
  <2>1. Graded(findings')
    BY <1>1, <1>7, DependencyGraded, EmitGraded DEF MissingRPC, Severities
  <2>2. UNCHANGED <<world, faults>> /\ phase' = "dependency" /\ k' = k + 1 /\ k \in Deps
    BY <1>7 DEF MissingRPC, NextDependency
  <2>3. World' /\ Doctors'
    BY <1>1, <2>2, WorldStands, DoctorsStand DEF world, Phases, Types, Deps
  <2> QED
    BY <2>1, <2>3 DEF Types
<1>8. ASSUME ChainID
      PROVE  Types'
  <2> DEFINE severity == IF chain[k] # Dep.chainId THEN "warn" ELSE "ok"
  <2>1. /\ Graded({Dependency("chain_id", severity)})
        /\ Graded({Dependency("rpc", "warn")})
    <3>1. severity \in Severities
      BY DEF Severities
    <3> QED
      BY <3>1, DependencyGraded DEF Severities
  <2>2. Graded(findings') /\ faults' \in 0 .. MaxFaults
    BY <1>1, <1>8, <2>1, EmitGraded, FaultsCounted DEF ChainID
  <2>3. UNCHANGED <<world, k>> /\ phase' = "head" /\ k \in Deps
    BY <1>8 DEF ChainID
  <2>4. World' /\ Doctors'
    BY <1>1, <2>2, <2>3, WorldStands, DoctorsStand DEF world, Phases, Types
  <2> QED
    BY <2>2, <2>4 DEF Types
<1>9. ASSUME BlockNumber
      PROVE  Types'
  <2>1. Graded({Dependency("head", "ok")}) /\ Graded({Dependency("head", "warn")})
    BY DependencyGraded DEF Severities
  <2>2. Graded(findings') /\ faults' \in 0 .. MaxFaults
    BY <1>1, <1>9, <2>1, EmitGraded, FaultsCounted DEF BlockNumber
  <2>3. UNCHANGED <<world, k>> /\ phase' = "metrics" /\ k \in Deps
    BY <1>1, <1>9 DEF BlockNumber, Doctors
  <2>4. World' /\ Doctors'
    BY <1>1, <2>2, <2>3, WorldStands, DoctorsStand DEF world, Phases, Types
  <2> QED
    BY <2>2, <2>4 DEF Types
<1>10. ASSUME DependencyMetrics
       PROVE  Types'
  <2>1. Graded({Dependency("metrics", "ok")}) /\ Graded({Dependency("metrics", "warn")})
    BY DependencyGraded DEF Severities
  <2>2. Graded(findings') /\ faults' \in 0 .. MaxFaults
    BY <1>1, <1>10, <2>1, EmitGraded, FaultsCounted DEF DependencyMetrics
  <2>3. UNCHANGED world /\ phase' = "dependency" /\ k' = k + 1 /\ k \in Deps
    BY <1>1, <1>10 DEF DependencyMetrics, NextDependency, Doctors
  <2>4. World' /\ Doctors'
    BY <1>1, <2>2, <2>3, WorldStands, DoctorsStand DEF world, Phases, Types, Deps
  <2> QED
    BY <2>2, <2>4 DEF Types
<1>11. ASSUME Return
       PROVE  Types'
  <2>1. UNCHANGED <<world, faults, k, findings>> /\ phase' = "done"
    BY <1>11 DEF Return
  <2>2. World' /\ Doctors'
    BY <1>1, <2>1, WorldStands, DoctorsStand DEF world, Phases, Types
  <2> QED
    BY <1>1, <2>1, <2>2 DEF Types
<1>12. CASE UNCHANGED vars
  <2>1. World' /\ Doctors' /\ findings' = findings
    BY <1>1, <1>12 DEF vars, world, doctor, World, Doctors, Deps
  <2> QED
    BY <1>1, <2>1 DEF Types
<1> QED
  BY <1>2, <1>3, <1>4, <1>5, <1>6, <1>7, <1>8, <1>9, <1>10, <1>11, <1>12 DEF Next, Doctor

(***************************************************************************)
(* Every variable of the interop check keeps its type.                     *)
(***************************************************************************)
THEOREM InteropTypeCorrect == Spec => []TypeOK
<1>1. Init => Types
  BY InitTypes
<1>2. Types /\ [Next]_vars => Types'
  BY NextTypes
<1>3. Types => TypeOK
  BY DEF Types, World, Doctors, Graded, TypeOK
<1> QED
  BY <1>1, <1>2, <1>3, PTL DEF Spec
-----------------------------------------------------------------------------
(* Completeness *)

Reported(d, id) == HasFinding(findings, <<"interop", config.dependencies[d].name, id>>)

Asked(d) == \E id \in {"rpc", "chain_id"} : Reported(d, id)

Complete(d) ==
    IF config.dependencies[d].rpc
    THEN Asked(d) /\ Reported(d, "head") /\ Reported(d, "metrics")
    ELSE Reported(d, "rpc")

(***************************************************************************)
(* The inductive invariant: the dependencies before k have their verdicts, *)
(* dependency k has those of the calls made so far, and the check is only  *)
(* done after the last dependency.                                         *)
(***************************************************************************)
CompleteInv ==
    /\ \A d \in Deps : d < k => Complete(d)
    /\ phase \in {"head", "metrics"} => Dep.rpc /\ Asked(k)
    /\ phase = "metrics" => Reported(k, "head")
    /\ phase = "done" /\ config.enabled => k \notin Deps

\* What was reported stays so.
LEMMA ReportsStay ==
    ASSUME UNCHANGED config, findings \subseteq findings'
    PROVE  /\ \A d, id : Reported(d, id) => Reported(d, id)'
           /\ \A d : Asked(d) => Asked(d)'
           /\ \A d : Complete(d) => Complete(d)'
<1>1. \A d, id : Reported(d, id) => Reported(d, id)'
  BY DEF Reported, HasFinding
<1>2. \A d : Asked(d) => Asked(d)'
  BY <1>1 DEF Asked
<1> QED
  BY <1>1, <1>2 DEF Complete

\* A finding about Dep is a report on dependency k.
LEMMA DependencyReported ==
    ASSUME NEW d, d = k, NEW id, NEW severity, UNCHANGED config, Emit({Dependency(id, severity)})
    PROVE  Reported(d, id)'
<1>1. Dependency(id, severity) \in findings'
  BY DEF Emit
<1>2. Dependency(id, severity).id = <<"interop", config.dependencies[d].name, id>>
  BY DEF Dependency, Finding, Dep
<1>3. HasFinding(findings', <<"interop", config.dependencies[d].name, id>>)
  BY <1>1, <1>2 DEF HasFinding
<1> QED
  BY <1>3 DEF Reported

\* Dependency d has been dealt with: the invariant moves on to the next one.
LEMMA CompleteMovesOn ==
    ASSUME Types, CompleteInv, UNCHANGED config, findings \subseteq findings',
           NEW d, d = k, d \in Deps, Complete(d)', k' = k + 1, phase' = "dependency"
    PROVE  CompleteInv'
<1>1. k \in Nat /\ Len(config.dependencies) \in Nat
  BY DeploymentTypes DEF Types, Doctors
<1>2. ASSUME NEW x \in Deps', x < k'
      PROVE  Complete(x)'
  <2>1. x \in Deps /\ (x < k \/ x = d)
    BY <1>1, <1>2 DEF Deps
  <2> QED
    BY <2>1, ReportsStay DEF CompleteInv
<1> QED
  BY <1>2 DEF CompleteInv

\* A step that stays before or after the dependencies.
LEMMA CompleteStands ==
    ASSUME CompleteInv, UNCHANGED <<config, k>>, findings \subseteq findings',
           phase' \notin {"head", "metrics"},
           phase' = "done" /\ config.enabled => k \notin Deps
    PROVE  CompleteInv'
<1>1. Deps' = Deps
  BY DEF Deps
<1>2. ASSUME NEW x \in Deps', x < k'
      PROVE  Complete(x)'
  BY <1>1, <1>2, ReportsStay DEF CompleteInv
<1> QED
  BY <1>1, <1>2 DEF CompleteInv

LEMMA EmitGrows ==
    ASSUME NEW fs, Emit(fs)
    PROVE  findings \subseteq findings'
BY DEF Emit

LEMMA ScrapeGrows ==
    ASSUME NEW name, NEW configured, NEW detected, NEW fs,
           ScrapeService(name, configured, detected, fs)
    PROVE  findings \subseteq findings'
BY EmitGrows DEF ScrapeService

LEMMA NextComplete ==
    ASSUME Types, CompleteInv, [Next]_vars
    PROVE  CompleteInv'
<1>1. Types'
  BY NextTypes
<1>2. ASSUME UNCHANGED <<config, doctor>>
      PROVE  CompleteInv'
  <2>1. Deps' = Deps /\ Dep' = Dep /\ \A d, id : Reported(d, id)' = Reported(d, id)
    BY <1>2 DEF Deps, Dep, Reported, HasFinding, doctor
  <2>2. \A d : (Asked(d)' <=> Asked(d)) /\ (Complete(d)' <=> Complete(d))
    BY <1>2, <2>1 DEF Asked, Complete
  <2> QED
    BY <1>2, <2>1, <2>2 DEF CompleteInv, doctor
<1>3. ASSUME Start
      PROVE  CompleteInv'
  BY <1>3, EmitGrows, CompleteStands DEF Start, world
<1>4. ASSUME SupervisorMetrics
      PROVE  CompleteInv'
  BY <1>4, ScrapeGrows, CompleteStands DEF SupervisorMetrics, world
<1>5. ASSUME MonitorMetrics
      PROVE  CompleteInv'
  BY <1>5, ScrapeGrows, CompleteStands DEF MonitorMetrics, world
<1>6. ASSUME NoDependencies
      PROVE  CompleteInv'
  BY <1>6, EmitGrows, CompleteStands DEF NoDependencies, world
<1>7. ASSUME MissingRPC
      PROVE  CompleteInv'
  <2>1. PICK d : d = k
    OBVIOUS
  <2>2. /\ UNCHANGED config /\ d \in Deps /\ ~Dep.rpc
        /\ k' = k + 1 /\ phase' = "dependency" /\ findings \subseteq findings'
    BY <1>7, <2>1, EmitGrows DEF MissingRPC, NextDependency, world
  <2>3. Reported(d, "rpc")'
    BY <1>7, <2>1, <2>2, DependencyReported DEF MissingRPC
  <2>4. Complete(d)'
    BY <2>1, <2>2, <2>3 DEF Complete, Dep
  <2> QED
    BY <2>1, <2>2, <2>4, CompleteMovesOn
<1>8. ASSUME ChainID
      PROVE  CompleteInv'
  <2>1. PICK d : d = k
    OBVIOUS
  <2>2. /\ UNCHANGED <<config, k>> /\ d \in Deps /\ Dep.rpc
        /\ phase' = "head" /\ findings \subseteq findings'
    BY <1>8, <2>1, EmitGrows DEF ChainID, world
  <2>3. Asked(d)'
    <3>1. Reported(d, "chain_id")' \/ Reported(d, "rpc")'
      BY <1>8, <2>1, <2>2, DependencyReported DEF ChainID
    <3> QED
      BY <3>1 DEF Asked
  <2>4. Deps' = Deps /\ Dep' = Dep /\ k' = d
    BY <2>1, <2>2 DEF Deps, Dep
  <2>5. ASSUME NEW x \in Deps', x < k'
        PROVE  Complete(x)'
    BY <2>2, <2>4, <2>5, ReportsStay DEF CompleteInv
  <2> QED
    BY <2>2, <2>3, <2>4, <2>5 DEF CompleteInv
<1>9. ASSUME BlockNumber
      PROVE  CompleteInv'
  <2>1. PICK d : d = k
    OBVIOUS
  <2>2. /\ UNCHANGED <<config, k>> /\ phase = "head"
        /\ phase' = "metrics" /\ findings \subseteq findings'
    BY <1>9, EmitGrows DEF BlockNumber, world
  <2>3. Reported(d, "head")'
    BY <1>9, <2>1, <2>2, DependencyReported DEF BlockNumber
  <2>4. Deps' = Deps /\ Dep' = Dep /\ k' = d
    BY <2>1, <2>2 DEF Deps, Dep
  <2>5. Dep.rpc /\ Asked(d)'
    BY <2>1, <2>2, ReportsStay DEF CompleteInv
  <2>6. ASSUME NEW x \in Deps', x < k'
        PROVE  Complete(x)'
    BY <2>2, <2>4, <2>6, ReportsStay DEF CompleteInv
  <2> QED
    BY <2>2, <2>3, <2>4, <2>5, <2>6 DEF CompleteInv
<1>10. ASSUME DependencyMetrics
       PROVE  CompleteInv'
  <2>1. PICK d : d = k
    OBVIOUS
  <2>2. /\ UNCHANGED config /\ d \in Deps /\ phase = "metrics"
        /\ k' = k + 1 /\ phase' = "dependency" /\ findings \subseteq findings'
    BY <1>10, <2>1, EmitGrows DEF DependencyMetrics, NextDependency, world, Types, Doctors
  <2>3. Reported(d, "metrics")'
    BY <1>10, <2>1, <2>2, DependencyReported DEF DependencyMetrics
  <2>4. Dep.rpc /\ Asked(d)' /\ Reported(d, "head")'
    BY <2>1, <2>2, ReportsStay DEF CompleteInv
  <2>5. Complete(d)'
    BY <2>1, <2>2, <2>3, <2>4 DEF Complete, Dep
  <2> QED
    BY <2>1, <2>2, <2>5, CompleteMovesOn
<1>11. ASSUME Return
       PROVE  CompleteInv'
  BY <1>11, CompleteStands DEF Return, world
<1> QED
  <2>1. ASSUME Expire \/ UNCHANGED vars
        PROVE  CompleteInv'
    BY <1>2, <2>1 DEF Expire, vars, world
  <2> QED
    BY <2>1, <1>3, <1>4, <1>5, <1>6, <1>7, <1>8, <1>9, <1>10, <1>11 DEF Next, Doctor

LEMMA CompleteInvariant == Spec => [](Types /\ CompleteInv)
<1>1. Init => Types /\ CompleteInv
  <2>1. ASSUME Init
        PROVE  CompleteInv
    <3>1. \A d \in Deps : ~(d < k)
      BY <2>1, InitTypes, DeploymentTypes DEF Init, Deps, Types
    <3> QED
      BY <2>1, <3>1 DEF Init, CompleteInv
  <2> QED
    BY <2>1, InitTypes
<1>2. (Types /\ CompleteInv) /\ [Next]_vars => (Types /\ CompleteInv)'
  BY NextTypes, NextComplete
<1> QED
  BY <1>1, <1>2, PTL DEF Spec

\* At the end every dependency has been dealt with.
LEMMA AllComplete ==
    ASSUME Types, CompleteInv, phase = "done", config.enabled, NEW d \in Deps
    PROVE  Complete(d)
<1>1. k \in 1 .. Len(config.dependencies) + 1 /\ k \notin Deps
      /\ Len(config.dependencies) \in Nat
  BY DeploymentTypes DEF CompleteInv, Types, Doctors
<1>2. d < k
  BY <1>1 DEF Deps
<1> QED
  BY <1>2 DEF CompleteInv

(***************************************************************************)
(* Every dependency with an RPC URL is asked for everything, whatever of   *)
(* it fails, for every dependency set.                                     *)
(***************************************************************************)
THEOREM EveryDependencyIsJudged == Spec => []DependenciesAreComplete
<1>1. Types /\ CompleteInv => DependenciesAreComplete
  BY AllComplete DEF DependenciesAreComplete, Complete, Asked, Reported
<1> QED
  BY <1>1, CompleteInvariant, PTL
-----------------------------------------------------------------------------
(* The agreement with Validate *)

ExpectedChainIssues(interop) ==
    {Issue("fail", <<"interop.supervisor.expected_chains", i>>) :
        i \in {x \in DOMAIN interop.expectedChains : interop.expectedChains[x] = 0}}

RPCIssues(deps) ==
    {Issue("fail", <<"interop.dependencies", d, "rpc">>) : d \in {x \in DOMAIN deps : ~deps[x].rpc}}

LEMMA InteropIssuesAre ==
    InteropIssues(config) = ExpectedChainIssues(config)
                            \cup (DependencyChainIssues(config.dependencies)
                                  \cup RPCIssues(config.dependencies))
BY DEF InteropIssues, ExpectedChainIssues, DependencyIssues, RPCIssues

LEMMA InteropIssuesFinite ==
    ASSUME World
    PROVE  IsFiniteSet(InteropIssues(config))
<1> DEFINE A == {x \in DOMAIN config.expectedChains : config.expectedChains[x] = 0}
           B == {x \in DOMAIN config.dependencies : config.dependencies[x].chainId = 0}
           C == {x \in DOMAIN config.dependencies : ~config.dependencies[x].rpc}
           a == [i \in A |-> Issue("fail", <<"interop.supervisor.expected_chains", i>>)]
           b == [d \in B |-> Issue("fail", <<"interop.dependencies", d, "chain_id">>)]
           c == [d \in C |-> Issue("fail", <<"interop.dependencies", d, "rpc">>)]
<1>1. /\ config.expectedChains \in Seq(Chains) /\ config.dependencies \in Seq(DependencyType)
  BY DeploymentTypes DEF ConfigType
<1>2. IsFiniteSet(DOMAIN config.expectedChains) /\ IsFiniteSet(DOMAIN config.dependencies)
  BY <1>1, FS_Interval
<1>3. IsFiniteSet(A) /\ IsFiniteSet(B) /\ IsFiniteSet(C)
  BY <1>2, FS_Subset
<1>4. IsFiniteSet(IssuesAt(A, a)) /\ IsFiniteSet(IssuesAt(B, b)) /\ IsFiniteSet(IssuesAt(C, c))
  BY <1>3, IssuesFinite
<1>5. IssuesAt(A, a) = ExpectedChainIssues(config)
  BY DEF IssuesAt, ExpectedChainIssues
<1>6. IssuesAt(B, b) = DependencyChainIssues(config.dependencies)
  BY DEF IssuesAt, DependencyChainIssues
<1>7. IssuesAt(C, c) = RPCIssues(config.dependencies)
  BY DEF IssuesAt, RPCIssues
<1> HIDE DEF A, B, C, a, b, c
<1>8. IsFiniteSet(IssuesAt(B, b) \cup IssuesAt(C, c))
  BY <1>4, FS_Union
<1>9. IsFiniteSet(IssuesAt(A, a) \cup (IssuesAt(B, b) \cup IssuesAt(C, c)))
  BY <1>4, <1>8, FS_Union
<1> QED
  BY <1>5, <1>6, <1>7, <1>9, InteropIssuesAre

\* What is true of every dependency, and of the expected chains, if validate accepts.
LEMMA AcceptedInterop ==
    ASSUME World, Accepted(InteropIssues(config))
    PROVE  /\ \A d \in Deps : config.dependencies[d].rpc /\ config.dependencies[d].chainId # 0
           /\ \A i \in DOMAIN config.expectedChains : config.expectedChains[i] # 0
<1>1. \A f \in InteropIssues(config) : f.severity # "fail"
  BY InteropIssuesFinite, AcceptedMeans
<1>2. Deps = DOMAIN config.dependencies
  BY DeploymentTypes DEF Deps
<1>3. ASSUME NEW d \in Deps
      PROVE  config.dependencies[d].rpc
  <2>1. CASE ~config.dependencies[d].rpc
    <3>1. Issue("fail", <<"interop.dependencies", d, "rpc">>) \in RPCIssues(config.dependencies)
      BY <1>2, <2>1 DEF RPCIssues
    <3> QED
      BY <1>1, <3>1, IssueFields, InteropIssuesAre
  <2> QED
    BY <2>1
<1>4. ASSUME NEW d \in Deps
      PROVE  config.dependencies[d].chainId # 0
  <2>1. CASE config.dependencies[d].chainId = 0
    <3>1. Issue("fail", <<"interop.dependencies", d, "chain_id">>)
            \in DependencyChainIssues(config.dependencies)
      BY <1>2, <2>1 DEF DependencyChainIssues
    <3> QED
      BY <1>1, <3>1, IssueFields, InteropIssuesAre
  <2> QED
    BY <2>1
<1>5. ASSUME NEW i \in DOMAIN config.expectedChains
      PROVE  config.expectedChains[i] # 0
  <2>1. CASE config.expectedChains[i] = 0
    <3>1. Issue("fail", <<"interop.supervisor.expected_chains", i>>) \in ExpectedChainIssues(config)
      BY <2>1 DEF ExpectedChainIssues
    <3> QED
      BY <1>1, <3>1, IssueFields, InteropIssuesAre
  <2> QED
    BY <2>1
<1> QED
  BY <1>3, <1>4, <1>5

LEMMA RPCIssueMeans ==
    ASSUME NEW d, Issue("fail", <<"interop.dependencies", d, "rpc">>) \in InteropIssues(config)
    PROVE  ~config.dependencies[d].rpc
<1> DEFINE field == <<"interop.dependencies", d, "rpc">>
<1>1. Issue("fail", field) \notin ExpectedChainIssues(config)
  <2>1. \A i : <<"interop.supervisor.expected_chains", i>> # field
    OBVIOUS
  <2> HIDE DEF field
  <2> QED
    BY <2>1, IssuesDiffer DEF ExpectedChainIssues
<1>2. Issue("fail", field) \notin DependencyChainIssues(config.dependencies)
  <2>1. \A x : <<"interop.dependencies", x, "chain_id">> # field
    OBVIOUS
  <2> HIDE DEF field
  <2> QED
    BY <2>1, IssuesDiffer DEF DependencyChainIssues
<1>3. PICK x \in DOMAIN config.dependencies :
        /\ ~config.dependencies[x].rpc
        /\ Issue("fail", field) = Issue("fail", <<"interop.dependencies", x, "rpc">>)
  <2> HIDE DEF field
  <2>1. Issue("fail", field) \in RPCIssues(config.dependencies)
    BY <1>1, <1>2, InteropIssuesAre DEF field
  <2> QED
    BY <2>1 DEF RPCIssues
<1>4. field = <<"interop.dependencies", x, "rpc">>
  BY <1>3, IssuesDiffer
<1>5. x = d
  BY <1>4
<1> QED
  BY <1>3, <1>5

(***************************************************************************)
(* Validate and the checks agree on every interop section: a dependency    *)
(* whose URL Validate misses is warned about at run time, and an accepted  *)
(* section leaves no dependency unread and no chain unexpected.            *)
(***************************************************************************)
THEOREM ValidateAgrees == Spec => []ValidationAgreesWithInterop
<1>1. ASSUME Types, CompleteInv, phase = "done", config.enabled
      PROVE  ValidationAgreesWithInterop
  <2> DEFINE issues == InteropIssues(config)
             Has(d, id) == HasFinding(findings, <<"interop", config.dependencies[d].name, id>>)
  <2>1. ASSUME NEW d \in Deps, Issue("fail", <<"interop.dependencies", d, "rpc">>) \in issues
        PROVE  Has(d, "rpc")
    <3>1. ~config.dependencies[d].rpc
      BY <2>1, RPCIssueMeans
    <3> QED
      BY <1>1, <3>1, AllComplete DEF Complete, Reported
  <2>2. ASSUME Accepted(issues)
        PROVE  /\ \A d \in Deps : Has(d, "head") /\ Has(d, "metrics")
               /\ \A d \in Deps : config.dependencies[d].chainId \in expectedInteropChains
               /\ 0 \notin ExpectedChains
    <3>1. /\ \A d \in Deps : config.dependencies[d].rpc /\ config.dependencies[d].chainId # 0
          /\ \A i \in DOMAIN config.expectedChains : config.expectedChains[i] # 0
      BY <1>1, <2>2, AcceptedInterop DEF Types
    <3>2. \A d \in Deps : Has(d, "head") /\ Has(d, "metrics")
      BY <1>1, <3>1, AllComplete DEF Complete, Reported
    <3>3. \A d \in Deps : config.dependencies[d].chainId \in expectedInteropChains
      BY <3>1 DEF expectedInteropChains
    <3>4. 0 \notin ExpectedChains
      <4>1. 0 \notin expectedInteropChains
        BY DEF expectedInteropChains
      <4>2. 0 \notin ToSet(config.expectedChains)
        BY <3>1 DEF ToSet
      <4> QED
        BY <4>1, <4>2 DEF ExpectedChains
    <3> QED
      BY <3>2, <3>3, <3>4
  <2> QED
    BY <2>1, <2>2 DEF ValidationAgreesWithInterop
<1>2. Types /\ CompleteInv => ValidationAgreesWithInterop
  BY <1>1 DEF ValidationAgreesWithInterop
<1> QED
  BY <1>2, CompleteInvariant, PTL
-----------------------------------------------------------------------------
(* The gate of --fail-on warn *)

EmptySet == Finding(<<"interop", "dependencies">>, "warn", <<"interop", "dependencies">>, NoSample)

\* Of what --fail-on warn stops at, all but an empty dependency set.
Alarms(f) == f.severity \in {"warn", "fail"} /\ f.target # <<"interop", "dependencies">>

Alarming(fs) == \E f \in fs : Alarms(f)

LEMMA AlarmStays ==
    ASSUME NEW S, NEW T, S \subseteq T, ~Alarming(T)
    PROVE  ~Alarming(S)
BY DEF Alarming

\* Dependency d has a finding id of severity ok.
Fine(d, id) ==
    \E f \in findings : f.id = <<"interop", config.dependencies[d].name, id>> /\ f.severity = "ok"

FineChain(d) ==
    config.dependencies[d].rpc /\ chain[d] = config.dependencies[d].chainId /\ Fine(d, "chain_id")

FineMetrics(d) == config.dependencies[d].metrics /\ Fine(d, "metrics")

Sound(d) == FineChain(d) /\ Fine(d, "head") /\ FineMetrics(d)

SupervisorSound ==
    config.supervisor =>
        /\ pages.supervisor.up = {1}
        /\ ExpectedChains \subseteq {r.chain : r \in pages.supervisor.refs}

MonitorSound ==
    config.monitor =>
        /\ pages.monitor.up = {1} /\ pages.monitor.message_status # {}
        /\ \A s \in pages.monitor.message_status : s.risky => s.value = 0

(***************************************************************************)
(* The inductive invariant: as long as nothing warns or fails but for an   *)
(* empty dependency set, no call has failed, and whatever has been read so *)
(* far was sound; and an empty dependency set is reported.                 *)
(***************************************************************************)
SoundSoFar ==
    /\ faults = 0
    /\ \A d \in Deps : d < k => Sound(d)
    /\ phase \in {"head", "metrics"} => FineChain(k)
    /\ phase = "metrics" => Fine(k, "head")
    /\ phase \notin {"start", "supervisor"} /\ config.enabled => SupervisorSound
    /\ phase \notin {"start", "supervisor", "monitor"} /\ config.enabled => MonitorSound
    /\ phase = "done" /\ config.enabled => k \notin Deps

EmptyIsReported == phase = "done" /\ config.enabled /\ Deps = {} => EmptySet \in findings

GateInv == (~Alarming(findings) => SoundSoFar) /\ EmptyIsReported

\* What was fine stays so.
LEMMA FineStays ==
    ASSUME UNCHANGED <<config, pages, chain>>, findings \subseteq findings'
    PROVE  /\ \A d, id : Fine(d, id) => Fine(d, id)'
           /\ \A d : FineChain(d) => FineChain(d)'
           /\ \A d : Sound(d) => Sound(d)'
           /\ SupervisorSound => SupervisorSound'
           /\ MonitorSound => MonitorSound'
<1>1. \A d, id : Fine(d, id) => Fine(d, id)'
  BY DEF Fine
<1>2. \A d : FineChain(d) => FineChain(d)'
  BY <1>1 DEF FineChain
<1>3. \A d : Sound(d) => Sound(d)'
  BY <1>1, <1>2 DEF Sound, FineMetrics
<1>4. ExpectedChains' = ExpectedChains
  BY DEF ExpectedChains, expectedInteropChains, Deps
<1>5. SupervisorSound => SupervisorSound'
  BY <1>4 DEF SupervisorSound
<1>6. MonitorSound => MonitorSound'
  BY DEF MonitorSound
<1> QED
  BY <1>1, <1>2, <1>3, <1>5, <1>6

LEMMA ServiceAlarms ==
    ASSUME NEW fs, NEW name, NEW id, NEW severity, severity \in {"warn", "fail"},
           Service(name, id, severity) \in fs
    PROVE  Alarming(fs)
<1>1. /\ Service(name, id, severity).severity = severity
      /\ Service(name, id, severity).target # <<"interop", "dependencies">>
  BY DEF Service, Finding
<1> QED
  BY <1>1 DEF Alarming, Alarms

\* If no finding about its page is bad, op-supervisor is sound.
LEMMA SupervisorVerdicts ==
    ASSUME Types, ~Alarming(SupervisorFindings(pages.supervisor))
    PROVE  SupervisorSound
<1> DEFINE pg == pages.supervisor
           fs == SupervisorFindings(pg)
<1>1. UpFinding("supervisor", pg.up) \in fs
  BY DEF SupervisorFindings
<1>2. pg.refs = {} => Service("supervisor", "refs_missing", "warn") \in fs
  BY DEF SupervisorFindings
<1>3. pg.refs # {} => ExpectedChainsFinding(pg.refs) \in fs
  BY DEF SupervisorFindings
<1> HIDE DEF fs, pg
<1>4. ~Alarming(fs)
  BY DEF fs, pg
<1>5. pg.up = {1}
  <2>1. CASE pg.up = {}
    BY <1>1, <1>4, <2>1, ServiceAlarms DEF UpFinding
  <2>2. CASE pg.up # {} /\ \E v \in pg.up : v # 1
    BY <1>1, <1>4, <2>2, ServiceAlarms DEF UpFinding
  <2>3. CASE pg.up # {} /\ ~\E v \in pg.up : v # 1
    BY <2>3
  <2> QED
    BY <2>1, <2>2, <2>3
<1>6. ExpectedChains \subseteq {r.chain : r \in pg.refs}
  <2>1. pg.refs # {}
    BY <1>2, <1>4, ServiceAlarms
  <2>2. CASE ExpectedChains # {} /\ ~(ExpectedChains \subseteq {r.chain : r \in pg.refs})
    <3>1. ExpectedChainsFinding(pg.refs) = Service("supervisor", "expected_chains", "warn")
      BY <2>2 DEF ExpectedChainsFinding
    <3> QED
      BY <1>3, <1>4, <2>1, <3>1, ServiceAlarms
  <2> QED
    BY <2>2
<1> QED
  BY <1>5, <1>6 DEF SupervisorSound, pg

\* If no finding about its page is bad, op-interop-mon is sound.
LEMMA MonitorVerdicts ==
    ASSUME Types, ~Alarming(MonitorFindings(pages.monitor))
    PROVE  MonitorSound
<1> DEFINE pg == pages.monitor
           fs == MonitorFindings(pg)
<1>1. UpFinding("monitor", pg.up) \in fs /\ MessageStatusFinding(pg.message_status) \in fs
  BY DEF MonitorFindings
<1>2. \A s \in pg.message_status : s.value \in Nat
  BY DeploymentTypes DEF Types, MonitorPage
<1> HIDE DEF fs, pg
<1>3. ~Alarming(fs)
  BY DEF fs, pg
<1>4. pg.up = {1}
  <2>1. CASE pg.up = {}
    BY <1>1, <1>3, <2>1, ServiceAlarms DEF UpFinding
  <2>2. CASE pg.up # {} /\ \E v \in pg.up : v # 1
    BY <1>1, <1>3, <2>2, ServiceAlarms DEF UpFinding
  <2>3. CASE pg.up # {} /\ ~\E v \in pg.up : v # 1
    BY <2>3
  <2> QED
    BY <2>1, <2>2, <2>3
<1>5. pg.message_status # {}
  <2>1. CASE pg.message_status = {}
    BY <1>1, <1>3, <2>1, ServiceAlarms DEF MessageStatusFinding
  <2> QED
    BY <2>1
<1>6. ~\E s \in pg.message_status : s.risky /\ s.value > 0
  <2>1. CASE \E s \in pg.message_status : s.risky /\ s.value > 0
    BY <1>1, <1>3, <1>5, <2>1, ServiceAlarms DEF MessageStatusFinding
  <2> QED
    BY <2>1
<1> QED
  BY <1>2, <1>4, <1>5, <1>6 DEF MonitorSound, pg
\* A scrape without a bad finding: no failing call, and no bad verdict on the page.
LEMMA ScrapeVerdicts ==
    ASSUME NEW name, NEW configured, NEW detected, NEW fs,
           ScrapeService(name, configured, detected, fs), ~Alarming(findings')
    PROVE  UNCHANGED faults /\ (configured => ~Alarming(fs))
<1>1. CASE ~configured /\ UNCHANGED faults
  BY <1>1
<1>2. CASE configured /\ Answered
           /\ Emit({Service(name, "metrics_fetch", "ok")}
               \cup IF detected THEN {Service(name, "metrics_names", "ok")} \cup fs
                    ELSE {Service(name, "metrics_names", "warn")})
  <2>1. CASE detected
    <3>1. fs \subseteq findings'
      BY <1>2, <2>1 DEF Emit
    <3>2. ~Alarming(fs)
      BY <3>1, AlarmStays
    <3> QED
      BY <1>2, <3>2 DEF Answered
  <2>2. CASE ~detected
    <3>1. Service(name, "metrics_names", "warn") \in findings'
      BY <1>2, <2>2 DEF Emit
    <3> QED
      BY <3>1, ServiceAlarms
  <2> QED
    BY <2>1, <2>2
<1>3. CASE Emit({Service(name, "metrics_fetch", "warn")})
  <2>1. Service(name, "metrics_fetch", "warn") \in findings'
    BY <1>3 DEF Emit
  <2> QED
    BY <2>1, ServiceAlarms
<1> QED
  BY <1>1, <1>2, <1>3 DEF ScrapeService

\* A finding about Dep in a step after which nothing is bad: it is fine.
LEMMA DependencyFine ==
    ASSUME NEW d, d = k, NEW id, NEW severity, UNCHANGED config,
           Emit({Dependency(id, severity)}), ~Alarming(findings')
    PROVE  severity \notin {"warn", "fail"} /\ (severity = "ok" => Fine(d, id)')
<1>1. Dependency(id, severity) \in findings'
  BY DEF Emit
<1>2. /\ Dependency(id, severity).id = <<"interop", config.dependencies[d].name, id>>
      /\ Dependency(id, severity).severity = severity
      /\ Dependency(id, severity).target # <<"interop", "dependencies">>
  BY DEF Dependency, Finding, Dep
<1>3. severity \notin {"warn", "fail"}
  BY <1>1, <1>2 DEF Alarming, Alarms
<1>4. ASSUME severity = "ok"
      PROVE  Fine(d, id)'
  <2>1. \E f \in findings' : /\ f.id = <<"interop", config.dependencies[d].name, id>>
                             /\ f.severity = "ok"
    BY <1>1, <1>2, <1>4
  <2> QED
    BY <2>1 DEF Fine
<1> QED
  BY <1>3, <1>4

\* A step before or after the dependencies, after which the services are sound.
LEMMA SoundStands ==
    ASSUME SoundSoFar, UNCHANGED <<world, faults, k>>, findings \subseteq findings',
           phase' \notin {"head", "metrics"},
           phase' \notin {"start", "supervisor"} /\ config.enabled => SupervisorSound,
           phase' \notin {"start", "supervisor", "monitor"} /\ config.enabled => MonitorSound,
           phase' = "done" /\ config.enabled => k \notin Deps
    PROVE  SoundSoFar'
<1>1. UNCHANGED <<config, pages, chain>> /\ Deps' = Deps
  BY DEF world, Deps
<1>2. ASSUME NEW x \in Deps', x < k'
      PROVE  Sound(x)'
  BY <1>1, <1>2, FineStays DEF SoundSoFar
<1> QED
  BY <1>1, <1>2, FineStays DEF SoundSoFar

\* A step inside the dependencies.
LEMMA SoundInside ==
    ASSUME SoundSoFar, UNCHANGED <<world, faults, k>>, findings \subseteq findings',
           phase \in {"dependency", "head"}, phase' \in {"head", "metrics"},
           FineChain(k)', phase' = "metrics" => Fine(k, "head")'
    PROVE  SoundSoFar'
<1>1. UNCHANGED <<config, pages, chain>> /\ Deps' = Deps
  BY DEF world, Deps
<1>2. ASSUME NEW x \in Deps', x < k'
      PROVE  Sound(x)'
  BY <1>1, <1>2, FineStays DEF SoundSoFar
<1> QED
  BY <1>1, <1>2, FineStays DEF SoundSoFar

LEMMA NextEmpty ==
    ASSUME EmptyIsReported, [Next]_vars
    PROVE  EmptyIsReported'
<1>1. CASE NoDependencies
  BY <1>1 DEF NoDependencies, Emit, EmptyIsReported, EmptySet
<1>2. CASE Start
  BY <1>2 DEF Start, world, EmptyIsReported
<1>3. CASE Return
  BY <1>3 DEF Return, world, Deps, EmptyIsReported
<1>4. CASE Expire \/ UNCHANGED vars
  BY <1>4 DEF Expire, vars, world, doctor, Deps, EmptyIsReported
<1>5. ASSUME SupervisorMetrics \/ MonitorMetrics \/ MissingRPC \/ ChainID \/ BlockNumber
             \/ DependencyMetrics
      PROVE  phase' # "done"
  BY <1>5 DEF SupervisorMetrics, MonitorMetrics, MissingRPC, ChainID, BlockNumber,
              DependencyMetrics, NextDependency
<1> QED
  BY <1>1, <1>2, <1>3, <1>4, <1>5 DEF Next, Doctor, EmptyIsReported

LEMMA NextGate ==
    ASSUME Types, GateInv, [Next]_vars
    PROVE  GateInv'
<1> SUFFICES ASSUME ~Alarming(findings')
             PROVE  SoundSoFar'
  BY NextEmpty DEF GateInv
<1>1. ASSUME findings \subseteq findings'
      PROVE  SoundSoFar
  BY <1>1, AlarmStays DEF GateInv
<1>2. ASSUME UNCHANGED <<config, pages, chain, faults, doctor>>
      PROVE  SoundSoFar'
  <2>1. SoundSoFar
    BY <1>1, <1>2 DEF doctor
  <2>2. /\ Deps' = Deps /\ \A d : Sound(d) => Sound(d)'
        /\ \A d, id : Fine(d, id) => Fine(d, id)'
        /\ \A d : FineChain(d) => FineChain(d)'
        /\ SupervisorSound => SupervisorSound'
        /\ MonitorSound => MonitorSound'
    BY <1>2, FineStays DEF Deps, doctor
  <2> QED
    BY <1>2, <2>1, <2>2 DEF SoundSoFar, doctor
<1>3. ASSUME Start
      PROVE  SoundSoFar'
  <2>1. findings \subseteq findings' /\ UNCHANGED <<world, faults, k>>
    BY <1>3, EmitGrows DEF Start
  <2>2. phase' = "supervisor" \/ (phase' = "done" /\ ~config.enabled)
    BY <1>3 DEF Start
  <2> QED
    BY <1>1, <2>1, <2>2, SoundStands
<1>4. ASSUME SupervisorMetrics
      PROVE  SoundSoFar'
  <2>1. findings \subseteq findings' /\ UNCHANGED <<world, k>> /\ phase' = "monitor"
    BY <1>4, ScrapeGrows DEF SupervisorMetrics
  <2>2. UNCHANGED faults
        /\ (config.supervisor => ~Alarming(SupervisorFindings(pages.supervisor)))
    BY <1>4, ScrapeVerdicts DEF SupervisorMetrics
  <2>3. SupervisorSound
    <3>1. CASE config.supervisor
      BY <2>2, <3>1, SupervisorVerdicts
    <3>2. CASE ~config.supervisor
      BY <3>2 DEF SupervisorSound
    <3> QED
      BY <3>1, <3>2
  <2> QED
    BY <1>1, <2>1, <2>2, <2>3, SoundStands
<1>5. ASSUME MonitorMetrics
      PROVE  SoundSoFar'
  <2>1. /\ findings \subseteq findings' /\ UNCHANGED <<world, k>>
        /\ phase = "monitor" /\ phase' = "dependency"
    BY <1>5, ScrapeGrows DEF MonitorMetrics
  <2>2. UNCHANGED faults /\ (config.monitor => ~Alarming(MonitorFindings(pages.monitor)))
    BY <1>5, ScrapeVerdicts DEF MonitorMetrics
  <2>3. MonitorSound
    <3>1. CASE config.monitor
      BY <2>2, <3>1, MonitorVerdicts
    <3>2. CASE ~config.monitor
      BY <3>2 DEF MonitorSound
    <3> QED
      BY <3>1, <3>2
  <2>4. config.enabled => SupervisorSound
    BY <1>1, <2>1 DEF SoundSoFar
  <2> QED
    BY <1>1, <2>1, <2>2, <2>3, <2>4, SoundStands
<1>6. ASSUME NoDependencies
      PROVE  SoundSoFar'
  <2>1. /\ findings \subseteq findings' /\ UNCHANGED <<world, faults, k>> /\ Deps = {}
        /\ phase = "dependency" /\ phase' = "done"
    BY <1>6, EmitGrows DEF NoDependencies
  <2>2. SoundSoFar /\ (config.enabled => SupervisorSound /\ MonitorSound)
    BY <1>1, <2>1 DEF SoundSoFar
  <2> QED
    BY <2>1, <2>2, SoundStands
<1>7. ASSUME MissingRPC
      PROVE  SoundSoFar'
  <2>1. Emit({Dependency("rpc", "warn")}) /\ UNCHANGED config
    BY <1>7 DEF MissingRPC, world
  <2> QED
    BY <2>1, DependencyFine
<1>8. ASSUME ChainID
      PROVE  SoundSoFar'
  <2>1. PICK d : d = k
    OBVIOUS
  <2>2. /\ UNCHANGED <<world, k>> /\ UNCHANGED <<config, chain>> /\ Dep.rpc
        /\ phase = "dependency" /\ phase' = "head" /\ findings \subseteq findings'
    BY <1>8, EmitGrows DEF ChainID, world
  <2>3. CASE Failed /\ Emit({Dependency("rpc", "warn")})
    BY <2>2, <2>3, DependencyFine
  <2>4. CASE Answered /\ Emit({Dependency("chain_id",
                                         IF chain[k] # Dep.chainId THEN "warn" ELSE "ok")})
    <3>1. chain[d] = Dep.chainId /\ Fine(d, "chain_id")'
      <4>1. CASE chain[k] # Dep.chainId
        <5>1. Emit({Dependency("chain_id", "warn")})
          BY <2>4, <4>1
        <5> QED
          BY <2>1, <2>2, <5>1, DependencyFine
      <4>2. CASE chain[k] = Dep.chainId
        <5>1. Emit({Dependency("chain_id", "ok")})
          BY <2>4, <4>2
        <5> QED
          BY <2>1, <2>2, <4>2, <5>1, DependencyFine
      <4> QED
        BY <4>1, <4>2
    <3>2. FineChain(d)'
      BY <2>1, <2>2, <3>1 DEF FineChain, Dep
    <3>3. FineChain(k)'
      BY <2>1, <2>2, <3>2
    <3>4. UNCHANGED faults
      BY <2>4 DEF Answered
    <3> QED
      BY <1>1, <2>2, <3>3, <3>4, SoundInside
  <2> QED
    BY <1>8, <2>3, <2>4 DEF ChainID
<1>9. ASSUME BlockNumber
      PROVE  SoundSoFar'
  <2>1. PICK d : d = k
    OBVIOUS
  <2>2. /\ UNCHANGED <<world, k>> /\ UNCHANGED <<config, pages, chain>>
        /\ phase = "head" /\ phase' = "metrics" /\ findings \subseteq findings'
    BY <1>9, EmitGrows DEF BlockNumber, world
  <2>3. CASE Failed /\ Emit({Dependency("head", "warn")})
    BY <2>2, <2>3, DependencyFine
  <2>4. CASE Answered /\ Emit({Dependency("head", "ok")})
    <3>1. Fine(d, "head")'
      BY <2>1, <2>2, <2>4, DependencyFine
    <3>2. FineChain(d)'
      BY <1>1, <2>1, <2>2, FineStays DEF SoundSoFar
    <3>3. FineChain(k)' /\ Fine(k, "head")'
      BY <2>1, <2>2, <3>1, <3>2
    <3>4. UNCHANGED faults
      BY <2>4 DEF Answered
    <3> QED
      BY <1>1, <2>2, <3>3, <3>4, SoundInside
  <2> QED
    BY <1>9, <2>3, <2>4 DEF BlockNumber
<1>10. ASSUME DependencyMetrics
       PROVE  SoundSoFar'
  <2>1. PICK d : d = k
    OBVIOUS
  <2>2. /\ UNCHANGED world /\ UNCHANGED <<config, pages, chain>> /\ phase = "metrics"
        /\ k' = k + 1 /\ phase' = "dependency" /\ findings \subseteq findings'
    BY <1>10, EmitGrows DEF DependencyMetrics, NextDependency, world
  <2>3. CASE Emit({Dependency("metrics", "warn")})
    BY <2>2, <2>3, DependencyFine
  <2>4. CASE Dep.metrics /\ Answered /\ Emit({Dependency("metrics", "ok")})
    <3>1. Fine(d, "metrics")'
      BY <2>1, <2>2, <2>4, DependencyFine
    <3>2. FineChain(d)' /\ Fine(d, "head")'
      BY <1>1, <2>1, <2>2, FineStays DEF SoundSoFar
    <3>3. Sound(d)'
      BY <2>1, <2>2, <2>4, <3>1, <3>2 DEF Sound, FineMetrics, Dep
    <3>4. ASSUME NEW x \in Deps', x < k'
          PROVE  Sound(x)'
      <4>1. k \in Nat /\ Len(config.dependencies) \in Nat /\ Deps' = Deps
        BY <2>2, DeploymentTypes DEF Types, Doctors, Deps
      <4>2. x < k \/ x = d
        BY <2>1, <2>2, <3>4, <4>1 DEF Deps
      <4> QED
        BY <1>1, <2>2, <3>3, <3>4, <4>1, <4>2, FineStays DEF SoundSoFar
    <3>5. UNCHANGED faults
      BY <2>4 DEF Answered
    <3>6. config.enabled => SupervisorSound' /\ MonitorSound'
      BY <1>1, <2>2, FineStays DEF SoundSoFar
    <3> QED
      BY <1>1, <2>2, <3>4, <3>5, <3>6 DEF SoundSoFar
  <2> QED
    BY <1>10, <2>3, <2>4 DEF DependencyMetrics
<1>11. ASSUME Return
       PROVE  SoundSoFar'
  <2>1. /\ UNCHANGED <<world, faults, k, findings>> /\ phase = "dependency" /\ phase' = "done"
        /\ Deps # {} /\ k \notin Deps
    BY <1>11 DEF Return
  <2>2. SoundSoFar /\ (config.enabled => SupervisorSound /\ MonitorSound)
    BY <1>1, <2>1 DEF SoundSoFar
  <2> QED
    BY <2>1, <2>2, SoundStands
<1> QED
  <2>1. ASSUME Expire \/ UNCHANGED vars
        PROVE  SoundSoFar'
    BY <1>2, <2>1 DEF Expire, vars, world
  <2> QED
    BY <2>1, <1>3, <1>4, <1>5, <1>6, <1>7, <1>8, <1>9, <1>10, <1>11 DEF Next, Doctor

LEMMA GateInvariant == Spec => [](Types /\ GateInv)
<1>1. Init => Types /\ GateInv
  <2>1. ASSUME Init
        PROVE  SoundSoFar
    <3>1. \A d \in Deps : ~(d < k)
      BY <2>1, InitTypes, DeploymentTypes DEF Init, Deps, Types
    <3> QED
      BY <2>1, <3>1 DEF Init, SoundSoFar
  <2>2. Init => EmptyIsReported
    BY DEF Init, EmptyIsReported
  <2> QED
    BY <2>1, <2>2, InitTypes DEF GateInv
<1>2. (Types /\ GateInv) /\ [Next]_vars => (Types /\ GateInv)'
  BY NextTypes, NextGate
<1> QED
  BY <1>1, <1>2, PTL DEF Spec

\* What the gate stands for at the end, but for an empty dependency set.
LEMMA QuietMeans ==
    ASSUME Types, GateInv, phase = "done", config.enabled, ~Alarming(findings)
    PROVE  DependenciesAreSound /\ ServicesAreSound
<1>1. SoundSoFar /\ k \notin Deps /\ SupervisorSound /\ MonitorSound /\ faults = 0
  BY DEF GateInv, SoundSoFar
<1>2. ASSUME NEW d \in Deps
      PROVE  Sound(d)
  <2>1. k \in 1 .. Len(config.dependencies) + 1 /\ Len(config.dependencies) \in Nat
    BY DeploymentTypes DEF Types, Doctors
  <2>2. d < k
    BY <1>1, <2>1 DEF Deps
  <2> QED
    BY <1>1, <2>2 DEF SoundSoFar
<1>3. DependenciesAreSound
  BY <1>1, <1>2 DEF DependenciesAreSound, Sound, FineChain, FineMetrics, Fine
<1>4. ServicesAreSound
  BY <1>1 DEF ServicesAreSound, SupervisorSound, MonitorSound
<1> QED
  BY <1>3, <1>4

(***************************************************************************)
(* The gate of --fail-on warn is sound for the interop check: exit code 0  *)
(* means that every dependency was read in full before the deadline and    *)
(* serves its chain, and that the services configured are as they should   *)
(* be, for every dependency set and all pages.                             *)
(***************************************************************************)
THEOREM WarnGateIsSound == Spec => []WarnGateSound
<1>1. ASSUME Types, GateInv, phase = "done", config.enabled, ExitCode(findings, "warn") = 0
      PROVE  Deps # {} /\ DependenciesAreSound /\ ServicesAreSound
  <2>1. ~Bad(findings)
    BY <1>1, ExitCodeWarn DEF Types, Graded
  <2>2. ~Alarming(findings)
    BY <2>1 DEF Bad, Alarming, Alarms
  <2>3. EmptySet.severity = "warn"
    BY DEF EmptySet, Finding
  <2>4. Deps # {}
    BY <1>1, <2>1, <2>3 DEF GateInv, EmptyIsReported, Bad
  <2> QED
    BY <1>1, <2>2, <2>4, QuietMeans
<1>2. Types /\ GateInv => WarnGateSound
  BY <1>1 DEF WarnGateSound
<1> QED
  BY <1>2, GateInvariant, PTL
-----------------------------------------------------------------------------
(* The alerts *)

\* The inductive invariant: whatever alarms among fs, one of the rules selects.
Selected(fs) == \A f \in fs : Alarms(f) => \E r \in InteropFindingRules : Selects(r, f)

ServiceIds(name) == IF name = "supervisor" THEN SupervisorIds ELSE MonitorIds

LEMMA ServiceSelected ==
    ASSUME NEW name \in {"supervisor", "monitor"}, NEW id \in ServiceIds(name),
           NEW severity \in {"warn", "fail"}
    PROVE  \E r \in InteropFindingRules : Selects(r, Service(name, id, severity))
<1> DEFINE f == Service(name, id, severity)
           Rule(alert, wait) ==
               FindingRule(alert, <<"interop", name>>, ServiceIds(name), severity, wait)
<1>1. f.id = <<"interop", name, id>> /\ f.severity = severity
  BY DEF Service, Finding
<1>2. ASSUME NEW alert, NEW wait
      PROVE  Selects(Rule(alert, wait), f)
  <2>1. /\ Rule(alert, wait).scope = <<"interop", name>>
        /\ Rule(alert, wait).names = ServiceIds(name)
        /\ Rule(alert, wait).severity = severity
    BY DEF FindingRule
  <2> QED
    BY <1>1, <2>1, SelectsThree
<1>3. \E alert, wait : Rule(alert, wait) \in InteropFindingRules
  <2>1. CASE name = "supervisor" /\ severity = "fail"
    BY <2>1 DEF InteropFindingRules, ServiceIds
  <2>2. CASE name = "supervisor" /\ severity = "warn"
    BY <2>2 DEF InteropFindingRules, ServiceIds
  <2>3. CASE name = "monitor" /\ severity = "fail"
    BY <2>3 DEF InteropFindingRules, ServiceIds
  <2>4. CASE name = "monitor" /\ severity = "warn"
    BY <2>4 DEF InteropFindingRules, ServiceIds
  <2> QED
    BY <2>1, <2>2, <2>3, <2>4
<1> QED
  BY <1>2, <1>3

LEMMA ServiceSelectedIf ==
    ASSUME NEW name \in {"supervisor", "monitor"}, NEW id, NEW severity,
           severity \in {"warn", "fail"} => id \in ServiceIds(name)
    PROVE  Selected({Service(name, id, severity)})
<1>1. Service(name, id, severity).severity = severity
  BY DEF Service, Finding
<1> QED
  BY <1>1, ServiceSelected DEF Selected, Alarms

LEMMA SelectedUnion ==
    ASSUME NEW S, NEW T, Selected(S), Selected(T)
    PROVE  Selected(S \cup T)
BY DEF Selected

LEMMA PresenceSelected ==
    ASSUME NEW name \in {"supervisor", "monitor"}, NEW id, NEW missing, NEW present
    PROVE  Selected({Presence(name, id, missing, present)})
<1>1. CASE present
  BY <1>1, ServiceSelectedIf DEF Presence
<1>2. CASE ~present
  BY <1>2, ServiceSelectedIf DEF Presence
<1> QED
  BY <1>1, <1>2

LEMMA UpSelected ==
    ASSUME NEW name \in {"supervisor", "monitor"}, NEW up
    PROVE  Selected({UpFinding(name, up)})
<1>1. "up" \in ServiceIds(name) /\ "up_missing" \in ServiceIds(name)
  BY DEF ServiceIds, SupervisorIds, MonitorIds
<1>2. CASE up = {}
  BY <1>1, <1>2, ServiceSelectedIf DEF UpFinding
<1>3. CASE up # {}
  BY <1>1, <1>3, ServiceSelectedIf DEF UpFinding
<1> QED
  BY <1>2, <1>3

LEMMA CounterSelected ==
    ASSUME NEW name \in {"supervisor", "monitor"}, NEW id \in ServiceIds(name), NEW missing,
           NEW counter
    PROVE  Selected({CounterFinding(name, id, missing, counter)})
<1>1. CASE counter = {}
  BY <1>1, ServiceSelectedIf DEF CounterFinding
<1>2. CASE counter # {}
  BY <1>2, ServiceSelectedIf DEF CounterFinding
<1> QED
  BY <1>1, <1>2

LEMMA SupervisorSelected ==
    ASSUME NEW pg
    PROVE  Selected(SupervisorFindings(pg))
<1> DEFINE Optional(id, missing, present) == Presence("supervisor", id, missing, present)
           a == UpFinding("supervisor", pg.up)
           b == Optional("info", "info_missing", pg.info)
           c == CounterFinding("supervisor", "access_list_verify_failure",
                    "access_list_verify_failure_missing", pg.access_list_verify_failure)
           d == Optional("logdb_entries", "logdb_entries_missing", pg.logdb_entries)
           e == Optional("rpc_metrics", "rpc_metrics_missing", pg.rpc_metrics)
           m == Service("supervisor", "refs_missing", "warn")
           o == Service("supervisor", "refs", "ok")
           p == ExpectedChainsFinding(pg.refs)
           q == RefTypesFinding(pg.refs)
<1>1. /\ "access_list_verify_failure" \in ServiceIds("supervisor")
      /\ "refs_missing" \in ServiceIds("supervisor")
      /\ "expected_chains" \in ServiceIds("supervisor")
      /\ "ref_types" \in ServiceIds("supervisor")
  BY DEF ServiceIds, SupervisorIds
<1>2. Selected({a}) /\ Selected({b}) /\ Selected({c}) /\ Selected({d}) /\ Selected({e})
  BY <1>1, UpSelected, PresenceSelected, CounterSelected
<1>3. Selected({m}) /\ Selected({o})
  BY <1>1, ServiceSelectedIf
<1>4. Selected({p})
  <2>1. \E severity : p = Service("supervisor", "expected_chains", severity)
    BY DEF ExpectedChainsFinding
  <2> QED
    BY <1>1, <2>1, ServiceSelectedIf
<1>5. Selected({q})
  <2>1. \E severity : q = Service("supervisor", "ref_types", severity)
    BY DEF RefTypesFinding
  <2> QED
    BY <1>1, <2>1, ServiceSelectedIf
<1>6. SupervisorFindings(pg) = {a, b, c, d, e} \cup IF pg.refs = {} THEN {m} ELSE {o, p, q}
  BY DEF SupervisorFindings
<1> HIDE DEF a, b, c, d, e, m, o, p, q
<1>7. ASSUME NEW f \in SupervisorFindings(pg)
      PROVE  Selected({f})
  <2>1. f \in {a, b, c, d, e} \/ f \in {m, o, p, q}
    BY <1>6
  <2> QED
    BY <1>2, <1>3, <1>4, <1>5, <2>1
<1> QED
  BY <1>7 DEF Selected

LEMMA MonitorSelected ==
    ASSUME NEW pg
    PROVE  Selected(MonitorFindings(pg))
<1> DEFINE a == UpFinding("monitor", pg.up)
           b == MessageStatusFinding(pg.message_status)
           c == CounterFinding("monitor", "terminal_status_changes",
                    "terminal_status_changes_missing", pg.terminal_status_changes)
           d == Presence("monitor", "block_ranges", "block_ranges_missing", pg.block_ranges)
<1>1. /\ "terminal_status_changes" \in ServiceIds("monitor")
      /\ "message_status" \in ServiceIds("monitor")
      /\ "message_status_missing" \in ServiceIds("monitor")
  BY DEF ServiceIds, MonitorIds
<1>2. Selected({a}) /\ Selected({c}) /\ Selected({d})
  BY <1>1, UpSelected, PresenceSelected, CounterSelected
<1>3. Selected({b})
  <2>1. CASE pg.message_status = {}
    BY <1>1, <2>1, ServiceSelectedIf DEF MessageStatusFinding
  <2>2. CASE pg.message_status # {}
    BY <1>1, <2>2, ServiceSelectedIf DEF MessageStatusFinding
  <2> QED
    BY <2>1, <2>2
<1>4. MonitorFindings(pg) = {a, b, c, d}
  BY DEF MonitorFindings
<1> HIDE DEF a, b, c, d
<1>5. ASSUME NEW f \in MonitorFindings(pg)
      PROVE  Selected({f})
  BY <1>2, <1>3, <1>4, <1>5
<1> QED
  BY <1>5 DEF Selected

LEMMA DependencySelected ==
    ASSUME NEW id \in {"rpc", "chain_id", "head", "metrics"}, NEW severity \in {"ok", "warn"}
    PROVE  Selected({Dependency(id, severity)})
<1> DEFINE f == Dependency(id, severity)
           rule == FindingRule("DoctorInteropDependencyReadinessWarning", <<"interop">>,
                               {"rpc", "chain_id", "head", "metrics"}, "warn", 5)
<1>1. f.id = <<"interop", Dep.name, id>> /\ f.severity = severity
  BY DEF Dependency, Finding
<1>2. /\ rule.scope = <<"interop">> /\ rule.severity = "warn"
      /\ rule.names = {"rpc", "chain_id", "head", "metrics"}
  BY DEF FindingRule
<1>3. rule \in InteropFindingRules
  BY DEF InteropFindingRules
<1> HIDE DEF f, rule
<1>4. severity = "warn" => Selects(rule, f)
  BY <1>1, <1>2, SelectsThree
<1>5. Selected({f})
  BY <1>1, <1>3, <1>4 DEF Selected, Alarms
<1> QED
  BY <1>5 DEF f

LEMMA ScrapeSelected ==
    ASSUME NEW name \in {"supervisor", "monitor"}, NEW configured, NEW detected, NEW fs,
           Selected(fs), Selected(findings), ScrapeService(name, configured, detected, fs)
    PROVE  Selected(findings')
<1>1. "metrics_fetch" \in ServiceIds(name) /\ "metrics_names" \in ServiceIds(name)
  BY DEF ServiceIds, SupervisorIds, MonitorIds
<1>2. /\ Selected({Service(name, "metrics_endpoint", "info")})
      /\ Selected({Service(name, "metrics_fetch", "ok")})
      /\ Selected({Service(name, "metrics_names", "ok")})
      /\ Selected({Service(name, "metrics_names", "warn")})
      /\ Selected({Service(name, "metrics_fetch", "warn")})
  BY <1>1, ServiceSelectedIf
<1>3. CASE Emit({Service(name, "metrics_endpoint", "info")})
  BY <1>2, <1>3, SelectedUnion DEF Emit
<1>4. CASE Emit({Service(name, "metrics_fetch", "ok")}
               \cup IF detected THEN {Service(name, "metrics_names", "ok")} \cup fs
                    ELSE {Service(name, "metrics_names", "warn")})
  <2>1. CASE detected
    BY <1>2, <1>4, <2>1, SelectedUnion DEF Emit
  <2>2. CASE ~detected
    BY <1>2, <1>4, <2>2, SelectedUnion DEF Emit
  <2> QED
    BY <2>1, <2>2
<1>5. CASE Emit({Service(name, "metrics_fetch", "warn")})
  BY <1>2, <1>5, SelectedUnion DEF Emit
<1> QED
  BY <1>3, <1>4, <1>5 DEF ScrapeService

LEMMA NextSelected ==
    ASSUME Selected(findings), [Next]_vars
    PROVE  Selected(findings')
<1>1. CASE SupervisorMetrics
  BY <1>1, ScrapeSelected, SupervisorSelected DEF SupervisorMetrics
<1>2. CASE MonitorMetrics
  BY <1>2, ScrapeSelected, MonitorSelected DEF MonitorMetrics
<1>3. CASE Start
  <2> DEFINE a == Finding(<<"interop", "scope">>, "info", <<"interop">>, NoSample)
             b == Finding(<<"interop", "disabled">>, "info", <<"interop">>, NoSample)
  <2>1. a.severity = "info" /\ b.severity = "info"
    BY DEF Finding
  <2>2. findings' = findings \cup {a} \/ findings' = findings \cup {b}
    BY <1>3 DEF Start, Emit
  <2> HIDE DEF a, b
  <2>3. Selected({a}) /\ Selected({b})
    BY <2>1 DEF Selected, Alarms
  <2> QED
    BY <2>2, <2>3, SelectedUnion
<1>4. CASE NoDependencies
  <2>1. EmptySet.target = <<"interop", "dependencies">>
    BY DEF EmptySet, Finding
  <2>2. Selected({EmptySet})
    BY <2>1 DEF Selected, Alarms
  <2>3. findings' = findings \cup {EmptySet}
    BY <1>4 DEF NoDependencies, Emit, EmptySet
  <2> QED
    BY <2>2, <2>3, SelectedUnion
<1>5. ASSUME NEW id \in {"rpc", "chain_id", "head", "metrics"}, NEW severity \in {"ok", "warn"},
             Emit({Dependency(id, severity)})
      PROVE  Selected(findings')
  BY <1>5, DependencySelected, SelectedUnion DEF Emit
<1>6. CASE MissingRPC
  BY <1>5, <1>6 DEF MissingRPC
<1>7. CASE ChainID
  BY <1>5, <1>7 DEF ChainID
<1>8. CASE BlockNumber
  BY <1>5, <1>8 DEF BlockNumber
<1>9. CASE DependencyMetrics
  BY <1>5, <1>9 DEF DependencyMetrics
<1>10. CASE Return \/ Expire \/ UNCHANGED vars
  BY <1>10 DEF Return, Expire, vars, doctor
<1> QED
  BY <1>1, <1>2, <1>3, <1>4, <1>6, <1>7, <1>8, <1>9, <1>10 DEF Next, Doctor

(***************************************************************************)
(* The DoctorInterop alerts cover the check: on a page that raises none of *)
(* them, no finding warns or fails but for an empty dependency set, and    *)
(* all is as --fail-on warn demands.  For every dependency set and page.   *)
(***************************************************************************)
THEOREM QuietAlertsAreSound == Spec => []QuietInteropIsSound
<1>1. Spec => []Selected(findings)
  <2>1. Init => Selected(findings)
    BY DEF Init, Selected
  <2>2. Selected(findings) /\ [Next]_vars => Selected(findings)'
    BY NextSelected
  <2> QED
    BY <2>1, <2>2, PTL DEF Spec
<1>2. ASSUME Types, GateInv, Selected(findings), phase = "done", config.enabled, ~InteropAlarm
      PROVE  /\ DependenciesAreSound /\ ServicesAreSound
             /\ \A f \in findings : f.severity \in {"warn", "fail"}
                                       => f.target = <<"interop", "dependencies">>
  <2>1. \A r \in InteropFindingRules : r.metric = "finding"
    BY DEF InteropFindingRules, FindingRule
  <2>2. ~Alarming(findings)
    <3>1. ASSUME NEW f \in findings, Alarms(f)
          PROVE  FALSE
      <4>1. PICK r \in InteropFindingRules : Selects(r, f)
        BY <1>2, <3>1 DEF Selected
      <4>2. Instances(InteropFindingRules, RenderPrometheus(findings, "op")) # {}
        BY <2>1, <4>1, FindingRuleFires
      <4> QED
        BY <1>2, <4>2 DEF InteropAlarm
    <3> QED
      BY <3>1 DEF Alarming
  <2>3. DependenciesAreSound /\ ServicesAreSound
    BY <1>2, <2>2, QuietMeans
  <2> QED
    BY <2>2, <2>3 DEF Alarming, Alarms
<1>3. Types /\ GateInv /\ Selected(findings) => QuietInteropIsSound
  BY <1>2 DEF QuietInteropIsSound
<1> QED
  BY <1>1, <1>3, GateInvariant, PTL

-----------------------------------------------------------------------------
(* The order of the safety heads *)

(***************************************************************************)
(* The inductive invariant: the verdict on the order of the refs is the    *)
(* one that the page gives rise to.  No other finding has its id.          *)
(***************************************************************************)
VerdictIsOfPage ==
    \A s : RefVerdict(s) => RefTypesFinding(pages.supervisor.refs) = Service("supervisor", "ref_types", s)

LEMMA ServicesDiffer ==
    ASSUME NEW name, NEW id, NEW severity, NEW s, id # "ref_types"
    PROVE  Service(name, id, severity) # Service("supervisor", "ref_types", s)
<1>1. /\ Service(name, id, severity).id = <<"interop", name, id>>
      /\ Service("supervisor", "ref_types", s).id = <<"interop", "supervisor", "ref_types">>
  BY DEF Service, Finding
<1>2. <<"interop", name, id>> # <<"interop", "supervisor", "ref_types">>
  OBVIOUS
<1> QED
  BY <1>1, <1>2

\* Of the findings about the page of op-supervisor, one may be the verdict.
LEMMA VerdictAmongSupervisor ==
    ASSUME NEW pg, NEW s, Service("supervisor", "ref_types", s) \in SupervisorFindings(pg)
    PROVE  RefTypesFinding(pg.refs) = Service("supervisor", "ref_types", s)
<1> DEFINE v == Service("supervisor", "ref_types", s)
           a == UpFinding("supervisor", pg.up)
           b == Presence("supervisor", "info", "info_missing", pg.info)
           c == CounterFinding("supervisor", "access_list_verify_failure",
                    "access_list_verify_failure_missing", pg.access_list_verify_failure)
           d == Presence("supervisor", "logdb_entries", "logdb_entries_missing", pg.logdb_entries)
           e == Presence("supervisor", "rpc_metrics", "rpc_metrics_missing", pg.rpc_metrics)
           m == Service("supervisor", "refs_missing", "warn")
           o == Service("supervisor", "refs", "ok")
           p == ExpectedChainsFinding(pg.refs)
           q == RefTypesFinding(pg.refs)
<1>1. a # v
  BY ServicesDiffer DEF UpFinding
<1>2. b # v /\ d # v /\ e # v
  BY ServicesDiffer DEF Presence
<1>3. c # v
  BY ServicesDiffer DEF CounterFinding
<1>4. m # v /\ o # v
  BY ServicesDiffer
<1>5. p # v
  BY ServicesDiffer DEF ExpectedChainsFinding
<1>6. SupervisorFindings(pg) = {a, b, c, d, e} \cup IF pg.refs = {} THEN {m} ELSE {o, p, q}
  BY DEF SupervisorFindings
<1> HIDE DEF a, b, c, d, e, m, o, p, q, v
<1>7. v \in SupervisorFindings(pg)
  BY DEF v
<1>8. q = v
  BY <1>1, <1>2, <1>3, <1>4, <1>5, <1>6, <1>7
<1> QED
  BY <1>8 DEF q, v

LEMMA VerdictNotOfMonitor ==
    ASSUME NEW pg, NEW s
    PROVE  Service("supervisor", "ref_types", s) \notin MonitorFindings(pg)
<1> DEFINE v == Service("supervisor", "ref_types", s)
           a == UpFinding("monitor", pg.up)
           b == MessageStatusFinding(pg.message_status)
           c == CounterFinding("monitor", "terminal_status_changes",
                    "terminal_status_changes_missing", pg.terminal_status_changes)
           d == Presence("monitor", "block_ranges", "block_ranges_missing", pg.block_ranges)
<1>1. a # v
  BY ServicesDiffer DEF UpFinding
<1>2. b # v
  BY ServicesDiffer DEF MessageStatusFinding
<1>3. c # v
  BY ServicesDiffer DEF CounterFinding
<1>4. d # v
  BY ServicesDiffer DEF Presence
<1>5. MonitorFindings(pg) = {a, b, c, d}
  BY DEF MonitorFindings
<1> HIDE DEF a, b, c, d, v
<1>6. v \notin MonitorFindings(pg)
  BY <1>1, <1>2, <1>3, <1>4, <1>5
<1> QED
  BY <1>6 DEF v

\* A scrape adds a verdict on the refs only with the findings fs.
LEMMA ScrapeVerdict ==
    ASSUME NEW name, NEW configured, NEW detected, NEW fs, NEW s,
           ScrapeService(name, configured, detected, fs),
           Service("supervisor", "ref_types", s) \in findings'
    PROVE  \/ Service("supervisor", "ref_types", s) \in findings
           \/ Service("supervisor", "ref_types", s) \in fs
<1> DEFINE v == Service("supervisor", "ref_types", s)
           a == Service(name, "metrics_endpoint", "info")
           b == Service(name, "metrics_fetch", "ok")
           c == Service(name, "metrics_names", "ok")
           d == Service(name, "metrics_names", "warn")
           e == Service(name, "metrics_fetch", "warn")
<1>1. a # v /\ b # v /\ c # v /\ d # v /\ e # v
  BY ServicesDiffer
<1>2. \/ Emit({a})
      \/ Emit({b} \cup IF detected THEN {c} \cup fs ELSE {d})
      \/ Emit({e})
  BY DEF ScrapeService
<1> HIDE DEF a, b, c, d, e, v
<1>3. v \in findings' => v \in findings \/ v \in fs
  BY <1>1, <1>2 DEF Emit
<1> QED
  BY <1>3 DEF v

LEMMA NextVerdict ==
    ASSUME VerdictIsOfPage, [Next]_vars
    PROVE  VerdictIsOfPage'
<1> SUFFICES ASSUME NEW s, RefVerdict(s)'
             PROVE  RefTypesFinding(pages.supervisor.refs)' = Service("supervisor", "ref_types", s)
  BY DEF VerdictIsOfPage
<1> DEFINE v == Service("supervisor", "ref_types", s)
<1>1. pages' = pages /\ v \in findings'
  BY DEF Next, Doctor, Expire, Start, SupervisorMetrics, MonitorMetrics, NoDependencies,
         MissingRPC, ChainID, BlockNumber, DependencyMetrics, Return, vars, world, RefVerdict
<1>2. v \in findings \/ RefTypesFinding(pages.supervisor.refs) = v
  <2>1. CASE SupervisorMetrics
    BY <1>1, <2>1, ScrapeVerdict, VerdictAmongSupervisor DEF SupervisorMetrics
  <2>2. CASE MonitorMetrics
    BY <1>1, <2>2, ScrapeVerdict, VerdictNotOfMonitor DEF MonitorMetrics
  <2>3. v.id = <<"interop", "supervisor", "ref_types">>
    BY DEF Service, Finding
  <2>4. CASE Start \/ NoDependencies
    <3> DEFINE a == Finding(<<"interop", "scope">>, "info", <<"interop">>, NoSample)
               b == Finding(<<"interop", "disabled">>, "info", <<"interop">>, NoSample)
    <3>1. a.id = <<"interop", "scope">> /\ b.id = <<"interop", "disabled">>
      BY DEF Finding
    <3>2. EmptySet.id = <<"interop", "dependencies">>
      BY DEF Finding, EmptySet
    <3>3. findings' = findings \cup {a} \/ findings' = findings \cup {b}
          \/ findings' = findings \cup {EmptySet}
      BY <2>4 DEF Start, NoDependencies, Emit, EmptySet
    <3>4. a # v /\ b # v /\ EmptySet # v
      <4> HIDE DEF a, b, v
      <4>1. /\ <<"interop", "scope">> # <<"interop", "supervisor", "ref_types">>
            /\ <<"interop", "disabled">> # <<"interop", "supervisor", "ref_types">>
            /\ <<"interop", "dependencies">> # <<"interop", "supervisor", "ref_types">>
        OBVIOUS
      <4> QED
        BY <2>3, <3>1, <3>2, <4>1
    <3> HIDE DEF a, b, v
    <3> QED
      BY <1>1, <3>3, <3>4
  <2>5. ASSUME NEW id \in {"rpc", "chain_id", "head", "metrics"}, NEW severity,
               Emit({Dependency(id, severity)})
        PROVE  v \in findings
    <3>1. Dependency(id, severity).id = <<"interop", Dep.name, id>>
      BY DEF Dependency, Finding
    <3>2. <<"interop", Dep.name, id>> # <<"interop", "supervisor", "ref_types">>
      BY <2>5
    <3>3. Dependency(id, severity) # v
      BY <2>3, <3>1, <3>2
    <3> HIDE DEF v
    <3> QED
      BY <1>1, <2>5, <3>3 DEF Emit
  <2>6. CASE MissingRPC
    BY <2>5, <2>6 DEF MissingRPC
  <2>7. CASE ChainID
    BY <2>5, <2>7 DEF ChainID
  <2>8. CASE BlockNumber
    BY <2>5, <2>8 DEF BlockNumber
  <2>9. CASE DependencyMetrics
    BY <2>5, <2>9 DEF DependencyMetrics
  <2>10. CASE Return \/ Expire \/ UNCHANGED vars
    BY <1>1, <2>10 DEF Return, Expire, vars, doctor
  <2> QED
    BY <2>1, <2>2, <2>4, <2>6, <2>7, <2>8, <2>9, <2>10 DEF Next, Doctor
<1> QED
  BY <1>1, <1>2 DEF VerdictIsOfPage, RefVerdict

\* The values of the refs of one type.
Values(refs, type) == {r.value : r \in {s \in refs : s.type = type}}

\* The largest ref of a type is one of the refs, and no other exceeds it.
LEMMA MaxRefIs ==
    ASSUME NEW refs, IsFiniteSet(refs), \A r \in refs : r.value \in Nat,
           NEW type, \E r \in refs : r.type = type
    PROVE  /\ \E r \in refs : r.type = type /\ r.value = MaxRef(refs, type)
           /\ \A r \in refs : r.type = type => MaxRef(refs, type) >= r.value
<1> DEFINE V == Values(refs, type)
           some == {s \in refs : s.type = type}
           value == [r \in some |-> r.value]
<1>1. IsFiniteSet(some)
  BY FS_Subset
<1>2. IsFiniteSet({value[r] : r \in DOMAIN value})
  BY <1>1, ImageFinite
<1>3. V = {value[r] : r \in DOMAIN value}
  BY DEF Values
<1>4. IsFiniteSet(V)
  BY <1>2, <1>3
<1>5. V \subseteq Nat /\ V # {}
  BY DEF Values
<1> HIDE DEF V
<1>6. Max(V) \in V /\ \A y \in V : Max(V) >= y
  BY <1>4, <1>5, FiniteMax
<1>7. MaxRef(refs, type) = Max(V)
  BY DEF MaxRef, Values, V
<1> QED
  BY <1>6, <1>7 DEF V, Values

\* If a cross head of some chain is the largest and exceeds all local ones, it exceeds its own.
LEMMA ExceedsSomewhere ==
    ASSUME NEW refs, IsFiniteSet(refs), \A r \in refs : r.value \in Nat /\ r.chain \in Chains,
           NEW cross, NEW local, \E r \in refs : r.type = cross, \E r \in refs : r.type = local,
           MaxRef(refs, cross) > MaxRef(refs, local),
           \A r \in refs : r.type = cross => \E s \in refs : s.chain = r.chain /\ s.type = local
    PROVE  \E c \in Chains : Exceeds(refs, cross, local, c)
<1>1. PICK r \in refs : r.type = cross /\ r.value = MaxRef(refs, cross)
  BY MaxRefIs
<1>2. PICK s \in refs : s.chain = r.chain /\ s.type = local
  BY <1>1
<1>3. MaxRef(refs, local) >= s.value
  BY <1>2, MaxRefIs
<1>4. MaxRef(refs, local) \in Nat /\ r.value \in Nat /\ s.value \in Nat
  BY <1>1, <1>2, MaxRefIs
<1>5. r.value > s.value
  BY <1>1, <1>3, <1>4
<1> QED
  BY <1>1, <1>2, <1>5 DEF Exceeds

(***************************************************************************)
(* The alarm about the order of safety heads is real, for every page on    *)
(* which each chain that has a cross ref has the local one, although the   *)
(* code compares maxima over all chains: the largest cross ref exceeds the *)
(* largest local one, and so the local one of its own chain.               *)
(***************************************************************************)
THEOREM RefOrderAlarmsAreReal == Spec => []RefOrderAlarmIsReal
<1>1. Spec => []VerdictIsOfPage
  <2>1. Init => VerdictIsOfPage
    BY DEF Init, VerdictIsOfPage, RefVerdict
  <2>2. VerdictIsOfPage /\ [Next]_vars => VerdictIsOfPage'
    BY NextVerdict
  <2> QED
    BY <2>1, <2>2, PTL DEF Spec
<1>2. Spec => []Types
  BY InitTypes, NextTypes, PTL DEF Spec
<1>3. ASSUME Types, VerdictIsOfPage
      PROVE  RefOrderAlarmIsReal
  <2> DEFINE refs == pages.supervisor.refs
             Local(r) == IF r.type = "cross_safe" THEN "local_safe" ELSE "local_unsafe"
  <2> SUFFICES ASSUME RefVerdict("warn"),
                      \A r \in refs : r.type \in {"cross_unsafe", "cross_safe"} =>
                         \E s \in refs : s.chain = r.chain /\ s.type = Local(r)
               PROVE  \E c \in Chains : Disordered(refs, c)
    BY DEF RefOrderAlarmIsReal
  <2>1. IsFiniteSet(refs)
    <3>1. <<config, pages, chain>> \in Deployments
      BY <1>3 DEF Types, World
    <3>2. <<config, pages, chain>>[2] = pages
      OBVIOUS
    <3> QED
      BY <3>1, <3>2, DataAssumption
  <2>2. \A r \in refs : r.value \in Nat /\ r.chain \in Chains
    <3>1. pages \in [supervisor : SupervisorPage, monitor : MonitorPage]
      BY <1>3, DeploymentTypes DEF Types
    <3>2. refs \in SUBSET [chain : Chains, type : RefTypes \cup {"other"}, value : Nat]
      BY <3>1 DEF SupervisorPage
    <3> QED
      BY <3>2
  <2> HIDE DEF refs
  <2>3. RefTypesFinding(refs) = Service("supervisor", "ref_types", "warn")
    BY <1>3 DEF VerdictIsOfPage, refs
  <2>4. \A s : Service("supervisor", "ref_types", s).severity = s
    BY DEF Service, Finding
  <2>5. /\ SeenTypes(refs) = RefTypes
        /\ \/ MaxRef(refs, "cross_unsafe") > MaxRef(refs, "local_unsafe")
           \/ MaxRef(refs, "cross_safe") > MaxRef(refs, "local_safe")
    BY <2>3, <2>4 DEF RefTypesFinding
  <2>6. \A type \in RefTypes : \E r \in refs : r.type = type
    BY <2>5 DEF SeenTypes
  <2>7. CASE MaxRef(refs, "cross_unsafe") > MaxRef(refs, "local_unsafe")
    <3>1. \A r \in refs : r.type = "cross_unsafe" =>
             \E s \in refs : s.chain = r.chain /\ s.type = "local_unsafe"
      OBVIOUS
    <3>2. \E c \in Chains : Exceeds(refs, "cross_unsafe", "local_unsafe", c)
      BY <2>1, <2>2, <2>6, <2>7, <3>1, ExceedsSomewhere DEF RefTypes
    <3> QED
      BY <3>2 DEF Disordered
  <2>8. CASE MaxRef(refs, "cross_safe") > MaxRef(refs, "local_safe")
    <3>1. \A r \in refs : r.type = "cross_safe" =>
             \E s \in refs : s.chain = r.chain /\ s.type = "local_safe"
      OBVIOUS
    <3>2. \E c \in Chains : Exceeds(refs, "cross_safe", "local_safe", c)
      BY <2>1, <2>2, <2>6, <2>8, <3>1, ExceedsSomewhere DEF RefTypes
    <3> QED
      BY <3>2 DEF Disordered
  <2> QED
    BY <2>5, <2>7, <2>8
<1>4. Types /\ VerdictIsOfPage => RefOrderAlarmIsReal
  BY <1>3
<1> QED
  BY <1>1, <1>2, <1>4, PTL
=============================================================================
