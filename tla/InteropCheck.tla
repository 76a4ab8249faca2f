----------------------------- MODULE InteropCheck -----------------------------
(***************************************************************************)
(* checkInterop of internal/checks/checks.go: the metrics pages of         *)
(* op-supervisor and op-interop-mon, and then, for each chain of the       *)
(* dependency set, its chain ID, its head and its metrics page.            *)
(*                                                                         *)
(* Nothing read here is compared with an earlier read, so the services     *)
(* and chains stand still but for the calls that fail and the deadline;    *)
(* the loop leaves an iteration early in two places.                       *)
(***************************************************************************)
EXTENDS Report, RPCCall

CONSTANTS
    Chains,       \* chain IDs; 0 stands for none
    Names,        \* names of dependencies
    Deployments,  \* <<config, pages, chain>>: a configuration, the two metrics
                  \* pages, and the chain ID each dependency's RPC serves
    MaxDeps       \* bound on the length of interop.dependencies

VARIABLES
    config,       \* the interop section and the chain ID of the config
    pages,        \* the metrics of op-supervisor and op-interop-mon
    chain,        \* per dependency: the chain it serves
    phase,        \* the call the doctor makes next
    k,            \* loop variable: index in interop.dependencies
    findings      \* the findings emitted so far

world  == <<config, pages, chain, expired>>
doctor == <<phase, k, findings>>
vars   == <<world, faults, doctor>>

Phases   == {"start", "supervisor", "monitor", "dependency", "head", "metrics", "done"}
RefTypes == {"local_unsafe", "local_safe", "cross_unsafe", "cross_safe"}

DependencyType == [name : Names, chainId : Chains, rpc : BOOLEAN, metrics : BOOLEAN]

\* supervisor and monitor: is a metrics URL configured?
ConfigType ==
    [enabled : BOOLEAN, chainId : Chains, supervisor : BOOLEAN, monitor : BOOLEAN,
     expectedChains : Seq(Chains), dependencies : Seq(DependencyType)]

\* Of a metric whose values matter the values, of the others whether it is there;
\* other says that a further series has the prefix of the service.  A page is finite.
SupervisorPage ==
    [up : SUBSET Nat, info : BOOLEAN, access_list_verify_failure : SUBSET Nat,
     refs : SUBSET [chain : Chains, type : RefTypes \cup {"other"}, value : Nat],
     logdb_entries : BOOLEAN, rpc_metrics : BOOLEAN, other : BOOLEAN]

\* risky: a status of which one of the words invalid, missing, failed, ... is part.
MonitorPage ==
    [up : SUBSET Nat, message_status : SUBSET [risky : BOOLEAN, value : Nat],
     terminal_status_changes : SUBSET Nat, block_ranges : BOOLEAN, other : BOOLEAN]

ASSUME BoundsAssumption == MaxDeps \in Nat /\ MaxFaults \in Nat /\ Chains \subseteq Nat

ASSUME DataAssumption ==
    /\ Deployments \subseteq ConfigType \X [supervisor : SupervisorPage, monitor : MonitorPage]
                              \X Seq(Chains)
    /\ \A d \in Deployments : /\ Len(d[1].dependencies) <= MaxDeps
                             /\ Len(d[3]) = Len(d[1].dependencies)
                             /\ IsFiniteSet(d[2].supervisor.refs)

Deps == 1 .. Len(config.dependencies)
Dep  == config.dependencies[k]

-----------------------------------------------------------------------------
(* Verdicts on the two pages *)

Service(name, id, severity) ==
    Finding(<<"interop", name, id>>, severity, <<"interop", name, "metrics">>, NoSample)

\* An optional metric: its absence is worth a note.
Presence(name, id, missing, present) ==
    IF present THEN Service(name, id, "ok") ELSE Service(name, missing, "info")

\* An up metric of several series, all of which have to be 1.
UpFinding(name, up) ==
    IF up = {} THEN Service(name, "up_missing", "warn")
    ELSE Service(name, "up", IF \E v \in up : v # 1 THEN "fail" ELSE "ok")

\* A counter of which the maximum is judged.
CounterFinding(name, id, missing, counter) ==
    IF counter = {} THEN Service(name, missing, "info")
    ELSE Service(name, id, IF Max(counter) > 0 THEN "warn" ELSE "ok")

expectedInteropChains ==
    ({config.chainId} \cup {config.dependencies[d].chainId : d \in Deps}) \ {0}

ExpectedChains ==
    IF config.expectedChains = <<>> THEN expectedInteropChains
    ELSE ToSet(config.expectedChains)

AnyExpectedChain(refs) ==
    Service("supervisor", "expected_chains",
            IF ExpectedChains = {} THEN "info"
            ELSE IF ExpectedChains \cap {r.chain : r \in refs} = {} THEN "warn" ELSE "ok")

ExpectedChainsFinding(refs) ==
    Service("supervisor", "expected_chains",
            IF ExpectedChains = {} THEN "info"
            ELSE IF ExpectedChains \subseteq {r.chain : r \in refs} THEN "ok" ELSE "warn")

SeenTypes(refs) == {r.type : r \in refs} \cap RefTypes

LowestRef(refs, type) == Min({r.value : r \in {s \in refs : s.type = type}})

\* maxRefSampleValue: the largest over all chains.
MaxRef(refs, type) == Max({r.value : r \in {s \in refs : s.type = type}})

RefTypesFinding(refs) ==
    Service("supervisor", "ref_types",
        IF SeenTypes(refs) # RefTypes THEN "info"
        ELSE IF \/ MaxRef(refs, "cross_unsafe") > MaxRef(refs, "local_unsafe")
                \/ MaxRef(refs, "cross_safe") > MaxRef(refs, "local_safe")
             THEN "warn" ELSE "ok")

\* checkSupervisorMetricSamples.
SupervisorFindings(pg) ==
    LET Optional(id, missing, present) == Presence("supervisor", id, missing, present) IN
    {UpFinding("supervisor", pg.up), Optional("info", "info_missing", pg.info),
     CounterFinding("supervisor", "access_list_verify_failure",
                    "access_list_verify_failure_missing", pg.access_list_verify_failure),
     Optional("logdb_entries", "logdb_entries_missing", pg.logdb_entries),
     Optional("rpc_metrics", "rpc_metrics_missing", pg.rpc_metrics)}
    \cup
    IF pg.refs = {} THEN {Service("supervisor", "refs_missing", "warn")}
    ELSE {Service("supervisor", "refs", "ok"), ExpectedChainsFinding(pg.refs),
          RefTypesFinding(pg.refs)}

MessageStatusUngraded(status) ==
    Service("monitor", "message_status",
            IF \E s \in status : s.risky /\ s.value > 0 THEN "risky" ELSE "ok")

MessageStatusFinding(status) ==
    IF status = {} THEN Service("monitor", "message_status_missing", "warn")
    ELSE Service("monitor", "message_status",
                 IF \E s \in status : s.risky /\ s.value > 0 THEN "warn" ELSE "ok")

\* checkInteropMonitorMetricSamples.
MonitorFindings(pg) ==
    {UpFinding("monitor", pg.up), MessageStatusFinding(pg.message_status),
     CounterFinding("monitor", "terminal_status_changes", "terminal_status_changes_missing",
                    pg.terminal_status_changes),
     Presence("monitor", "block_ranges", "block_ranges_missing", pg.block_ranges)}

\* Has the page a series with the prefix of its service?
SupervisorSeries(pg) ==
    \/ pg.up # {} \/ pg.refs # {} \/ pg.access_list_verify_failure # {}
    \/ pg.info \/ pg.logdb_entries \/ pg.rpc_metrics \/ pg.other

MonitorSeries(pg) ==
    \/ pg.up # {} \/ pg.message_status # {} \/ pg.terminal_status_changes # {}
    \/ pg.block_ranges \/ pg.other

-----------------------------------------------------------------------------
(* The doctor *)

Emit(fs) == findings' = findings \cup fs

Expire ==
    /\ ~expired /\ expired' = TRUE
    /\ UNCHANGED <<config, pages, chain, faults, doctor>>

Start ==
    /\ phase = "start"
    /\ IF config.enabled
       THEN /\ phase' = "supervisor"
            /\ Emit({Finding(<<"interop", "scope">>, "info", <<"interop">>, NoSample)})
       ELSE /\ phase' = "done"
            /\ Emit({Finding(<<"interop", "disabled">>, "info", <<"interop">>, NoSample)})
    /\ UNCHANGED <<world, faults, k>>

\* The scrape of the page of a service: the verdicts fs if it has the right series.
ScrapeService(name, configured, detected, fs) ==
    \/ /\ ~configured /\ UNCHANGED faults
       /\ Emit({Service(name, "metrics_endpoint", "info")})
    \/ /\ configured /\ Answered
       /\ Emit({Service(name, "metrics_fetch", "ok")}
               \cup IF detected THEN {Service(name, "metrics_names", "ok")} \cup fs
                    ELSE {Service(name, "metrics_names", "warn")})
    \/ /\ configured /\ Failed
       /\ Emit({Service(name, "metrics_fetch", "warn")})

SupervisorMetrics ==
    /\ phase = "supervisor" /\ phase' = "monitor"
    /\ ScrapeService("supervisor", config.supervisor, SupervisorSeries(pages.supervisor),
                     SupervisorFindings(pages.supervisor))
    /\ UNCHANGED <<world, k>>

MonitorMetrics ==
    /\ phase = "monitor" /\ phase' = "dependency"
    /\ ScrapeService("monitor", config.monitor, MonitorSeries(pages.monitor),
                     MonitorFindings(pages.monitor))
    /\ UNCHANGED <<world, k>>

Dependency(id, severity) ==
    Finding(<<"interop", Dep.name, id>>, severity,
            <<"interop", "dependencies", Dep.name, IF id = "metrics" THEN "metrics" ELSE "rpc">>,
            NoSample)

\* The iteration for Dep is over.
SameDependency == phase' = "dependency" /\ k' = IF Dep.rpc THEN k + 1 ELSE k

NextDependency == phase' = "dependency" /\ k' = k + 1

NoDependencies ==
    /\ phase = "dependency" /\ Deps = {}
    /\ phase' = "done"
    /\ Emit({Finding(<<"interop", "dependencies">>, "warn", <<"interop", "dependencies">>, NoSample)})
    /\ UNCHANGED <<world, faults, k>>

MissingRPC ==
    /\ phase = "dependency" /\ k \in Deps /\ ~Dep.rpc
    /\ Emit({Dependency("rpc", "warn")})
    /\ NextDependency
    /\ UNCHANGED <<world, faults>>

StopAtUnreachable ==
    /\ phase = "dependency" /\ k \in Deps /\ Dep.rpc
    /\ \/ /\ Answered /\ phase' = "head" /\ UNCHANGED k
          /\ Emit({Dependency("chain_id", IF chain[k] # Dep.chainId THEN "warn" ELSE "ok")})
       \/ /\ Failed /\ NextDependency
          /\ Emit({Dependency("rpc", "warn")})
    /\ UNCHANGED world

ChainID ==
    /\ phase = "dependency" /\ k \in Deps /\ Dep.rpc
    /\ phase' = "head"
    /\ \/ /\ Answered
          /\ Emit({Dependency("chain_id", IF chain[k] # Dep.chainId THEN "warn" ELSE "ok")})
       \/ Failed /\ Emit({Dependency("rpc", "warn")})
    /\ UNCHANGED <<world, k>>

BlockNumber ==
    /\ phase = "head" /\ phase' = "metrics"
    /\ \/ Answered /\ Emit({Dependency("head", "ok")})
       \/ Failed   /\ Emit({Dependency("head", "warn")})
    /\ UNCHANGED <<world, k>>

DependencyMetrics ==
    /\ phase = "metrics"
    /\ \/ ~Dep.metrics /\ UNCHANGED faults /\ Emit({Dependency("metrics", "warn")})
       \/ Dep.metrics /\ Answered /\ Emit({Dependency("metrics", "ok")})
       \/ Dep.metrics /\ Failed   /\ Emit({Dependency("metrics", "warn")})
    /\ NextDependency
    /\ UNCHANGED world

Return ==
    /\ phase = "dependency" /\ Deps # {} /\ k \notin Deps
    /\ phase' = "done"
    /\ UNCHANGED <<world, faults, k, findings>>

-----------------------------------------------------------------------------
Init ==
    /\ \E d \in Deployments : config = d[1] /\ pages = d[2] /\ chain = d[3]
    /\ expired = FALSE /\ faults = 0
    /\ phase = "start" /\ k = 1
    /\ findings = {}

Doctor ==
    \/ Start \/ SupervisorMetrics \/ MonitorMetrics \/ NoDependencies
    \/ MissingRPC \/ ChainID \/ BlockNumber \/ DependencyMetrics \/ Return

Next == Expire \/ Doctor

Spec == Init /\ [][Next]_vars

(***************************************************************************)
(* The doctor is one goroutine and each of its calls returns, by the       *)
(* timeout of the http client or the deadline of the context.              *)
(***************************************************************************)
FairSpec == Spec /\ WF_vars(Doctor)
-----------------------------------------------------------------------------
(* Properties *)

TypeOK ==
    /\ <<config, pages, chain>> \in Deployments
    /\ expired \in BOOLEAN /\ faults \in 0 .. MaxFaults
    /\ phase \in Phases /\ k \in 1 .. Len(config.dependencies) + 1
    /\ phase \in {"head", "metrics"} => k \in Deps
    /\ \A f \in findings : f.severity \in Severities

(***************************************************************************)
(* Every dependency with an RPC URL is asked for everything, whatever of   *)
(* it fails: an unreachable or wrong chain still gets a verdict on its     *)
(* head and on its metrics.                                                *)
(***************************************************************************)
DependenciesAreComplete ==
    phase = "done" /\ config.enabled =>
        \A d \in Deps : LET name == config.dependencies[d].name IN
            IF config.dependencies[d].rpc
            THEN /\ \E id \in {"rpc", "chain_id"} : HasFinding(findings, <<"interop", name, id>>)
                 /\ \A id \in {"head", "metrics"} : HasFinding(findings, <<"interop", name, id>>)
            ELSE HasFinding(findings, <<"interop", name, "rpc">>)

DependenciesAreSound ==
    /\ faults = 0
    /\ \A d \in Deps : LET dep == config.dependencies[d] IN
          /\ dep.rpc /\ dep.metrics /\ chain[d] = dep.chainId
          /\ \A id \in {"chain_id", "head", "metrics"} :
                \E f \in findings : f.id = <<"interop", dep.name, id>> /\ f.severity = "ok"

ServicesAreSound ==
    /\ config.supervisor =>
          /\ pages.supervisor.up = {1}
          /\ ExpectedChains \subseteq {r.chain : r \in pages.supervisor.refs}
    /\ config.monitor =>
          /\ pages.monitor.up = {1} /\ pages.monitor.message_status # {}
          /\ \A s \in pages.monitor.message_status : s.risky => s.value = 0

(***************************************************************************)
(* The gate of --fail-on warn is sound.  If this check alone would end     *)
(* with exit code 0 under it, then before the deadline every dependency    *)
(* was read in full and serves its configured chain; and a service whose   *)
(* page is configured is up, op-supervisor knows every expected chain, and *)
(* op-interop-mon has seen no message at risk.                             *)
(***************************************************************************)
WarnGateSound ==
    phase = "done" /\ config.enabled /\ ExitCode(findings, "warn") = 0 =>
        Deps # {} /\ DependenciesAreSound /\ ServicesAreSound

Exceeds(refs, cross, local, c) ==
    \E r, s \in refs : /\ r.chain = c /\ r.type = cross
                       /\ s.chain = c /\ s.type = local /\ r.value > s.value

Disordered(refs, c) ==
    Exceeds(refs, "cross_unsafe", "local_unsafe", c) \/ Exceeds(refs, "cross_safe", "local_safe", c)

RefVerdict(severity) == Service("supervisor", "ref_types", severity) \in findings

(***************************************************************************)
(* No false alarm about the order of safety heads: if cross heads are      *)
(* reported to exceed the local ones, then they do on one chain, provided  *)
(* that each chain has a local ref for each of its cross refs.  The code   *)
(* compares maxima over all chains.                                        *)
(***************************************************************************)
RefOrderAlarmIsReal ==
    LET refs == pages.supervisor.refs IN
    /\ RefVerdict("warn")
    /\ \A r \in refs : r.type \in {"cross_unsafe", "cross_safe"} =>
          \E s \in refs : s.chain = r.chain
                          /\ s.type = IF r.type = "cross_safe" THEN "local_safe" ELSE "local_unsafe"
    => \E c \in Chains : Disordered(refs, c)

(***************************************************************************)
(* The check ends whatever fails.                                          *)
(***************************************************************************)
Termination == <>(phase = "done")

(***************************************************************************)
(* The recommendation of the finding reads "cross heads should not exceed  *)
(* corresponding local heads": where they do, the refs are not reported    *)
(* ok.                                                                     *)
(***************************************************************************)
RefOrderIsNotMissed ==
    RefVerdict("ok") => \A c \in Chains : ~Disordered(pages.supervisor.refs, c)
=============================================================================
