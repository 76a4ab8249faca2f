---------------------------- MODULE AlertPipeline ----------------------------
(***************************************************************************)
(* The scheduled deployment of examples/deploy: cron starts                *)
(* prometheus-textfile-cron.sh, which runs export metrics and publishes    *)
(* its output for node-exporter; Prometheus evaluates the rules that       *)
(* generate alerts wrote.                                                  *)
(*                                                                         *)
(* The doctor keeps nothing between runs, and nothing keeps two runs of    *)
(* the script apart.  A run may fail at each of its steps (set -e), or be  *)
(* killed, with or without its EXIT trap.  The fleet changes, and so does  *)
(* doctor.yaml, which a run reads when it starts and the rules stem from.  *)
(*                                                                         *)
(* Of the fleet there are an execution candidate, proxyd endpoints of one  *)
(* state, and a follower; a check reads its part of it in one step, the    *)
(* checks of one run at different moments.  Reading is ExecutionCheck's    *)
(* and ProxydCheck's subject: here it is what they end with.  What         *)
(* Validate says of the configuration comes first in each report; here it  *)
(* is the severities of its issues.                                        *)
(***************************************************************************)
EXTENDS AlertRules, ConfigValidate

CONSTANTS
    Runs,         \* runs of the script that may be alive at once
    Configs,      \* configurations doctor.yaml may hold, after ApplyDefaults
    Fleets,       \* states of the fleet
    Scenarios,    \* <<runs, contents of doctor.yaml, fleets>> a behaviour keeps to
    MaxFaults,    \* bound on failing writes and killed runs together
    EvalMinutes   \* minutes between two evaluations of the rules

VARIABLES
    scenario,     \* the runs, contents of doctor.yaml and fleets of this behaviour
    fleet,        \* what the endpoints would answer now
    file,         \* doctor.yaml: a configuration, or none that parses
    rules,        \* the configuration the rules in Prometheus were generated from
    pc,           \* per run: the next step
    config,       \* per run: the configuration it loaded
    findings,     \* per run: the findings of its export
    temp,         \* per temporary file: its content, none if it does not exist
    output,       \* OUTPUT_FILE: the page that node-exporter serves, none at first
    held,         \* per pending or firing alert instance: minutes since it matches
    faults,       \* writes that failed
    kills,        \* runs that were killed
    litter        \* temporary files left behind

run  == <<pc, config, findings, temp>>
vars == <<scenario, fleet, file, rules, run, output, held, faults, kills, litter>>

\* The values of a variable that holds one of S or nothing.
Optional(S) == {{}} \cup {{x} : x \in S}

Steps == {"idle", "load", "execution", "proxyd", "render", "derive", "publish"}

ConfigType ==
    [chain : STRING, maxHeadLag : Nat, maxSafeLag : Nat, proxyd : SUBSET Seq(STRING),
     followers : SUBSET [node : STRING, source : STRING], issues : SUBSET {"warn", "fail"}]

\* The state of an endpoint: is it up, how far is it behind, on another history?
FleetType ==
    [candidate : [up : BOOLEAN, lag : Nat, forked : BOOLEAN], proxyd : [up : BOOLEAN, lag : Nat],
     followerLag : Nat]

ASSUME BoundsAssumption == MaxFaults \in Nat /\ EvalMinutes \in Nat \ {0}

ASSUME DataAssumption ==
    /\ Configs \subseteq ConfigType /\ Fleets \subseteq FleetType
    /\ Scenarios \subseteq (SUBSET Runs) \X (SUBSET Optional(Configs)) \X (SUBSET Fleets)

-----------------------------------------------------------------------------
(* What the checks report *)

\* checkConfig: the verdict of Validate.
ConfigVerdict(cfg) == ConfigFindings({Issue(severity, <<"op_nodes">>) : severity \in cfg.issues})

LagFinding(id, target, lag, over, severity) ==
    Finding(id, IF over THEN severity ELSE "ok", target, <<"lag_blocks", lag>>)

Execution(part, name, severity) ==
    Finding(<<"execution", part, name>>, severity, <<"execution">>, NoSample)

\* checkExecution on a reference that can be read and this candidate.
ExecutionFindings(cfg, c) ==
    IF ~c.up THEN {Execution("candidate", "reachable", "fail")}
    ELSE {Execution("candidate", "reachable", "ok"),
          LagFinding(<<"execution", "head_lag">>, <<"execution">>, c.lag, c.lag > cfg.maxHeadLag, "fail")}
         \cup IF c.forked
              THEN {Execution("block_compare", "divergence", "fail"),
                    Execution("rpc_surface", "fetch_candidate", "fail")}
              ELSE {Execution("block_compare", "match", "ok"),
                    Execution("rpc_surface", "match", "ok")}

\* checkProxyd on endpoints in this state, of which the backends can be read.
ProxydFindings(cfg, p) ==
    UNION {IF p.up
           THEN {Finding(<<"proxyd">> \o n \o <<"head">>, "ok", <<"proxyd">>, NoSample),
                 LagFinding(<<"proxyd">> \o n \o <<"head_lag">>, <<"proxyd">>,
                            p.lag, p.lag > cfg.maxSafeLag, "warn")}
           ELSE {Finding(<<"proxyd">> \o n \o <<"rpc">>, "fail", <<"proxyd">>, NoSample)} :
           n \in cfg.proxyd}

-----------------------------------------------------------------------------
(* The script and the export it runs *)

Goto(r, step) == pc' = [pc EXCEPT ![r] = step]

Unattended == UNCHANGED <<scenario, fleet, file, rules, held, kills>>

SharedTemp(r) == CHOOSE q \in Runs : TRUE

\* mktemp: a file of its own for every run.
TempOf(r) == r

Write(r, series) ==
    temp' = [temp EXCEPT ![TempOf(r)] = {(UNION @) \cup series}]

\* The run is over; what it held in memory is gone.
End(r) ==
    /\ Goto(r, "idle")
    /\ config' = [config EXCEPT ![r] = {}]
    /\ findings' = [findings EXCEPT ![r] = {}]

FailUntrapped(r) ==
    End(r) /\ litter' = litter + 1 /\ temp' = [temp EXCEPT ![TempOf(r)] = {}] /\ UNCHANGED output

\* A command of the script fails: set -e ends it, the trap removes its file.
Fail(r) ==
    End(r) /\ temp' = [temp EXCEPT ![TempOf(r)] = {}] /\ UNCHANGED <<output, litter>>

\* A write to the file, or chmod, fails.
WriteFails(r) == faults + kills < MaxFaults /\ faults' = faults + 1 /\ Fail(r)

Start(r) ==
    /\ pc[r] = "idle" /\ r \in scenario[1]
    /\ Goto(r, "load") /\ temp' = [temp EXCEPT ![TempOf(r)] = {{}}]
    /\ Unattended /\ UNCHANGED <<config, findings, output, faults, litter>>

LoadUnchecked(r) ==
    /\ pc[r] = "load" /\ Goto(r, "execution")
    /\ config' = [config EXCEPT ![r] = file]
    /\ Unattended /\ UNCHANGED <<findings, temp, output, faults, litter>>

\* config.Load; an export without a configuration prints nothing and fails.
Load(r) ==
    /\ pc[r] = "load"
    /\ \/ /\ file # {}
          /\ config' = [config EXCEPT ![r] = file] /\ Goto(r, "execution")
          /\ UNCHANGED <<findings, temp, output, litter>>
       \/ file = {} /\ Fail(r)
    /\ Unattended /\ UNCHANGED faults

Loaded(r) == CHOOSE c \in config[r] : TRUE

\* checkConfig, which reads nothing but the configuration, and checkExecution.
CheckExecution(r) ==
    /\ pc[r] = "execution" /\ Goto(r, "proxyd")
    /\ findings' = [findings EXCEPT ![r] = ConfigVerdict(Loaded(r))
                                           \cup ExecutionFindings(Loaded(r), fleet.candidate)]
    /\ Unattended /\ UNCHANGED <<config, temp, output, faults, litter>>

CheckProxyd(r) ==
    /\ pc[r] = "proxyd" /\ Goto(r, "render")
    /\ findings' = [findings EXCEPT ![r] = @ \cup ProxydFindings(Loaded(r), fleet.proxyd)]
    /\ Unattended /\ UNCHANGED <<config, temp, output, faults, litter>>

\* The lines about findings: the file holds part of the page after it.
Render(r) ==
    /\ pc[r] = "render"
    /\ \/ /\ Goto(r, "derive") /\ Write(r, GenericSeries(findings[r], Loaded(r).chain))
          /\ UNCHANGED <<config, findings, output, faults, litter>>
       \/ WriteFails(r)
    /\ Unattended

ExportFailsOnFindings(fs) == ExitCode(fs, "fail") # 0

\* The exit code of export metrics does not depend on the findings.
ExportFails(fs) == FALSE

RenderDerived(r) ==
    /\ pc[r] = "derive"
    /\ \/ /\ ~ExportFails(findings[r])
          /\ Goto(r, "publish") /\ Write(r, DerivedSeries(findings[r], Loaded(r).chain))
          /\ UNCHANGED <<config, findings, output, faults, litter>>
       \/ WriteFails(r)
    /\ Unattended

\* mv --no-clobber.
PublishFirst(r) ==
    /\ pc[r] = "publish"
    /\ End(r) /\ temp' = [temp EXCEPT ![TempOf(r)] = {}]
    /\ output' = IF output = {} THEN temp[TempOf(r)] ELSE output
    /\ Unattended /\ UNCHANGED <<faults, litter>>

\* chmod, and mv, which replaces OUTPUT_FILE in one step; then the script ends.
Publish(r) ==
    /\ pc[r] = "publish"
    /\ \/ /\ End(r) /\ temp' = [temp EXCEPT ![TempOf(r)] = {}]
          /\ output' = temp[TempOf(r)]
          /\ UNCHANGED <<faults, litter>>
       \/ WriteFails(r)
    /\ Unattended

\* The run is killed; whether the EXIT trap still runs depends on signal and shell.
Kill(r) ==
    /\ pc[r] # "idle" /\ faults + kills < MaxFaults /\ kills' = kills + 1
    /\ End(r) /\ temp' = [temp EXCEPT ![TempOf(r)] = {}]
    /\ litter' \in {litter, litter + 1}
    /\ UNCHANGED <<scenario, fleet, file, rules, output, held, faults>>

Script(r) ==
    \/ Start(r) \/ Load(r) \/ CheckExecution(r) \/ CheckProxyd(r)
    \/ Render(r) \/ RenderDerived(r) \/ Publish(r)

-----------------------------------------------------------------------------
(* The operator, the fleet and Prometheus *)

FleetMoves ==
    /\ fleet' \in scenario[3] \ {fleet}
    /\ UNCHANGED <<scenario, file, rules, run, output, held, faults, kills, litter>>

\* The file may be edited to another configuration or to one that does not parse.
EditConfig ==
    /\ file' \in scenario[2] \ {file}
    /\ UNCHANGED <<scenario, fleet, rules, run, output, held, faults, kills, litter>>

\* generate alerts leaves the rules alone when the configuration does not load.
GenerateAlerts ==
    /\ file # {} /\ rules' = file
    /\ UNCHANGED <<scenario, fleet, file, run, output, held, faults, kills, litter>>

\* The safe refs of the op-nodes, which Prometheus scrapes itself.
NativeSeries ==
    UNION {{Series("op_node_default_refs_number", [node |-> f.source, ref |-> "l2_safe"],
                   fleet.followerLag),
            Series("op_node_default_refs_number", [node |-> f.node, ref |-> "l2_safe"], 0)} :
           f \in UNION {c.followers : c \in UNION scenario[2]}}

\* An instance that does not match any more starts anew.
Evaluate ==
    /\ held' = [x \in Instances(UNION {Alerts(c) : c \in rules}, (UNION output) \cup NativeSeries)
                  |-> IF x \in DOMAIN held THEN Min({x.wait, held[x] + EvalMinutes}) ELSE 0]
    /\ UNCHANGED <<scenario, fleet, file, rules, run, output, faults, kills, litter>>

Init ==
    /\ scenario \in Scenarios
    /\ fleet \in scenario[3]
    /\ file \in scenario[2] /\ rules = {}
    /\ pc = [r \in Runs |-> "idle"] /\ config = [r \in Runs |-> {}]
    /\ findings = [r \in Runs |-> {}] /\ temp = [r \in Runs |-> {}]
    /\ output = {} /\ held = <<>>
    /\ faults = 0 /\ kills = 0 /\ litter = 0

Next ==
    \/ \E r \in Runs : Script(r) \/ Kill(r)
    \/ FleetMoves \/ EditConfig \/ GenerateAlerts \/ Evaluate

Spec == Init /\ [][Next]_vars

(***************************************************************************)
(* cron starts the script again and again, a run that is neither killed    *)
(* nor fails goes on (its export has a deadline), and Prometheus keeps     *)
(* evaluating.  Nothing is assumed of the fleet and of the operator.       *)
(***************************************************************************)
FairSpec == Spec /\ (\A r \in Runs : WF_vars(Script(r))) /\ WF_vars(Evaluate)
-----------------------------------------------------------------------------
(* Properties *)

TypeOK ==
    /\ scenario \in Scenarios /\ fleet \in Fleets
    /\ file \in Optional(Configs) /\ rules \in Optional(Configs)
    /\ pc \in [Runs -> Steps] /\ config \in [Runs -> Optional(Configs)]
    /\ DOMAIN findings = Runs /\ DOMAIN temp = Runs
    /\ faults \in Nat /\ kills \in Nat /\ faults + kills <= MaxFaults /\ litter \in Nat
    /\ \A r \in Runs : pc[r] \notin {"idle", "load"} => config[r] # {}

\* The pages that an export may print: execution is read in state f, proxyd in state g.
Exported(cfg, f, g) ==
    ConfigVerdict(cfg) \cup ExecutionFindings(cfg, f.candidate) \cup ProxydFindings(cfg, g.proxyd)

WholePages ==
    {RenderPrometheus(Exported(cfg, f, g), cfg.chain) : cfg \in Configs, f \in Fleets, g \in Fleets}

(***************************************************************************)
(* What node-exporter serves is the whole page of one run, whatever runs   *)
(* overlap, fail in a write, or are killed at any step: never part of a    *)
(* page, never the lines of two.                                           *)
(***************************************************************************)
PublishedPageIsWhole == output \in Optional(WholePages)

(***************************************************************************)
(* Only a killed run leaves a temporary file behind: a run that ends by    *)
(* itself, in success or at any failing command, cleans up.                *)
(***************************************************************************)
OnlyKillsLitter ==
    /\ litter <= kills
    /\ \A r \in Runs : pc[r] = "idle" => temp[r] = {}

\* The alerts that are due for a fleet in this state, under this configuration.
Due(cfg, fl) ==
    When(fl.candidate.up /\ fl.candidate.lag > cfg.maxHeadLag, "ExecutionCandidateLaggingReference")
    \cup When(fl.candidate.up /\ fl.candidate.forked, "ExecutionBlockComparisonMismatch")
    \cup When(fl.candidate.up /\ fl.candidate.forked, "ExecutionRPCSurfaceMismatch")
    \cup When(cfg.proxyd # {} /\ ~fl.proxyd.up, "ProxydEndpointUnhealthy")
    \cup When(cfg.proxyd # {} /\ fl.proxyd.up /\ fl.proxyd.lag > cfg.maxSafeLag,
              "ProxydHeadLaggingBackends")

Judged ==
    {"ExecutionCandidateLaggingReference", "ExecutionBlockComparisonMismatch",
     "ExecutionRPCSurfaceMismatch", "ProxydEndpointUnhealthy", "ProxydHeadLaggingBackends"}

Fires(alert) == \E x \in DOMAIN held : x.alert = alert /\ held[x] >= x.wait

\* The rules stem from doctor.yaml as it is now.
RulesAreCurrent == file # {} /\ rules = file

(***************************************************************************)
(* Trouble that lasts alerts for good: if the rules stay current and from  *)
(* some moment on an alert is due, then in the end it fires and does not   *)
(* stop, although the export has found failures.                           *)
(***************************************************************************)
LastingTroubleAlerts ==
    \A a \in Judged :
        <>[](RulesAreCurrent /\ \E c \in file : a \in Due(c, fleet)) => <>[]Fires(a)

(***************************************************************************)
(* An alert that is no longer due, for good, stops.  This holds of a       *)
(* candidate that is down too: no rule tells that it cannot be read.       *)
(***************************************************************************)
AlertsResolve ==
    \A a \in Judged :
        <>[](RulesAreCurrent /\ \A c \in file : a \notin Due(c, fleet)) => <>[]~Fires(a)

(***************************************************************************)
(* docs/alerts.md of LightNodeLaggingSource: it detects a follower whose   *)
(* safe head lags behind its configured source.                            *)
(***************************************************************************)
LaggingFollowerAlerts ==
    <>[](RulesAreCurrent
         /\ \E c \in file : c.followers # {} /\ fleet.followerLag > c.maxSafeLag)
    => <>Fires("LightNodeLaggingSource")
=============================================================================
