# Verification of opstack-doctor

`opstack-doctor` is a read-only command line tool that diagnoses an OP Stack
deployment: it compares a candidate execution client (op-reth) with a trusted
reference (op-geth), judges the topology of op-nodes and the proxyd endpoints in
front of them, and reads interop services. Its product is a list of findings,
which becomes an exit code that gates a migration (`check --fail-on`), and a
Prometheus page that alerts are built on (`export metrics`).

The program is one goroutine. What makes it hard to test is that none of its
JSON-RPC reads and scrapes sees the same instant: the nodes import blocks, reorganise
and fail between any two of them, and one deadline of two minutes covers them
all. The models therefore have two parties: the fleet that moves, and the doctor,
with one action per network call. The questions are those an operator would ask:
can the gate open on something that was not read? Is every alarm real? Is real
trouble always reported? Does every series mean what its documentation says?

## The system

| component | state it keeps | operations | interacts with |
|---|---|---|---|
| command line, `cmd/opstack-doctor/main.go` | flags, the context with its deadline | `check`, `validate`, `export metrics`, `generate`, `demo`, `fixture`, `completion` | loads the config, runs the checks, renders the findings, turns them into the exit code |
| config, `internal/config`, `internal/validate` | the parsed configuration | `Load`, `Parse`, `ApplyDefaults`, `Validate` | read by every check; `validate` prints its findings alone, `check` and `export metrics` put them first in their report |
| check runner, `checks.Run` | the list of findings, the shared context | the findings of `Validate`, then the five checks, in a fixed order | passes the op-nodes' scraped states to the topology check |
| execution check, `checkExecution` | head and reachability per endpoint, the loop over common blocks, counters | probe, lag, block comparison, RPC-surface comparison | reference and candidate RPC |
| op-node metrics check, `checkOPNodeMetrics` | safe ref per node name | one scrape per node, verdicts per metric | op-node metrics pages; feeds the topology check |
| topology check, `checkTopology` | none beyond its loops | source tier, declared source, RPC heads, safe heads | op-node RPC, the states scraped before |
| proxyd check, `checkProxyd` | proxyd's head, the backend heads read | intent, chain ID, head, native metrics, backend heads, roles | proxyd RPC and metrics, op-node RPC |
| interop check, `checkInterop` | refs per expected chain | dependencies, op-supervisor refs, op-interop-mon counters | dependency RPC, supervisor and monitor metrics |
| JSON-RPC client, `internal/rpc` | request id | `Call` and its wrappers | one HTTP request per call, ten seconds each |
| metrics parser, `internal/metrics` | none | `ParseText`, `Find`, `MaxValue`, `MinValue` | text of a scrape |
| report, `internal/report` | none | `Summarize`, `ExitCode`, `RenderPrometheus`, `RenderJSON`, `RenderHuman` | the findings |
| redaction, `internal/redact` | none | rewriting of URLs in every finding | the findings |
| alert generator, `internal/generate` | none | `Alerts`, `Runbook`, schema | reads the config; its rules read the exported series by id, label and threshold |
| scheduled deployment, `examples/deploy` | the temporary files of its runs, the textfile that node-exporter reads | a cron script, a Kubernetes CronJob | runs `export metrics`, renames its output; Prometheus evaluates the rules on it |
| demo, fixture, completion, release preflight | none | static text, file checks | - |

What is hard, per component, and the properties that make it correct:

* **execution check** - the two heads are read at different moments; up to
  `compare_blocks` pairs of blocks are read after them; one failed fetch does not stop
  the loop; the window is clipped in unsigned arithmetic; the newest block is read
  again by number and by hash. Correct: exit code 0 means that everything asked for was
  read and agrees; a healthy pair passes; a divergence or lag that is reported is real.
* **op-node metrics and topology checks** - four values that belong together
  are read at four moments; a scrape may fail or lack a ref; names may repeat.
  Correct: every node and follower is accounted for; exit code 0 under
  `--fail-on warn` means a redundant, healthy and compared fleet; lag verdicts are right
  as far as the order of the reads justifies.
* **proxyd check** - backends are read after proxyd; gauges of several
  backends and groups are folded and filtered. Correct: the gates do not open on an endpoint that
  was not read, serves the wrong chain or shows trouble of an expected backend.
* **interop check** - early exits of its loops skip later reads. Correct: every
  dependency and expected chain is accounted for.
* **metrics parser** - one bad line discards the scrape; folds over values with
  NaN depend on the order of samples. Correct: a slow backend is reported although others are idle.
* **config** - `0` means "left out" for thresholds; validation and checks judge the same
  declarations with separate code, and one report holds the verdicts of both. Correct: they agree.
* **report** - a gauge that is absent and a gauge that is 0 mean different
  things; several findings may become one series.
* **alert generator** - its rules name finding ids, labels and thresholds far from the code that emits
  them. Correct: a silent rule means that the check found nothing of its kind.
* **scheduled deployment** - runs may overlap, fail or be killed between two steps; a stale page looks
  like a healthy one; rules and pages may stem from different configurations. Correct: only whole pages are
  published, trouble that lasts alerts, and an alert that is no longer due stops.

`PROJECT.json` lists each hazard at its line.

## Modules

    Report            findings, exit code, gauges           internal/report
      ReportProofs            lemmas about findings, rules, maxima and loops
    RPCCall           the outcomes of one network call      internal/rpc
    ExecutionCheck    checkExecution                        internal/checks
      ExecutionCheckProofs    theorems about it
    MigrationGate     what it promises, abstractly
    ExecutionGate     the refinement mapping
      MCExecutionCheck        instances of both
      ExecutionGateProofs     the refinement as a theorem
      ExecutionSoundProofs    what exit code 0, a healthy pair and the alerts mean
    TopologyCheck     checkOPNodeMetrics, checkTopology     internal/checks
      MCTopologyCheck
      TopologyCheckProofs     theorems about it
    ProxydMetrics     the verdicts on a proxyd page         internal/checks
    ProxydCheck       checkProxyd                           internal/checks
      MCProxydCheck
      ProxydCheckProofs       theorems about it
    ConfigValidate    Validate on op_nodes, proxyd, interop internal/config, internal/validate
    TopologyValidated, ProxydValidated, InteropValidated
                      both judges of one configuration
    MetricSamples     MaxValue and NaN                      internal/metrics
    InteropCheck      checkInterop                          internal/checks
      MCInteropCheck
      InteropCheckProofs      theorems about it
    PromExport        RenderPrometheus                      internal/report
    AlertRules        Alerts, and what Prometheus makes of it   internal/generate
    ExecutionAlerts, ProxydAlerts, InteropAlerts, TopologyExport
                      a check, its export and the rules on it
    AlertPipeline     the cron script and the deployment    examples/deploy, cmd
      MCAlertPipeline
      AlertPipelineProofs     theorems about it

**Report.** A finding is a record of id, severity, target and one sample of its
evidence. The list of findings is a set: the exit code and the gauges cannot tell the
difference, and the one thing that repetition does, duplicate series, shows in findings
that differ in their sample only. Wording is left out.

**RPCCall.** `Answered` and `Failed` are the two ends of a call. A call fails if
the deadline has passed, or, at most `MaxFaults` times, before. The timeout of a single call,
a refused connection, an HTTP status, an RPC error and a reply that does not decode all take
the same path in the code, an error, and are one outcome.

**ExecutionCheck.** `phase` and `at` are the program counter: the call the doctor makes
next and the endpoint it makes it to. `status` is the pair of
`executionEndpointStatus`, `i`, `compared` and `missing` are the locals of the loop, `heldBlock`
and `heldCount` what was read from the reference and not yet compared. `ClientVersion`,
`ChainID` and `BlockNumber` are `probeExecutionEndpoint`; `ReferenceBlock` and
`CandidateBlock` one iteration of `compareExecutionBlocks`; `ReferenceTxCount`
to `CandidateByHash` are `compareExecutionRPCSurface`. What the code computes between two calls
belongs to the action of the earlier call. The nodes import blocks (`Advance`), move to another
history at any height (`Reorg`) and leave out fields of blocks (`Reply`); the context expires
(`Expire`). By hash, a node answers with a block of its own history if it has one, or
possibly with one it kept from another history.

**MigrationGate and ExecutionGate.** The abstract gate knows which blocks are wanted, which were
examined, whether anything failed, and a verdict. `ExecutionGate` maps the check to it: wanted are
the blocks `compare_blocks` asks for below the common head, examined those the loop has left behind,
failed means that `--fail-on fail` would exit with 1. Every call is a step of the gate or
leaves it alone.

**TopologyCheck.** `Scrape` is one iteration of `checkOPNodeMetrics`, with all verdicts on the
page; `Follow`, `SourceHead` and `NodeHead` are one iteration of `checkTopology`, up to and
between its two calls. `states` maps a *name* to what was scraped, as the code's map does: of
two nodes of one name the last wins. The op-nodes advance their heads and derive safe blocks;
`lagged` and `caughtUp` record which followers were, at some moment of the run, behind by more
than the threshold, or not.

**ProxydMetrics and ProxydCheck.** A page gives each metric the set of its series; `PageFindings`
is the whole of `checkProxydMetrics` after a successful scrape. `ProxydCheck` has one action per
call and loop pass. proxyd serves the head of one of its op-nodes and may move to another
one, higher or lower (`Route`). The latency is a summary: its series keep the order of the page, and
`MetricSamples` folds their values, of which a quantile of an idle backend is NaN. A value is a set of at most one number, `SampleValues`:
comparisons quantify over it, so that every comparison with NaN is false, as in the code. `MaxValue` and `quantileSamples` are recursive
functions over the index, like the loops they model.

**ConfigValidate, TopologyValidated, ProxydValidated, InteropValidated.** `checks.Run` starts its report with the findings
of `Validate` (`checkConfig`), which `validate` prints alone, and then the checks judge the same declarations again, by code of their own.
`ConfigValidate` is what `Validate` says of op-nodes, proxyd endpoints and the interop section, and `ConfigFindings` what
`internal/validate` makes of it; the other three modules set it beside what a run of the check
ends with. They differ in one case by design of the code: without any op-node, the topology check warns of
the source tier and `Validate` does not. Where the cases of a switch overlap, the model follows their order (`ExpectedBackendVerdict`: a
name that no op-node has fails before its role is asked for).

The `findings` of `ExecutionCheck`, `TopologyCheck`, `ProxydCheck` and `InteropCheck` are those of the one check. In a report there are
more: those of `Validate` and of the other checks. More findings can only close a gate, so what exit code 0 means for the findings of one
check it means for the report. Where `Validate` adds something to the meaning of exit code 0, a theorem says so (`ProxydReportIsSound`).

**InteropCheck.** `SupervisorMetrics` and `MonitorMetrics` are the two scrapes, with all verdicts on a
page; `ChainID`, `BlockNumber` and `DependencyMetrics` the three calls of one iteration over the
dependencies, `MissingRPC` its early end. Nothing read here is compared with an earlier
read, so the services stand still; only calls fail and the deadline passes.

Findings of the checks on one page are emitted in one step: no call lies between them.

**PromExport and AlertRules.** `RenderPrometheus` maps a set of findings to a set of series, with the generic
part and one operator per derived gauge. An id is the sequence of its parts between dots, so a name is
recovered from it as the code does it, up to the next dot. `Alerts` maps a configuration to the rules that
read those series, and the rule on follower lag. How a selector, a comparison and a subtraction of vectors
behave is Prometheus's, and is marked external. The four compositions below them put a check, its export and its
rules together; they add no state, only properties of the finished check.

**AlertPipeline.** The variables are those of the deployment: `pc`, `config`, `findings` and `temp` of each run of
the script, the page served (`output`), `doctor.yaml` (`file`), the configuration the rules were generated
from (`rules`), and the time each alert instance has been matching (`held`). A run is `Start` (lines 2-15 of the
script: variables, temporary file, trap), `Load` (the configuration, or failure), `CheckExecution`, which first adds
what `Validate` says of the configuration (`ConfigVerdict`), and `CheckProxyd` (`checks.Run` reads the fleet at different moments), `Render` and `RenderDerived` (the file holds part of the page
between them) and `Publish` (chmod, mv). A failing command ends the run through the trap (`Fail`); `Kill` ends it anywhere, with or
without the trap. Nothing locks runs against each other, as nothing in the script does. The detailed checks are the subject of their own
modules: here `ExecutionFindings` and `ProxydFindings` are what they end with on a fleet that stands still during one check.

## Runs

| run | instance | shows |
|---|---|---|
| `execution_gate` | two nodes, three histories, heads up to 2, one fault, one reorg, `compare_blocks` 2 and -1 | the loop stays within the chain; exit code 0 means agreement; healthy pairs pass; the lag alarm is real; the alerts generated on the exported page, which read the lag and both match gauges, are honest; the check implements `MigrationGate` |
| `execution_fields` | seven pairs of nodes that leave out fields, are of other families or chains, four configurations; fair | no divergence from a missing field; gate sound; the check ends; a deadline closes the gate |
| `execution_series` | violation | two diverging blocks make two samples of one series |
| `topology` | two or three op-nodes, ten topologies, three pages, heads up to 2, one fault; fair | complete report, sound gate, real lag alarms, no missed lag, `validate` agrees, one exported lag series per follower and kind, the checks end |
| `topology_order` | violation | a follower configured before its source is reported to lag though it never did |
| `proxyd` | twelve declarations, among them two endpoints of one name, pages with every kind of trouble, two op-nodes, heads up to 2, one fault; fair | both gates sound, no missed lag, `validate` agrees, the generated alerts are silent or loud as the check was, a slow backend is reported unless the page starts with a NaN, the check ends |
| `proxyd_alarm` | violation | proxyd is reported to lag by what backends imported after it was read |
| `proxyd_redundancy` | violation | one source named twice counts as two |
| `interop` | up to two dependencies, odd declarations, ten pages of op-supervisor and six of op-interop-mon, two faults; fair | every dependency accounted for, sound gate, silent alerts mean a sound gate, `validate` agrees, real alarms about safety heads, the check ends |
| `interop_refs` | violation | the disordered heads of one chain are reported ok when another chain's are higher |
| `alerts` | five scenarios: two overlapping runs; one run and each kind of trouble; one run and edits of `doctor.yaml`; one failing write or kill; fair | only whole pages are served, only kills leave files, lasting trouble alerts, alerts that are no longer due stop |
| `alerts_follower` | violation | `LightNodeLaggingSource` never fires |

The bounds. Heads up to 2 with a threshold of 1 are the smallest in which one side can lag by
more than the threshold, and blocks 0, 1 and 2 give the loop a first, a middle
and a last iteration and both sides of genesis. Three histories suffice for two nodes to agree, to
be forked, and to disagree on one field of one block under the same hash. One fault per
run and a deadline at any moment reach every error path of every call; two independent
faults would only combine paths that share no state but the findings. `Word` is 8 instead of
2^64: what matters is that a height is below it. Reorgs are
modelled in ExecutionCheck, where a hash is read and used; in TopologyCheck and ProxydCheck
only heights are read, chains only grow, and the lag properties are about such runs. A set of
deployments covers each branch of the verdicts on pages and declarations.

In `alerts` the lags lie just below, at and just above the thresholds 1 and 2, which differ between the gauges and
between configurations, so that a rule or a check that reads the wrong one shows. The scenarios keep apart what does not
interact: overlapping runs need no third run, since a run touches nothing of another but `output`; the kinds of trouble need one run
each. `EvalMinutes` is 5, the longest wait of the judged rules: an instance fires at its second or third evaluation. Alert ages are capped at the wait of the rule.

Deadlock is not checked: the doctor stops, and so do chains at the bound of their height.

Fairness. `FairSpec` assumes weak fairness of the doctor as a whole: its goroutine is always
runnable between calls, and a call returns by the timeout of its http client or by the deadline.
Nothing is assumed of the nodes: they may stop importing, or reorganise at any moment, and
the deadline need not pass. `AlertPipeline` assumes that each run makes its next step as long as it is neither killed nor failing
(each step is bounded: the export by its deadline, the rest are local commands), that cron starts it again, and that Prometheus evaluates
its rules. The fleet and the operator are free; the two liveness properties are conditional on what they leave alone in the end.

## What the runs found

1. *Duplicate series* (`execution_series`). `RenderPrometheus` labels a finding by id, severity
   and target; `compareExecutionBlocks` emits one divergence per block with the same three. The
   export of a run that found two diverging blocks is not a valid page.
2. *proxyd lag alarms* (`proxyd_alarm`). proxyd's head is read first and the backends' later, so a
   growing chain makes a lag of proxyd. The execution check reads in the order that cannot.
3. *Safe-head lag alarms* (`topology_order`). Pages are scraped in the order of the configuration;
   a follower before its source looks further behind than it is.
4. *Redundancy by repetition* (`proxyd_redundancy`). Entries of `expected_backends` are counted, not nodes.
5. *Masked safety heads* (`interop_refs`). Refs of all chains are folded into one maximum per type before
   cross and local heads are compared; the recommendation speaks of corresponding heads.
6. *A rule that cannot fire* (`alerts_follower`). `LightNodeLaggingSource` subtracts the safe refs of two nodes without
   `on()` or `ignoring(node)`; the label `node` of the two sides always differs, so Prometheus pairs nothing.

Beside these, the code does the following, which no document speaks against and the properties are stated around:

* A candidate that cannot be reached raises no alert: no rule reads `execution.candidate.reachable`, and the lag and match
  gauges are absent. The same holds of a block comparison in which every fetch failed.
* A configured name with a dot is cut at the dot when the exporter makes a label of it, and the rule for that endpoint then selects nothing.
* Nothing locks the runs of the script against each other. On its schedule of five minutes, with exports that end within two, runs do not overlap; if
  one is started by hand or held up, an older page may replace a newer one until the next run.
* A latency quantile that is NaN hides a slow backend if it is the first on the page. `SlowBackendsAreReported` says so.
* Dependencies of one name pass `Validate`.
* `max_rpc_latency_seconds` is compared with proxyd's latencies only; an op-node's are checked for presence.

## Proofs

`ExecutionCheckProofs` proves, for all histories, heights, configurations, deployments and bounds
that satisfy `BoundsAssumption` and `DataAssumption`:

* `TypeCorrect`: `Spec => []TypeOK`. `TypeOK` alone is not inductive: that the loop variable stays
  a height needs that it is below the window, and that the window is no larger than the chain.
  The inductive invariant `TypeInv` adds `LoopInBounds` to `TypeOK`; one lemma per group of
  actions shows the step.
* `LoopStaysInBounds`: `Spec => []LoopInBounds`, from the same invariant. The argument is
  `WindowType`: with heads below `Word - 1` the limit `(head + 1) % Word` is `head + 1`; at
  `Word - 1` it is 0 and the loop is not entered.
* `NoFalseLagAlarm`: `Spec => LagAlarmIsReal`. `HeadsInv` says that without reorgs a head
  read over RPC is at most the head of the node now. The candidate's head is read in the step that
  raises the alarm, the reference's before it, hence the real lag is at least the one
  reported. `LagReported` shows that only `EndProbe` emits that finding.

`ExecutionGateProofs` proves `CheckImplementsGate`: `NoWrap` implies that `Spec` implements
`MigrationGate`. The argument needs an invariant that ties the program counter to what was read,
`GateInv`: while the endpoints are probed the candidate's head is not known; a reference whose
head is not known has drawn a failure by the time the candidate is probed; comparing begins with both
heads known; and the loop variable is inside the window. The steps of the
doctor are first summarised as four moves (`DoctorMoves`), and each move is shown to
be a step of the gate. `WindowCovers` is the arithmetic: the window covers the requested
blocks and no other. Its assumption, `NoWrap` (`MaxHead + 1 < Word`), is a real one: on a node
whose head is 2^64-1, `minHead+1` is 0, nothing is compared, and the gate may open.

`ExecutionSoundProofs` goes on from there, under the same assumption:

* `GateIsSound`: `NoWrap => (Spec => []GateSound)`. `SoundInv` has three parts. What is held of a block is what
  the reference says of it. While nothing has failed, everything that the program counter has passed is as the gate
  promises: chain IDs, client family, the compared blocks of the window, the transaction counts. And
  without reorganisations a history does not change below a head, so that what was so when it was read is so at the end.
* `NoFalseDivergence`: `NoWrap => (Spec => []DivergenceIsReal)`, from the same invariant: both sides of a reported
  divergence were read of one block, on histories that have not changed since.
* `HealthyPairIsPassed`: `NoWrap` and `OneBlockPerHash` imply `Spec => []HealthyPairPasses`. `OneBlockPerHash` says that blocks of different
  heights differ in their hash, which commits to the height; the histories of the runs satisfy it. Without it a node could answer a request by
  hash with another block. `HealthInv` adds to the property `HeldForHash`, that the block whose hash is asked for is the reference's at the
  common head, and what `SoundInv` and `LagInv` say of the heads: the doctor never asks for a block that a node does not have yet, because
  the window ends at the lower of the heads read and heads only grow.
* `AlertsOnExecutionAreHonest`: `NoWrap => (Spec => []ExecutionAlertsAreHonest)`. `HonestInv` adds two parts to `SoundInv`. What a
  finding on lag or blocks says is so (`FindingsAreTrue`); and each requested block that the loop has left behind
  agrees, or is reported as different or as not fetched, and likewise the transaction counts (`NothingConcealed`). That the rules fire exactly for the gauges of those findings is
  computed from `RenderPrometheus` and `Alerts` by the lemmas of `ReportProofs`.

`TopologyCheckProofs` proves, for every fleet, every content of the pages and every course of the heads:

* `TopologyTypeCorrect`: `Spec => []TypeOK`, from `Types`, which adds that a scrape leaves at most one safe head per name.
* `NoFalseFollowerAlarm`: `Spec => FollowerLagAlarmIsReal`. What was read from the source is at most its head now (`HeadInv`),
  and the follower's head is read in the step that raises the alarm.
* `NoFalseSafeLagAlarm` and `NoMissedSafeLag`: `Spec => SafeLagAlarmIsReal`, `Spec => SafeLagIsNotMissed`. Of two safe heads the
  later was read when the older was already held, and safe heads only grow; so at that moment the older side may have
  grown but not shrunk. `OrderInv` says this of whatever pair is held, in either order of the configuration.
* `NothingGoesUnreported`: `Spec => []ReportIsComplete`. Each loop has left findings about every node that it has passed (`CompleteInv`).
* `TopologyGateIsSound`: `Spec => []WarnGateSound`, by the argument of `InteropCheckProofs` below, with one part for each of the
  two loops and one for the source tier between them.
* `TopologyJudgesAgree`: `Spec => []ValidationAgreesWithTopology`. By `OriginInv` every finding about the topology is the verdict on the source tier or on a
  declared source, both functions of the configuration and there once the loop has come by, or compares heads, which never fails. `validate`'s issues are unfolded by the lemmas of `ReportProofs`.
* `FollowerSeriesNeverCollide`: `Spec => []FollowerSeriesAreUnique`, from `LagsInv`: each lag finding is of a follower that the loop has
  passed, and if no two op-nodes share a name, as the property supposes, it is the only one of its id.

`ProxydCheckProofs` proves, for every set of deployments:

* `ProxydTypeCorrect`: `Spec => []TypeOK`. A name stands for the last op-node that bears it, a maximum: `MaxExists` shows that a
  nonempty set of numbers up to n has one, by the well-foundedness of < on their distances to n.
* `NoMissedProxydLag`: `Spec => ProxydLagIsNotMissed`. `LagInv`: a backend that is now not too far ahead of the proxyd head that was read is
  in the history, because it was no further ahead when that head was read. A backend's head enters the comparison as it is now,
  and the comparison is with the highest of them, so an ok verdict speaks of each.
* `ProxydFailGateIsSound`: `Spec => []FailGateSound`. Inductive is `FailAt`: unless something failed, the endpoints passed,
  and the calls passed at the current one, are as promised. The part about pages needs that a finding filed under an endpoint's name is
  about that endpoint, and `FailGateSound` claims it only of configurations in which no two endpoints share a name (`UniqueEndpoints`): of two
  endpoints of one name a page read of one would count for both.
* `ProxydReportIsSound`: the same of the report as `check` prints it, with the findings of `Validate` in it, and without that condition. `Validate` fails
  a configuration in which two endpoints share a name, so exit code 0 of the report implies `UniqueEndpoints` (`AcceptedEndpoints`).
* `ProxydWarnGateIsSound`: `Spec => []WarnGateSound`. Under `--fail-on warn` every endpoint must have been scraped, so the names do not matter. `WarnAt` adds
  to `FailAt` what was read and found good: at the end of an endpoint there is a head of proxyd and one of each backend, hence a verdict on the lag. That
  verdict is good, so by `LagInv` each backend was at some moment not too far ahead of proxyd. The roles are counted over the
  entries of the list (`SourcesCounted`), and the filters by backend leave out no series of an expected one.
* `ProxydJudgesAgree`: `Spec => []ValidationAgreesWithProxyd`, from two invariants: `OriginInv`, what a finding about intent, backends or roles
  says of the declaration it stems from, and `SaidInv`, that the endpoints passed have theirs.
* `AlertsOnProxydAreHonest`: `Spec => [](NamesGiven => ProxydAlertsAreHonest)`. `Alerts` generates no lag rule for an endpoint without a name, hence
  `NamesGiven`; `Validate` rejects such a configuration.
* `SlowestBackendIsJudged`: `Spec => []SlowBackendsAreReported`, for pages with any number of latency samples. `SlowInv` says that an
  endpoint whose page was scraped has the verdict on its own page, if it shares its name with no other, as the property supposes. The loop itself is proved in two steps:
  `IterationExists` gives the recursive functions `MaxValue` and `quantileSamples` the values of their loops, and a least index at which the
  running maximum goes wrong shows that, from a number on, it is below no sample (`MaxValueExceeds`).

`InteropCheckProofs` proves, for every set of deployments:

* `InteropTypeCorrect`: `Spec => []TypeOK`, one lemma per group of actions; the grades of findings are the only hard part
  (every emitted severity is one of the four).
* `EveryDependencyIsJudged`: `Spec => []DependenciesAreComplete`. The inductive invariant `CompleteInv` says that the dependencies before
  the loop variable have all their findings, and the one at it those of the calls it has behind it.
* `WarnGateIsSound`: `Spec => []WarnGateSound`. Inductive is `GateInv`: as long as nothing of severity warn or fail was emitted, everything that the
  program counter has passed is as the gate promises. A step either emits something bad, and the set of findings
  only grows, or establishes its part.
* `ValidateAgrees`: `Spec => []ValidationAgreesWithInterop`, from the completeness of the findings and what `Validate` rejects.
* `QuietAlertsAreSound`: `Spec => []QuietInteropIsSound`. Every id under which the check warns or fails is selected by one of the rules, so that
  silent rules leave only findings that `WarnGateIsSound` speaks of.
* `RefOrderAlarmsAreReal`: `Spec => []RefOrderAlarmIsReal`. The maximum of the cross refs is attained by some chain (`FiniteMax`), and the local ref of that
  chain is at most the maximum of the local refs.

`AlertPipelineProofs` proves, for any number of runs, any configurations and fleets:

* `DeploymentTypeCorrect`: `Spec => []TypeOK`; that a run beyond `load` has a configuration is part of it.
* `NoTornPage`: `Spec => []PublishedPageIsWhole`, from `PipelineInv`: a run about to publish has in its own file the whole page of its own
  findings, which are those of its own configuration on two states of the fleet. It needs that temporary files are not shared.
* `NoLitterWithoutKills`: `Spec => []OnlyKillsLitter`.

`ReportProofs` holds what these share. Findings have one of four severities, and an exit code of 0 says which of them are absent. A rule on findings
fires for exactly the findings whose ids it selects. An accepted configuration has no failing issue. Induction over data is out of reach of the library's theorems here, whose
parameter is an operator; in its place stands the least counterexample: `LeastNumber`, from the well-foundedness of <, gives every nonempty
set of numbers a least element. From it follow maxima of finite sets (`MaxExists`, `FiniteMax`) and the values of a loop over a
sequence (`IterationExists`).

The assumptions on constants are `BoundsAssumption` and `DataAssumption` of each module: bounds are numbers, and deployments have the types that the
configuration's and the metrics' data have in the code; in particular a page has finitely many refs, and a latency sample is a
number or NaN. TLC evaluates them on every run. `NoWrap` and `OneBlockPerHash` are hypotheses of the theorems that need them.

Every safety invariant of a passing run is the subject of a theorem. Only model-checked is what is temporal beyond an action property:
that the checks end (`Termination`), that a deadline closes the gate (`DeadlineClosesGate`), that lasting trouble alerts and alerts resolve.
Liveness under fairness and ENABLED are out of the proof system's reach.

## Not modelled

* *Formatting*: JSON and human output, redaction of URLs, the JSON-RPC encoding, the characters of the Prometheus text
  format. They are rewritings of strings without state, covered by unit tests; where a property hangs on one, it is modelled by
  what it does (a name cut at a dot, a page that does not parse).
* *Static text*: runbook, schema, demo, fixture, completion; the rules that compare one native metric with a constant.
* *Release preflight*: file names and versions at release time.
* *ApplyDefaults* and the chain and execution sections of `Validate`: one assignment or test per field. The models
  take configurations as they are after it.
* *The whole run in one state space*: the checks share nothing but the deadline, which every check module lets pass at any moment, also before
  its first call, and the safe refs, which TopologyCheck carries from the op-node check to the topology check; their product would
  multiply states without a new interaction. What follows the checks, from findings to alerts, is composed with each of them.
* *The Kubernetes CronJob*: it prints the page to its log and forbids overlap.
