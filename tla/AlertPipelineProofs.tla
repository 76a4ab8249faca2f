------------------------- MODULE AlertPipelineProofs -------------------------
(***************************************************************************)
(* Proofs about AlertPipeline: whatever number of runs overlap, fail or    *)
(* are killed, the page that is served is the whole page of one run, and   *)
(* only killed runs leave a file behind.                                   *)
(***************************************************************************)
EXTENDS AlertPipeline, TLAPS

(***************************************************************************)
(* What a run at a step has loaded, found and written, by itself: step,    *)
(* cfg, fs and t are its pc, config, findings and temporary file.          *)
(***************************************************************************)
Knows(step, c, fs, t) ==
    /\ step = "proxyd" =>
          \E f \in Fleets : fs = ConfigVerdict(c) \cup ExecutionFindings(c, f.candidate)
    /\ step \in {"render", "derive"} => \E f, g \in Fleets : fs = Exported(c, f, g)
    /\ step = "derive" => t = {GenericSeries(fs, c.chain)}
    /\ step = "publish" => \E p \in WholePages : t = {p}

RunOK(step, cfg, fs, t) ==
    /\ step \in Steps /\ cfg \in Optional(Configs)
    /\ step = "idle" => t = {}
    /\ step \in {"load", "execution", "proxyd", "render"} => t = {{}}
    /\ step \notin {"idle", "load"} => \E c \in Configs : cfg = {c} /\ Knows(step, c, fs, t)

World ==
    /\ scenario \in Scenarios /\ fleet \in Fleets
    /\ file \in Optional(Configs) /\ rules \in Optional(Configs)

Counters ==
    faults \in Nat /\ kills \in Nat /\ faults + kills <= MaxFaults /\ litter \in Nat /\ litter <= kills

Types ==
    /\ pc \in [Runs -> Steps] /\ config \in [Runs -> Optional(Configs)]
    /\ DOMAIN findings = Runs /\ DOMAIN temp = Runs

RunsOK == \A r \in Runs : RunOK(pc[r], config[r], findings[r], temp[r])

(***************************************************************************)
(* The inductive invariant.  PublishedPageIsWhole needs that the file a    *)
(* run is about to publish is whole, which needs what it has found so far, *)
(* and that no other run writes to its file.                               *)
(***************************************************************************)
PipelineInv == World /\ Counters /\ Types /\ RunsOK /\ PublishedPageIsWhole

-----------------------------------------------------------------------------
\* The configuration a run has loaded.
LEMMA TheOnly == ASSUME NEW c PROVE (CHOOSE x \in {c} : TRUE) = c
OBVIOUS

\* What is written to an empty file, and what is added to a file.
LEMMA Written ==
    ASSUME NEW s, NEW t
    PROVE  {(UNION {{}}) \cup s} = {s} /\ {(UNION {s}) \cup t} = {s \cup t}
<1>1. UNION {s} = s /\ UNION {{}} = {}
  OBVIOUS
<1>2. {} \cup s = s
  OBVIOUS
<1> QED
  BY <1>1, <1>2

\* The two parts that an export writes make a whole page.
LEMMA PartsMakeAPage ==
    ASSUME NEW c \in Configs, NEW f \in Fleets, NEW g \in Fleets, NEW fs, fs = Exported(c, f, g)
    PROVE  GenericSeries(fs, c.chain) \cup DerivedSeries(fs, c.chain) \in WholePages
<1>1. RenderPrometheus(Exported(c, f, g), c.chain) \in WholePages
  BY DEF WholePages
<1> QED
  BY <1>1 DEF RenderPrometheus

(***************************************************************************)
(* A step of run r that leaves what the other runs have alone keeps RunsOK *)
(* if it does so for r.                                                    *)
(***************************************************************************)
LEMMA OneRun ==
    ASSUME RunsOK, NEW r \in Runs,
           \A q \in Runs : q # r => /\ pc'[q] = pc[q] /\ config'[q] = config[q]
                                    /\ findings'[q] = findings[q] /\ temp'[q] = temp[q],
           RunOK(pc'[r], config'[r], findings'[r], temp'[r])
    PROVE  RunsOK'
<1> SUFFICES ASSUME NEW q \in Runs PROVE RunOK(pc'[q], config'[q], findings'[q], temp'[q])
  BY DEF RunsOK
<1>1. CASE q = r
  BY <1>1
<1>2. CASE q # r
  BY <1>2 DEF RunsOK
<1> QED
  BY <1>1, <1>2

\* A run that is over.
LEMMA IdleRun ==
    ASSUME NEW fs PROVE RunOK("idle", {}, fs, {})
BY DEF RunOK, Optional, Steps, Knows

\* The end of a run, by failure or not.
LEMMA EndStep ==
    ASSUME Types, RunsOK, NEW r \in Runs, End(r), temp' = [temp EXCEPT ![r] = {}]
    PROVE  Types' /\ RunsOK'
<1>1. Types'
  BY DEF Types, End, Goto, Steps, Optional
<1>2. pc'[r] = "idle" /\ config'[r] = {} /\ temp'[r] = {}
  BY DEF Types, End, Goto
<1>3. RunOK(pc'[r], config'[r], findings'[r], temp'[r])
  BY <1>2, IdleRun
<1>4. \A q \in Runs : q # r => /\ pc'[q] = pc[q] /\ config'[q] = config[q]
                               /\ findings'[q] = findings[q] /\ temp'[q] = temp[q]
  BY DEF Types, End, Goto
<1> QED
  BY <1>1, <1>3, <1>4, OneRun

LEMMA FailStep ==
    ASSUME Types, RunsOK, NEW r \in Runs, Fail(r)
    PROVE  Types' /\ RunsOK' /\ output' = output /\ litter' = litter
BY EndStep DEF Fail, TempOf

LEMMA WriteFailsStep ==
    ASSUME Types, RunsOK, Counters, NEW r \in Runs, WriteFails(r), kills' = kills
    PROVE  Types' /\ RunsOK' /\ output' = output /\ Counters'
<1>1. Fail(r) /\ faults + kills < MaxFaults /\ faults' = faults + 1
  BY DEF WriteFails
<1>2. Types' /\ RunsOK' /\ output' = output /\ litter' = litter
  BY <1>1, FailStep
<1>3. Counters'
  BY <1>1, <1>2, BoundsAssumption DEF Counters
<1> QED
  BY <1>2, <1>3

-----------------------------------------------------------------------------
LEMMA StartStep ==
    ASSUME PipelineInv, NEW r \in Runs, Start(r)
    PROVE  Types' /\ RunsOK'
<1> USE DEF PipelineInv
<1>1. Types'
  BY DEF Types, Start, Goto, Steps, TempOf
<1>2. pc'[r] = "load" /\ config'[r] = config[r] /\ temp'[r] = {{}} /\ findings'[r] = findings[r]
  BY DEF Types, Start, Goto, TempOf
<1>3. config[r] \in Optional(Configs)
  BY DEF Types
<1>4. RunOK("load", config[r], findings[r], {{}})
  BY <1>3 DEF RunOK, Steps, Knows
<1>5. \A q \in Runs : q # r => /\ pc'[q] = pc[q] /\ config'[q] = config[q]
                               /\ findings'[q] = findings[q] /\ temp'[q] = temp[q]
  BY DEF Types, Start, Goto, TempOf
<1> QED
  BY <1>1, <1>2, <1>4, <1>5, OneRun

LEMMA LoadStep ==
    ASSUME PipelineInv, NEW r \in Runs, Load(r)
    PROVE  Types' /\ RunsOK' /\ output' = output /\ litter' = litter
<1> USE DEF PipelineInv
<1>1. CASE file = {}
  BY <1>1, FailStep DEF Load
<1>2. CASE file # {}
  <2>1. /\ pc[r] = "load" /\ config' = [config EXCEPT ![r] = file]
        /\ pc' = [pc EXCEPT ![r] = "execution"]
        /\ UNCHANGED <<findings, temp, output, litter>>
    BY <1>2 DEF Load, Goto
  <2>2. PICK c \in Configs : file = {c}
    BY <1>2 DEF World, Optional
  <2>3. Types'
    BY <2>1 DEF Types, Steps, World
  <2>4. pc'[r] = "execution" /\ config'[r] = {c} /\ temp'[r] = {{}} /\ findings'[r] = findings[r]
    BY <2>1, <2>2 DEF Types, RunsOK, RunOK
  <2>5. RunOK("execution", {c}, findings[r], {{}})
    BY DEF RunOK, Steps, Knows, Optional
  <2>6. \A q \in Runs : q # r => /\ pc'[q] = pc[q] /\ config'[q] = config[q]
                                 /\ findings'[q] = findings[q] /\ temp'[q] = temp[q]
    BY <2>1 DEF Types
  <2> QED
    BY <2>1, <2>3, <2>4, <2>5, <2>6, OneRun
<1> QED
  BY <1>1, <1>2

\* A run beyond load has a configuration.
LEMMA LoadedIs ==
    ASSUME PipelineInv, NEW r \in Runs, pc[r] \notin {"idle", "load"}
    PROVE  \E c \in Configs : /\ config[r] = {c} /\ Loaded(r) = c
                              /\ Knows(pc[r], c, findings[r], temp[r])
<1>1. PICK c \in Configs : config[r] = {c} /\ Knows(pc[r], c, findings[r], temp[r])
  BY DEF PipelineInv, RunsOK, RunOK
<1>2. Loaded(r) = c
  BY <1>1, TheOnly DEF Loaded
<1> QED
  BY <1>1, <1>2

LEMMA ExecutionStep ==
    ASSUME PipelineInv, NEW r \in Runs, CheckExecution(r)
    PROVE  Types' /\ RunsOK'
<1> USE DEF PipelineInv
<1>1. /\ pc[r] = "execution" /\ pc' = [pc EXCEPT ![r] = "proxyd"]
      /\ findings' = [findings EXCEPT ![r] = ConfigVerdict(Loaded(r))
                                             \cup ExecutionFindings(Loaded(r), fleet.candidate)]
      /\ UNCHANGED <<config, temp>>
  BY DEF CheckExecution, Goto
<1>2. PICK c \in Configs : config[r] = {c} /\ Loaded(r) = c
  BY <1>1, LoadedIs
<1>3. Types'
  BY <1>1 DEF Types, Steps
<1>4. /\ pc'[r] = "proxyd" /\ config'[r] = {c} /\ temp'[r] = {{}}
      /\ findings'[r] = ConfigVerdict(c) \cup ExecutionFindings(c, fleet.candidate)
  BY <1>1, <1>2 DEF Types, RunsOK, RunOK
<1>5. RunOK("proxyd", {c}, ConfigVerdict(c) \cup ExecutionFindings(c, fleet.candidate), {{}})
  <2>1. Knows("proxyd", c, ConfigVerdict(c) \cup ExecutionFindings(c, fleet.candidate), {{}})
    BY DEF Knows, World
  <2> QED
    BY <2>1 DEF RunOK, Steps, Optional
<1>6. \A q \in Runs : q # r => /\ pc'[q] = pc[q] /\ config'[q] = config[q]
                               /\ findings'[q] = findings[q] /\ temp'[q] = temp[q]
  BY <1>1 DEF Types
<1> QED
  BY <1>3, <1>4, <1>5, <1>6, OneRun

LEMMA ProxydStep ==
    ASSUME PipelineInv, NEW r \in Runs, CheckProxyd(r)
    PROVE  Types' /\ RunsOK'
<1> USE DEF PipelineInv
<1>1. /\ pc[r] = "proxyd" /\ pc' = [pc EXCEPT ![r] = "render"]
      /\ findings' = [findings EXCEPT ![r] = @ \cup ProxydFindings(Loaded(r), fleet.proxyd)]
      /\ UNCHANGED <<config, temp>>
  BY DEF CheckProxyd, Goto
<1>2. PICK c \in Configs : /\ config[r] = {c} /\ Loaded(r) = c
                           /\ Knows("proxyd", c, findings[r], temp[r])
  BY <1>1, LoadedIs
<1>3. PICK f \in Fleets : findings[r] = ConfigVerdict(c) \cup ExecutionFindings(c, f.candidate)
  BY <1>2 DEF Knows
<1>4. Types'
  BY <1>1 DEF Types, Steps
<1>5. /\ pc'[r] = "render" /\ config'[r] = {c} /\ temp'[r] = {{}}
      /\ findings'[r] = Exported(c, f, fleet)
  BY <1>1, <1>2, <1>3 DEF Types, RunsOK, RunOK, Exported
<1>6. RunOK("render", {c}, Exported(c, f, fleet), {{}})
  <2>1. Knows("render", c, Exported(c, f, fleet), {{}})
    BY DEF Knows, World
  <2> QED
    BY <2>1 DEF RunOK, Steps, Optional
<1>7. \A q \in Runs : q # r => /\ pc'[q] = pc[q] /\ config'[q] = config[q]
                               /\ findings'[q] = findings[q] /\ temp'[q] = temp[q]
  BY <1>1 DEF Types
<1> QED
  BY <1>4, <1>5, <1>6, <1>7, OneRun

LEMMA RenderStep ==
    ASSUME PipelineInv, NEW r \in Runs, Render(r), kills' = kills
    PROVE  Types' /\ RunsOK' /\ output' = output /\ Counters'
<1> USE DEF PipelineInv
<1>1. CASE WriteFails(r)
  BY <1>1, WriteFailsStep
<1>2. CASE ~WriteFails(r)
  <2> DEFINE part(c) == GenericSeries(findings[r], c.chain)
  <2>1. /\ pc[r] = "render" /\ pc' = [pc EXCEPT ![r] = "derive"]
        /\ Write(r, GenericSeries(findings[r], Loaded(r).chain))
        /\ UNCHANGED <<config, findings, output, faults, litter>>
    BY <1>2 DEF Render, Goto
  <2>2. PICK c \in Configs : /\ config[r] = {c} /\ Loaded(r) = c
                             /\ Knows("render", c, findings[r], temp[r])
    BY <2>1, LoadedIs
  <2>3. temp[r] = {{}}
    BY <2>1 DEF RunsOK, RunOK
  <2>4. temp' = [temp EXCEPT ![r] = {(UNION {{}}) \cup part(c)}]
    BY <2>1, <2>2, <2>3 DEF Write, TempOf
  <2>5. temp' = [temp EXCEPT ![r] = {part(c)}]
    BY <2>4, Written
  <2>6. Types'
    BY <2>1, <2>5 DEF Types, Steps
  <2>7. /\ pc'[r] = "derive" /\ config'[r] = {c} /\ temp'[r] = {part(c)}
        /\ findings'[r] = findings[r]
    BY <2>1, <2>2, <2>5 DEF Types
  <2>8. RunOK("derive", {c}, findings[r], {part(c)})
    <3>1. Knows("derive", c, findings[r], {part(c)})
      BY <2>2 DEF Knows
    <3> QED
      BY <3>1 DEF RunOK, Steps, Optional
  <2>9. \A q \in Runs : q # r => /\ pc'[q] = pc[q] /\ config'[q] = config[q]
                                 /\ findings'[q] = findings[q] /\ temp'[q] = temp[q]
    BY <2>1, <2>5 DEF Types
  <2>10. Counters'
    BY <2>1 DEF Counters
  <2> QED
    BY <2>1, <2>6, <2>7, <2>8, <2>9, <2>10, OneRun
<1> QED
  BY <1>1, <1>2

LEMMA DerivedStep ==
    ASSUME PipelineInv, NEW r \in Runs, RenderDerived(r), kills' = kills
    PROVE  Types' /\ RunsOK' /\ output' = output /\ Counters'
<1> USE DEF PipelineInv
<1>1. CASE WriteFails(r)
  BY <1>1, WriteFailsStep
<1>2. CASE ~WriteFails(r)
  <2> DEFINE first(c) == GenericSeries(findings[r], c.chain)
             second(c) == DerivedSeries(findings[r], c.chain)
  <2>1. /\ pc[r] = "derive" /\ pc' = [pc EXCEPT ![r] = "publish"]
        /\ Write(r, DerivedSeries(findings[r], Loaded(r).chain))
        /\ UNCHANGED <<config, findings, output, faults, litter>>
    BY <1>2 DEF RenderDerived, Goto
  <2>2. PICK c \in Configs : /\ config[r] = {c} /\ Loaded(r) = c
                             /\ Knows("derive", c, findings[r], temp[r])
    BY <2>1, LoadedIs
  <2>3. temp[r] = {first(c)} /\ \E f, g \in Fleets : findings[r] = Exported(c, f, g)
    BY <2>2 DEF Knows
  <2>4. temp' = [temp EXCEPT ![r] = {(UNION {first(c)}) \cup second(c)}]
    BY <2>1, <2>2, <2>3 DEF Write, TempOf
  <2>5. temp' = [temp EXCEPT ![r] = {first(c) \cup second(c)}]
    BY <2>4, Written
  <2>6. first(c) \cup second(c) \in WholePages
    BY <2>3, PartsMakeAPage
  <2>7. Types'
    BY <2>1, <2>5 DEF Types, Steps
  <2>8. /\ pc'[r] = "publish" /\ config'[r] = {c} /\ temp'[r] = {first(c) \cup second(c)}
        /\ findings'[r] = findings[r]
    BY <2>1, <2>2, <2>5 DEF Types
  <2>9. RunOK("publish", {c}, findings[r], {first(c) \cup second(c)})
    <3>1. Knows("publish", c, findings[r], {first(c) \cup second(c)})
      BY <2>6 DEF Knows
    <3> QED
      BY <3>1 DEF RunOK, Steps, Optional
  <2>10. \A q \in Runs : q # r => /\ pc'[q] = pc[q] /\ config'[q] = config[q]
                                  /\ findings'[q] = findings[q] /\ temp'[q] = temp[q]
    BY <2>1, <2>5 DEF Types
  <2>11. Counters'
    BY <2>1 DEF Counters
  <2> QED
    BY <2>1, <2>7, <2>8, <2>9, <2>10, <2>11, OneRun
<1> QED
  BY <1>1, <1>2

LEMMA PublishStep ==
    ASSUME PipelineInv, NEW r \in Runs, Publish(r), kills' = kills
    PROVE  Types' /\ RunsOK' /\ Counters' /\ PublishedPageIsWhole'
<1> USE DEF PipelineInv
<1>1. CASE WriteFails(r)
  BY <1>1, WriteFailsStep DEF PublishedPageIsWhole
<1>2. CASE ~WriteFails(r)
  <2>1. /\ pc[r] = "publish" /\ End(r) /\ temp' = [temp EXCEPT ![r] = {}]
        /\ output' = temp[r] /\ UNCHANGED <<faults, litter>>
    BY <1>2 DEF Publish, TempOf
  <2>2. PICK c \in Configs : Knows("publish", c, findings[r], temp[r])
    BY <2>1, LoadedIs
  <2>3. output' \in Optional(WholePages)
    BY <2>1, <2>2 DEF Knows, Optional
  <2>4. Counters'
    BY <2>1 DEF Counters
  <2> QED
    BY <2>1, <2>3, <2>4, EndStep DEF PublishedPageIsWhole
<1> QED
  BY <1>1, <1>2

LEMMA KillStep ==
    ASSUME PipelineInv, NEW r \in Runs, Kill(r)
    PROVE  PipelineInv'
<1> USE DEF PipelineInv
<1>1. /\ End(r) /\ temp' = [temp EXCEPT ![r] = {}]
      /\ faults + kills < MaxFaults /\ kills' = kills + 1 /\ litter' \in {litter, litter + 1}
      /\ UNCHANGED <<scenario, fleet, file, rules, output, faults>>
  BY DEF Kill, TempOf
<1>2. Types' /\ RunsOK'
  BY <1>1, EndStep
<1>3. Counters'
  BY <1>1, BoundsAssumption DEF Counters
<1>4. World' /\ PublishedPageIsWhole'
  BY <1>1 DEF World, PublishedPageIsWhole
<1> QED
  BY <1>2, <1>3, <1>4

(***************************************************************************)
(* A step of the script.                                                   *)
(***************************************************************************)
LEMMA ScriptStep ==
    ASSUME PipelineInv, NEW r \in Runs, Script(r)
    PROVE  PipelineInv'
<1> USE DEF PipelineInv
<1>1. UNCHANGED <<scenario, fleet, file, rules, held, kills>>
  BY DEF Script, Start, Load, CheckExecution, CheckProxyd, Render, RenderDerived, Publish, Unattended
<1>2. World'
  BY <1>1 DEF World
<1>3. CASE Start(r)
  <2>1. UNCHANGED <<output, faults, litter>>
    BY <1>3 DEF Start
  <2>2. Counters' /\ PublishedPageIsWhole'
    BY <1>1, <2>1 DEF Counters, PublishedPageIsWhole
  <2> QED
    BY <1>2, <1>3, <2>2, StartStep
<1>4. CASE Load(r)
  <2>1. UNCHANGED faults
    BY <1>4 DEF Load
  <2>2. Types' /\ RunsOK' /\ output' = output /\ litter' = litter
    BY <1>4, LoadStep
  <2>3. Counters' /\ PublishedPageIsWhole'
    BY <1>1, <2>1, <2>2 DEF Counters, PublishedPageIsWhole
  <2> QED
    BY <1>2, <2>2, <2>3
<1>5. CASE CheckExecution(r)
  <2>1. UNCHANGED <<output, faults, litter>>
    BY <1>5 DEF CheckExecution
  <2>2. Counters' /\ PublishedPageIsWhole'
    BY <1>1, <2>1 DEF Counters, PublishedPageIsWhole
  <2> QED
    BY <1>2, <1>5, <2>2, ExecutionStep
<1>6. CASE CheckProxyd(r)
  <2>1. UNCHANGED <<output, faults, litter>>
    BY <1>6 DEF CheckProxyd
  <2>2. Counters' /\ PublishedPageIsWhole'
    BY <1>1, <2>1 DEF Counters, PublishedPageIsWhole
  <2> QED
    BY <1>2, <1>6, <2>2, ProxydStep
<1>7. CASE Render(r)
  BY <1>1, <1>2, <1>7, RenderStep DEF PublishedPageIsWhole
<1>8. CASE RenderDerived(r)
  BY <1>1, <1>2, <1>8, DerivedStep DEF PublishedPageIsWhole
<1>9. CASE Publish(r)
  BY <1>1, <1>2, <1>9, PublishStep
<1> QED
  BY <1>3, <1>4, <1>5, <1>6, <1>7, <1>8, <1>9 DEF Script

LEMMA InitOK == Init => PipelineInv
<1> SUFFICES ASSUME Init PROVE PipelineInv
  OBVIOUS
<1>1. World
  BY DataAssumption DEF Init, World, Optional
<1>2. Counters
  BY BoundsAssumption DEF Init, Counters
<1>3. Types
  BY DEF Init, Types, Steps, Optional
<1>4. \A r \in Runs : pc[r] = "idle" /\ config[r] = {} /\ temp[r] = {}
  BY DEF Init
<1>5. RunsOK
  BY <1>4, IdleRun DEF RunsOK
<1>6. PublishedPageIsWhole
  BY DEF Init, PublishedPageIsWhole, Optional
<1> QED
  BY <1>1, <1>2, <1>3, <1>5, <1>6 DEF PipelineInv

\* What the fleet, the operator and Prometheus do leaves the script alone.
LEMMA OutsideStep ==
    ASSUME PipelineInv, FleetMoves \/ EditConfig \/ GenerateAlerts \/ Evaluate
    PROVE  PipelineInv'
<1> USE DEF PipelineInv
<1>1. UNCHANGED <<scenario, pc, config, findings, temp, output, faults, kills, litter>>
  BY DEF FleetMoves, EditConfig, GenerateAlerts, Evaluate, run
<1>2. scenario[2] \subseteq Optional(Configs) /\ scenario[3] \subseteq Fleets
  BY DataAssumption DEF World
<1>3. World'
  <2>1. CASE FleetMoves
    BY <1>2, <2>1 DEF World, FleetMoves
  <2>2. CASE EditConfig
    BY <1>2, <2>2 DEF World, EditConfig
  <2>3. CASE GenerateAlerts
    BY <2>3 DEF World, GenerateAlerts
  <2>4. CASE Evaluate
    BY <2>4 DEF World, Evaluate
  <2> QED
    BY <2>1, <2>2, <2>3, <2>4
<1>4. Types' /\ Counters' /\ PublishedPageIsWhole'
  BY <1>1 DEF Types, Counters, PublishedPageIsWhole
<1>5. RunsOK'
  BY <1>1 DEF RunsOK
<1> QED
  BY <1>3, <1>4, <1>5

LEMMA NextOK == PipelineInv /\ [Next]_vars => PipelineInv'
<1> SUFFICES ASSUME PipelineInv, [Next]_vars PROVE PipelineInv'
  OBVIOUS
<1>1. CASE \E r \in Runs : Script(r) \/ Kill(r)
  BY <1>1, ScriptStep, KillStep
<1>2. CASE FleetMoves \/ EditConfig \/ GenerateAlerts \/ Evaluate
  BY <1>2, OutsideStep
<1>3. CASE UNCHANGED vars
  BY <1>3 DEF vars, run, PipelineInv, World, Counters, Types, RunsOK, PublishedPageIsWhole
<1> QED
  BY <1>1, <1>2, <1>3 DEF Next

LEMMA PipelineInvariant == Spec => []PipelineInv
  BY InitOK, NextOK, PTL DEF Spec

LEMMA Consequences == PipelineInv => TypeOK /\ OnlyKillsLitter
<1> SUFFICES ASSUME PipelineInv PROVE TypeOK /\ OnlyKillsLitter
  OBVIOUS
<1> USE DEF PipelineInv
<1>1. \A r \in Runs : pc[r] \notin {"idle", "load"} => config[r] # {}
  BY DEF RunsOK, RunOK
<1>2. \A r \in Runs : pc[r] = "idle" => temp[r] = {}
  BY DEF RunsOK, RunOK
<1> QED
  BY <1>1, <1>2 DEF World, Counters, Types, TypeOK, OnlyKillsLitter

-----------------------------------------------------------------------------
(***************************************************************************)
(* The state of the deployment keeps its type, for every number of runs,   *)
(* configuration, state of the fleet and number of faults.                 *)
(***************************************************************************)
THEOREM DeploymentTypeCorrect == Spec => []TypeOK
  BY PipelineInvariant, Consequences, PTL

(***************************************************************************)
(* node-exporter never serves part of a page, or a mixture of two: the     *)
(* temporary file of a run is its own, is moved only when it is whole, and *)
(* every failure or kill leaves OUTPUT_FILE alone.                         *)
(***************************************************************************)
THEOREM NoTornPage == Spec => []PublishedPageIsWhole
  BY PipelineInvariant, PTL DEF PipelineInv

(***************************************************************************)
(* A run that is not killed leaves no temporary file behind.               *)
(***************************************************************************)
THEOREM NoLitterWithoutKills == Spec => []OnlyKillsLitter
  BY PipelineInvariant, Consequences, PTL
=============================================================================
