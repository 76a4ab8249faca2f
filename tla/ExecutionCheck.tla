--------------------------- MODULE ExecutionCheck ---------------------------
(***************************************************************************)
(* checkExecution of internal/checks/checks.go: the comparison of a        *)
(* candidate execution endpoint with the trusted reference endpoint that   *)
(* decides whether an op-geth to op-reth migration looks ready.            *)
(*                                                                         *)
(* The check is sequential, but every one of its JSON-RPC reads is served  *)
(* by a node that keeps importing blocks, can reorganise and can fail, so  *)
(* no two reads see the same instant.  Two parties take steps:             *)
(*                                                                         *)
(*   - the nodes: Advance, Reorg, and Expire (the deadline of main.go,     *)
(*     after which every call fails without reaching an endpoint);         *)
(*   - the doctor: one action per JSON-RPC call.  The instant of the       *)
(*     action is the instant the call is served (or fails); the code up to *)
(*     the next call reads nothing the nodes can change, so it belongs to  *)
(*     the same action.                                                    *)
(***************************************************************************)
EXTENDS Report, RPCCall

CONSTANTS
    Branches,     \* the histories a node can be on
    MaxHead,      \* bound on block heights
    Word,         \* number of values of a uint64
    FieldValues,  \* the values of block fields, up to the case of their hex digits
    Absent,       \* a field that an endpoint leaves out of its reply
    Value,        \* Value[b][n][f]: field f of block n on branch b
    TxCount,      \* TxCount[b][n]: number of transactions of that block
    Configs,      \* the configurations, after ApplyDefaults
    Deployments,  \* the pairs of nodes the endpoints may belong to
    MaxReorgs     \* bound on reorgs during the run

VARIABLES
    config,       \* the execution section and the chain ID of the config
    deployment,   \* per endpoint: client family, chain ID, omitted fields
    head,         \* per endpoint: height of the node's latest block
    branch,       \* per endpoint: history the node is on
    reorgs,       \* reorgs since the start of the run
    phase,        \* the JSON-RPC call the doctor makes next
    at,           \* the endpoint it makes it to
    status,       \* per endpoint: executionEndpointStatus
    i,            \* loop variable of compareExecutionBlocks
    compared,     \* blocks (then RPC methods) compared so far
    missing,      \* heights of compared blocks that lacked a field
    heldBlock,    \* the block read from the reference and not yet compared
    heldCount,    \* likewise for a transaction count
    findings      \* the findings emitted so far

world  == <<config, deployment, head, branch, expired, reorgs>>
loop   == <<i, compared, missing>>
held   == <<heldBlock, heldCount>>
doctor == <<phase, at, status, loop, held, findings>>
vars   == <<world, faults, doctor>>

Endpoints == {"reference", "candidate"}
Heights   == 0 .. MaxHead

RequiredFields == {"hash", "parentHash", "stateRoot", "transactionsRoot"}
OptionalFields == {"receiptsRoot"}
Fields         == RequiredFields \cup OptionalFields

NoBlock  == [f \in Fields |-> Absent]
Contents == [Fields -> FieldValues]              \* what a block is
Blocks   == [Fields -> FieldValues \cup {Absent}]  \* what an endpoint says it is

ConfigType ==
    [chainId : Nat, maxLag : Nat, compareBlocks : Int, urls : SUBSET Endpoints]

NodeType ==
    [family : {"reth", "op-geth", "other"}, chainId : Nat, omits : SUBSET Fields]

ASSUME BoundsAssumption ==
    /\ MaxHead \in Nat
    /\ Word \in Nat /\ MaxHead < Word
    /\ MaxFaults \in Nat
    /\ MaxReorgs \in Nat

ASSUME DataAssumption ==
    /\ Absent \notin FieldValues
    /\ Value \in [Branches -> [Heights -> Contents]]
    /\ TxCount \in [Branches -> [Heights -> Nat]]
    /\ Configs \subseteq ConfigType
    /\ Deployments \subseteq [Endpoints -> NodeType]

Phases == {"start", "version", "chainId", "head", "block", "txCount",
           "surfaceBlock", "byHash", "done"}

-----------------------------------------------------------------------------
(* Findings *)

Target == [reference |-> "execution.reference_rpc", candidate |-> "execution.candidate_rpc"]
Fetch  == [reference |-> "fetch_reference", candidate |-> "fetch_candidate"]

ProbeFinding(e, name, severity) ==
    Finding(<<"execution", e, name>>, severity, Target[e], NoSample)

ClientFamilyUngraded(e, family) ==
    ProbeFinding(e, "client_family",
        CASE family = "reth"    -> IF e = "candidate" THEN "ok" ELSE "info"
          [] family = "op-geth" -> IF e = "candidate" THEN "fail" ELSE "warn"
          [] OTHER              -> "")

\* classifyClientFinding: op-reth on the candidate is the aim, op-geth is not.
ClientFamily(e, family) ==
    ProbeFinding(e, "client_family",
        CASE family = "reth"    -> IF e = "candidate" THEN "ok" ELSE "info"
          [] family = "op-geth" -> IF e = "candidate" THEN "fail" ELSE "warn"
          [] OTHER              -> "info")

ChainIDFinding(e, chainId) ==
    ProbeFinding(e, "chain_id",
        IF config.chainId # 0 /\ chainId # config.chainId THEN "fail" ELSE "ok")

FetchWarning(group, e, method, arg) ==
    Finding(<<"execution", group, Fetch[e]>>, "warn", Target[e], <<method, arg>>)

FetchFailure(group, e, method, arg) ==
    Finding(<<"execution", group, Fetch[e]>>, "fail", Target[e], <<method, arg>>)

GroupFinding(group, name, severity, sample) ==
    Finding(<<"execution", group, name>>, severity, "execution", sample)

HeadLagFinding(lag) ==
    IF lag > config.maxLag
    THEN Finding(<<"execution", "head_lag">>, "fail", "execution.candidate_rpc",
                 <<"lag_blocks", lag>>)
    ELSE Finding(<<"execution", "head_lag">>, "ok", "execution", <<"lag_blocks", lag>>)

Emit(fs) == findings' = findings \cup fs

-----------------------------------------------------------------------------
(* The nodes *)

\* The reply of endpoint e for the block with content v.
Reply(e, v) == [f \in Fields |-> IF f \in deployment[e].omits THEN Absent ELSE v[f]]

BlockOf(e, n) == Reply(e, Value[branch[e]][n])

Advance(e) ==
    /\ head[e] < MaxHead
    /\ head' = [head EXCEPT ![e] = @ + 1]
    /\ UNCHANGED <<config, deployment, branch, expired, reorgs, faults, doctor>>

\* The node moves to another history, whose tip may be lower than its own was.
Reorg(e) ==
    /\ reorgs < MaxReorgs
    /\ reorgs' = reorgs + 1
    /\ \E b \in Branches \ {branch[e]} : branch' = [branch EXCEPT ![e] = b]
    /\ \E n \in Heights : head' = [head EXCEPT ![e] = n]
    /\ UNCHANGED <<config, deployment, expired, faults, doctor>>

Expire ==
    /\ ~expired
    /\ expired' = TRUE
    /\ UNCHANGED <<config, deployment, head, branch, reorgs, faults, doctor>>

\* A node that does not have block n answers null, which Call turns into an error.
Serves(e, n)     == Answered /\ n <= head[e]
FetchFails(e, n) == Failed \/ (~expired /\ n > head[e] /\ UNCHANGED faults)

-----------------------------------------------------------------------------
(* Probing the two endpoints *)

CandidateProbedFirst == <<"candidate", "reference">>

ProbeOrder == <<"reference", "candidate">>

HighestHead(st) ==
    IF st["candidate"].head < st["reference"].head
    THEN st["reference"].head ELSE st["candidate"].head

LatestCommonHead(st) ==
    IF st["candidate"].head < st["reference"].head
    THEN st["candidate"].head ELSE st["reference"].head

HeadLag(st) ==
    IF st["reference"].head > st["candidate"].head
    THEN st["reference"].head - st["candidate"].head ELSE 0

WindowUncapped(st) ==
    IF config.compareBlocks <= 0 THEN 16 ELSE config.compareBlocks

WindowWithoutGenesis(st) ==
    LET depth == IF config.compareBlocks <= 0 THEN 16 ELSE config.compareBlocks
    IN IF depth > LatestCommonHead(st) THEN LatestCommonHead(st) ELSE depth

\* How many blocks to compare: at most what exists, in uint64 arithmetic.
Window(st) ==
    LET depth == IF config.compareBlocks <= 0 THEN 16 ELSE config.compareBlocks
        limit == (LatestCommonHead(st) + 1) % Word
    IN IF depth > limit THEN limit ELSE depth

CommonHead == LatestCommonHead(status)

\* The probe of endpoint at is over, with findings fs and statuses st.
EndProbe(fs, st) ==
    /\ status' = st
    /\ UNCHANGED <<loop, held>>
    /\ IF at = ProbeOrder[1]
       THEN phase' = "version" /\ at' = ProbeOrder[2] /\ Emit(fs)
       ELSE /\ at' = "reference"
            /\ IF st["reference"].headOK /\ st["candidate"].headOK
               THEN /\ Emit(fs \cup {HeadLagFinding(HeadLag(st))})
                    /\ phase' = IF Window(st) > 0 THEN "block" ELSE "txCount"
               ELSE Emit(fs) /\ phase' = "done"

Start ==
    /\ phase = "start"
    /\ IF config.urls = Endpoints
       THEN phase' = "version" /\ at' = ProbeOrder[1] /\ UNCHANGED findings
       ELSE /\ phase' = "done" /\ UNCHANGED at
            /\ Emit({Finding(<<"execution", "skipped">>, "warn", "execution", NoSample)})
    /\ UNCHANGED <<world, faults, status, loop, held>>

ClientVersion ==
    /\ phase = "version"
    /\ \/ /\ Answered
          /\ Emit({ProbeFinding(at, "reachable", "ok"),
                   ClientFamily(at, deployment[at].family)})
          /\ phase' = "chainId"
          /\ UNCHANGED <<at, status, loop, held>>
       \/ /\ Failed
          /\ EndProbe({ProbeFinding(at, "reachable", "fail")}, status)
    /\ UNCHANGED world

ChainID ==
    /\ phase = "chainId"
    /\ \/ Answered /\ Emit({ChainIDFinding(at, deployment[at].chainId)})
       \/ Failed /\ Emit({ProbeFinding(at, "chain_id", "fail")})
    /\ phase' = "head"
    /\ UNCHANGED <<world, at, status, loop, held>>

BlockNumber ==
    /\ phase = "head"
    /\ \/ /\ Answered
          /\ EndProbe({ProbeFinding(at, "head", "ok")},
                      [status EXCEPT ![at] = [headOK |-> TRUE, head |-> head[at]]])
       \/ /\ Failed
          /\ EndProbe({ProbeFinding(at, "head", "fail")}, status)
    /\ UNCHANGED world

-----------------------------------------------------------------------------
(* compareExecutionBlocks *)

\* CompareBlockFields: the fields that differ, and those one side left out.
MissingFields(ref, cand) ==
    {f \in Fields : /\ ref[f] = Absent \/ cand[f] = Absent
                    /\ ~(f \in OptionalFields /\ ref[f] = Absent /\ cand[f] = Absent)}

DifferingRequiredFields(ref, cand) ==
    {f \in RequiredFields : ref[f] # Absent /\ cand[f] # Absent /\ ref[f] # cand[f]}

DifferingOrMissingFields(ref, cand) == {f \in Fields : ref[f] # cand[f]}

DifferingFields(ref, cand) ==
    {f \in Fields : ref[f] # Absent /\ cand[f] # Absent /\ ref[f] # cand[f]}

\* What compareExecutionBlocks reports after its loop, given all findings so far.
BlockVerdict(fs, c, m) ==
    When(m # {}, GroupFinding("block_compare", "missing_fields", "warn", NoSample))
    \cup
    When(c > 0 /\ ~HasFailFinding(fs, <<"execution", "block_compare", "divergence">>),
         GroupFinding("block_compare", "match", "ok", <<"compared_blocks", c>>))

RetrySkippedBlock(fs, c, m) ==
    /\ at' = "reference" /\ heldBlock' = NoBlock
    /\ IF i + 1 < Window(status) \/ c = compared
       THEN /\ i' = IF c = compared THEN i ELSE i + 1
            /\ compared' = c /\ missing' = m
            /\ Emit(fs) /\ UNCHANGED phase
       ELSE /\ i' = 0 /\ compared' = 0 /\ missing' = {}
            /\ Emit(fs \cup BlockVerdict(findings \cup fs, c, m))
            /\ phase' = "txCount"

\* The iteration for block CommonHead - i is over: loop, or leave the function.
NextBlock(fs, c, m) ==
    /\ at' = "reference" /\ heldBlock' = NoBlock
    /\ IF i + 1 < Window(status)
       THEN /\ i' = i + 1 /\ compared' = c /\ missing' = m
            /\ Emit(fs) /\ UNCHANGED phase
       ELSE /\ i' = 0 /\ compared' = 0 /\ missing' = {}
            /\ Emit(fs \cup BlockVerdict(findings \cup fs, c, m))
            /\ phase' = "txCount"

ReferenceBlock ==
    /\ phase = "block" /\ at = "reference"
    /\ LET n == CommonHead - i IN
       \/ /\ Serves("reference", n)
          /\ heldBlock' = BlockOf("reference", n) /\ at' = "candidate"
          /\ UNCHANGED <<phase, loop, findings>>
       \/ /\ FetchFails("reference", n)
          /\ NextBlock({FetchFailure("block_compare", "reference",
                                     "eth_getBlockByNumber", n)}, compared, missing)
    /\ UNCHANGED <<world, status, heldCount>>

CandidateBlock ==
    /\ phase = "block" /\ at = "candidate"
    /\ LET n    == CommonHead - i
           cand == BlockOf("candidate", n)
       IN
       \/ /\ Serves("candidate", n)
          /\ NextBlock(
                When(DifferingFields(heldBlock, cand) # {},
                     GroupFinding("block_compare", "divergence", "fail",
                                  <<"block_number", n>>)),
                compared + 1,
                missing \cup {m \in {n} : MissingFields(heldBlock, cand) # {}})
       \/ /\ FetchFails("candidate", n)
          /\ NextBlock({FetchFailure("block_compare", "candidate",
                                     "eth_getBlockByNumber", n)}, compared, missing)
    /\ UNCHANGED <<world, status, heldCount>>

-----------------------------------------------------------------------------
(* compareExecutionRPCSurface *)

SurfaceFailed(fs) ==
    \E f \in fs : f.id[1] = "execution" /\ f.id[2] = "rpc_surface" /\ f.severity = "fail"

\* The last read of the function is over.
EndSurface(fs, c) ==
    /\ phase' = "done" /\ at' = "reference"
    /\ heldBlock' = NoBlock /\ compared' = 0
    /\ Emit(fs \cup
            When(c > 0 /\ ~SurfaceFailed(findings \cup fs),
                 GroupFinding("rpc_surface", "match", "ok", <<"compared_methods", c>>)))

ReferenceTxCount ==
    /\ phase = "txCount" /\ at = "reference"
    /\ \/ /\ Serves("reference", CommonHead)
          /\ heldCount' = TxCount[branch["reference"]][CommonHead] /\ at' = "candidate"
          /\ UNCHANGED <<phase, findings>>
       \/ /\ FetchFails("reference", CommonHead)
          /\ Emit({FetchFailure("rpc_surface", "reference",
                                "eth_getBlockTransactionCountByNumber", CommonHead)})
          /\ phase' = "surfaceBlock" /\ UNCHANGED <<at, heldCount>>
    /\ UNCHANGED <<world, status, loop, heldBlock>>

CandidateTxCount ==
    /\ phase = "txCount" /\ at = "candidate"
    /\ \/ /\ Serves("candidate", CommonHead)
          /\ compared' = compared + 1
          /\ Emit(When(heldCount # TxCount[branch["candidate"]][CommonHead],
                       GroupFinding("rpc_surface", "transaction_count_mismatch", "fail",
                                    <<"block_number", CommonHead>>)))
       \/ /\ FetchFails("candidate", CommonHead)
          /\ Emit({FetchFailure("rpc_surface", "candidate",
                                "eth_getBlockTransactionCountByNumber", CommonHead)})
          /\ UNCHANGED compared
    /\ phase' = "surfaceBlock" /\ at' = "reference" /\ heldCount' = 0
    /\ UNCHANGED <<world, status, i, missing, heldBlock>>

SurfaceBlock ==
    /\ phase = "surfaceBlock"
    /\ LET block == BlockOf("reference", CommonHead) IN
       \/ /\ Serves("reference", CommonHead) /\ block["hash"] # Absent
          /\ heldBlock' = block /\ phase' = "byHash"
          /\ UNCHANGED <<at, compared, findings>>
       \/ /\ Serves("reference", CommonHead) /\ block["hash"] = Absent
          /\ EndSurface({Finding(<<"execution", "rpc_surface", "block_hash_missing">>, "warn",
                                 Target["reference"], <<"block_number", CommonHead>>)}, compared)
       \/ /\ FetchFails("reference", CommonHead)
          /\ EndSurface({FetchFailure("rpc_surface", "reference",
                                      "eth_getBlockByNumber", CommonHead)}, compared)
    /\ UNCHANGED <<world, status, i, missing, heldCount>>

\* The contents a node may return for a hash: the block of its own history, or
\* a block of another one that it has kept.
WithHash(hash) ==
    {v \in {Value[b][n] : b \in Branches, n \in Heights} : v["hash"] = hash}

CanonicalWithHash(e, hash) ==
    {v \in {Value[branch[e]][n] : n \in 0 .. head[e]} : v["hash"] = hash}

ServesHash(e, hash, v) ==
    /\ Answered
    /\ v \in IF CanonicalWithHash(e, hash) # {}
             THEN CanonicalWithHash(e, hash) ELSE WithHash(hash)

HashFetchFails(e, hash) ==
    Failed \/ (~expired /\ CanonicalWithHash(e, hash) = {} /\ UNCHANGED faults)

\* A block served for a hash carries that hash, so heldBlock keeps it.
ReferenceByHash ==
    /\ phase = "byHash" /\ at = "reference"
    /\ \/ /\ \E v \in WithHash(heldBlock["hash"]) :
                /\ ServesHash("reference", heldBlock["hash"], v)
                /\ heldBlock' = Reply("reference", v)
          /\ at' = "candidate"
          /\ UNCHANGED <<phase, compared, findings>>
       \/ /\ HashFetchFails("reference", heldBlock["hash"])
          /\ EndSurface({FetchFailure("rpc_surface", "reference",
                                      "eth_getBlockByHash", CommonHead)}, compared)
    /\ UNCHANGED <<world, status, i, missing, heldCount>>

CandidateByHash ==
    /\ phase = "byHash" /\ at = "candidate"
    /\ \/ \E v \in WithHash(heldBlock["hash"]) :
             LET cand == Reply("candidate", v) IN
             /\ ServesHash("candidate", heldBlock["hash"], v)
             /\ EndSurface(
                   When(MissingFields(heldBlock, cand) # {},
                        GroupFinding("rpc_surface", "block_by_hash_missing_fields", "warn",
                                     <<"block_number", CommonHead>>))
                   \cup
                   When(DifferingFields(heldBlock, cand) # {},
                        GroupFinding("rpc_surface", "block_by_hash_mismatch", "fail",
                                     <<"block_number", CommonHead>>)),
                   compared + 1)
       \/ /\ HashFetchFails("candidate", heldBlock["hash"])
          /\ EndSurface({FetchFailure("rpc_surface", "candidate",
                                      "eth_getBlockByHash", CommonHead)}, compared)
    /\ UNCHANGED <<world, status, i, missing, heldCount>>

-----------------------------------------------------------------------------
Init ==
    /\ config \in Configs
    /\ deployment \in Deployments
    /\ head \in [Endpoints -> Heights]
    /\ branch \in [Endpoints -> Branches]
    /\ expired = FALSE /\ faults = 0 /\ reorgs = 0
    /\ phase = "start" /\ at = "reference"
    /\ status = [e \in Endpoints |-> [headOK |-> FALSE, head |-> 0]]
    /\ i = 0 /\ compared = 0 /\ missing = {}
    /\ heldBlock = NoBlock /\ heldCount = 0
    /\ findings = {}

Nodes == Expire \/ \E e \in Endpoints : Advance(e) \/ Reorg(e)

Doctor ==
    \/ Start \/ ClientVersion \/ ChainID \/ BlockNumber
    \/ ReferenceBlock \/ CandidateBlock
    \/ ReferenceTxCount \/ CandidateTxCount
    \/ SurfaceBlock \/ ReferenceByHash \/ CandidateByHash

Next == Nodes \/ Doctor

Spec == Init /\ [][Next]_vars

(***************************************************************************)
(* The doctor is one goroutine and every call returns: the http client     *)
(* gives up after its timeout and the context after its deadline.  Nothing *)
(* is assumed of the nodes.                                                *)
(***************************************************************************)
FairSpec == Spec /\ WF_vars(Doctor)
-----------------------------------------------------------------------------
(* Properties *)

TypeOK ==
    /\ config \in Configs /\ deployment \in Deployments
    /\ head \in [Endpoints -> Heights] /\ branch \in [Endpoints -> Branches]
    /\ expired \in BOOLEAN /\ faults \in 0 .. MaxFaults /\ reorgs \in 0 .. MaxReorgs
    /\ phase \in Phases /\ at \in Endpoints
    /\ status \in [Endpoints -> [headOK : BOOLEAN, head : Heights]]
    /\ i \in Heights /\ compared \in Nat /\ missing \subseteq Heights
    /\ heldBlock \in Blocks /\ heldCount \in Nat
    /\ IsFiniteSet(findings) /\ \A f \in findings : f.severity \in Severities

(***************************************************************************)
(* The loop over the latest common blocks stays within the chain: the      *)
(* number it computes, CommonHead - i on unsigned integers, does not wrap  *)
(* below the genesis block, whatever compare_blocks is configured.         *)
(***************************************************************************)
LoopInBounds == phase = "block" => i <= CommonHead

(***************************************************************************)
(* No false lag alarm.  When the candidate is reported to lag              *)
(* (execution.head_lag, fail), it is more than max_head_lag_blocks behind  *)
(* at that very moment, although the two heads are read at different       *)
(* times: the reference's is read first, so it can only be too low by then.*)
(***************************************************************************)
LagAlarmIsReal ==
    [][\A f \in findings' \ findings :
          f.id = <<"execution", "head_lag">> /\ f.severity = "fail" /\ reorgs = 0
            => head["reference"] - head["candidate"] > config.maxLag]_vars

\* What both nodes say of block n is the same.
Agree(n) ==
    \A f \in Fields : LET r == BlockOf("reference", n)[f] c == BlockOf("candidate", n)[f]
                      IN r = Absent \/ c = Absent \/ r = c

SameBlock(n) == Value[branch["reference"]][n] = Value[branch["candidate"]][n]

SameTxCount(n) == TxCount[branch["reference"]][n] = TxCount[branch["candidate"]][n]

\* The blocks that compare_blocks asks for: the latest common ones.
RequestedDepth == IF config.compareBlocks <= 0 THEN 16 ELSE config.compareBlocks
NewestBlocks   == {n \in 0 .. CommonHead : CommonHead - n < RequestedDepth}

(***************************************************************************)
(* A divergence or a transaction count mismatch is reported of block n     *)
(* only if, without reorgs, the two nodes really hold different blocks n:  *)
(* never because of a field one of them left out, nor because the reads    *)
(* were made at different times or the block kept from the reference was   *)
(* that of another iteration.                                              *)
(***************************************************************************)
DivergenceIsReal ==
    reorgs = 0 => \A f \in findings :
        /\ f.id = <<"execution", "block_compare", "divergence">> => ~Agree(f.sample[2])
        /\ f.id = <<"execution", "rpc_surface", "transaction_count_mismatch">>
             => ~SameTxCount(f.sample[2])

(***************************************************************************)
(* The migration gate is sound.  If a run with both endpoints configured   *)
(* ends with exit code 0 under --fail-on fail, then, without reorgs, every *)
(* one of the latest common blocks that compare_blocks asks for agrees in  *)
(* all fields both nodes report, the transaction counts of the newest one  *)
(* agree, both nodes are on the configured chain and the candidate is not  *)
(* op-geth: no failed, skipped or misplaced read is taken for a match.     *)
(***************************************************************************)
GateSound ==
    /\ phase = "done" /\ config.urls = Endpoints /\ reorgs = 0
    /\ ExitCode(findings, "fail") = 0
    => /\ \A n \in NewestBlocks : Agree(n)
       /\ SameTxCount(CommonHead)
       /\ config.chainId # 0 =>
            \A e \in Endpoints : deployment[e].chainId = config.chainId
       /\ deployment["candidate"].family # "op-geth"

(***************************************************************************)
(* A healthy pair passes.  If no call failed, the deadline has not passed, *)
(* no node reorganised and the nodes hold the same blocks, then the only   *)
(* failures are a client family or chain ID that is wrong and a lag: the   *)
(* doctor never asks a node for a block that it does not have yet.         *)
(***************************************************************************)
HealthyPairPasses ==
    /\ faults = 0 /\ ~expired /\ reorgs = 0
    /\ \A n \in {m \in Heights : \A e \in Endpoints : m <= head[e]} :
          SameBlock(n) /\ SameTxCount(n)
    => \A f \in findings : f.severity = "fail" =>
          \/ f.id = <<"execution", "head_lag">>
          \/ f.id = <<"execution", "candidate", "client_family">>
          \/ \E e \in Endpoints : /\ f.id = <<"execution", e, "chain_id">>
                                  /\ deployment[e].chainId # config.chainId

(***************************************************************************)
(* The check ends whatever the endpoints do: a failed fetch moves on to    *)
(* the next block, and every call of a run past its deadline fails.        *)
(***************************************************************************)
Termination == <>(phase = "done")

(***************************************************************************)
(* A deadline that passes while calls remain never leaves the gate open:   *)
(* what was not read is reported as a failure.                             *)
(***************************************************************************)
DeadlineClosesGate ==
    (expired /\ phase # "done" /\ config.urls = Endpoints)
        ~> ExitCode(findings, "fail") = 1

(***************************************************************************)
(* No two lines of the export are samples of the same series:              *)
(* opstack_doctor_finding is documented as the presence of a finding by    *)
(* id, target and severity, and the export as scrapeable.                  *)
(***************************************************************************)
SeriesAreUnique ==
    \A f, g \in findings : FindingSeries(f) = FindingSeries(g) => f = g
=============================================================================
