------------------------ MODULE ExecutionCheckProofs ------------------------
(***************************************************************************)
(* Proofs about ExecutionCheck, for every number of blocks, every set of   *)
(* branches and contents, every configuration and deployment, and every    *)
(* number of faults and reorgs.                                            *)
(***************************************************************************)
EXTENDS ExecutionCheck, ReportProofs

StatusType == [Endpoints -> [headOK : BOOLEAN, head : Heights]]

LEMMA Modulus ==
    ASSUME NEW a \in Nat, NEW w \in Nat, a < w
    PROVE  a % w = a
BY SMT

LEMMA CommonHeadType ==
    ASSUME NEW st \in StatusType
    PROVE  /\ LatestCommonHead(st) \in Heights
           /\ \A e \in Endpoints : LatestCommonHead(st) <= st[e].head
BY BoundsAssumption DEF LatestCommonHead, StatusType, Heights, Endpoints

(***************************************************************************)
(* The comparison window never reaches below the genesis block.            *)
(***************************************************************************)
LEMMA WindowType ==
    ASSUME NEW st \in StatusType, config \in ConfigType
    PROVE  Window(st) \in Nat /\ Window(st) <= LatestCommonHead(st) + 1
<1> DEFINE c == LatestCommonHead(st)
<1>1. c \in Nat /\ c + 1 <= Word
  BY CommonHeadType, BoundsAssumption DEF Heights
<1>2. (c + 1) % Word \in Nat /\ (c + 1) % Word <= c + 1
  <2>1. CASE c + 1 < Word
    BY <1>1, <2>1, Modulus, BoundsAssumption
  <2>2. CASE c + 1 = Word
    BY <1>1, <2>2, BoundsAssumption, SMT
  <2> QED
    BY <1>1, <2>1, <2>2, BoundsAssumption
<1> HIDE DEF c
<1>3. config.compareBlocks \in Int
  BY DEF ConfigType
<1> QED
  BY <1>1, <1>2, <1>3 DEF Window, c

-----------------------------------------------------------------------------
(* Type correctness *)

LEMMA EmitGraded ==
    ASSUME NEW fs, Graded(fs), Graded(findings), Emit(fs)
    PROVE  Graded(findings')
BY FS_Union DEF Graded, Emit

LEMMA WhenGraded ==
    ASSUME NEW cond \in BOOLEAN, NEW f, f.severity \in Severities
    PROVE  Graded(When(cond, f))
BY FS_EmptySet, FS_Singleton DEF Graded, When

LEMMA FindingsGraded ==
    /\ \A e, n, s : ProbeFinding(e, n, s).severity = s
    /\ \A g, e, m, n : FetchFailure(g, e, m, n).severity = "fail"
    /\ \A g, n, s, x : GroupFinding(g, n, s, x).severity = s
    /\ \A id, s, t, x : Finding(id, s, t, x).severity = s
BY DEF ProbeFinding, FetchFailure, GroupFinding, Finding

LEMMA BlockVerdictGraded ==
    ASSUME NEW fs, NEW c \in Nat, NEW m \in SUBSET Heights
    PROVE  Graded(BlockVerdict(fs, c, m))
<1>1. \A n, s, x : s \in Severities => GroupFinding("block_compare", n, s, x).severity \in Severities
  BY FindingsGraded
<1>2. ASSUME NEW x \in BOOLEAN
      PROVE  Graded(When(x, GroupFinding("block_compare", "missing_fields", "warn", NoSample)))
  BY <1>1, WhenGraded DEF Severities
<1>3. ASSUME NEW x \in BOOLEAN
      PROVE  Graded(When(x, GroupFinding("block_compare", "match", "ok", <<"compared_blocks", c>>)))
  BY <1>1, WhenGraded DEF Severities
<1> QED
  BY <1>2, <1>3, GradedUnion DEF BlockVerdict

\* The part of TypeOK that the doctor's steps disturb.
DoctorTypeOK ==
    /\ phase \in Phases /\ at \in Endpoints
    /\ status \in StatusType
    /\ i \in Heights /\ compared \in Nat /\ missing \subseteq Heights
    /\ heldBlock \in Blocks /\ heldCount \in Nat
    /\ Graded(findings)

WorldTypeOK ==
    /\ config \in Configs /\ deployment \in Deployments
    /\ head \in [Endpoints -> Heights] /\ branch \in [Endpoints -> Branches]
    /\ expired \in BOOLEAN /\ reorgs \in 0 .. MaxReorgs

LEMMA TypeOKParts ==
    TypeOK <=> WorldTypeOK /\ faults \in 0 .. MaxFaults /\ DoctorTypeOK
BY DEF TypeOK, WorldTypeOK, DoctorTypeOK, Graded, StatusType

LEMMA TypeOKPartsNext ==
    TypeOK' <=> WorldTypeOK' /\ (faults \in 0 .. MaxFaults)' /\ DoctorTypeOK'
BY DEF TypeOK, WorldTypeOK, DoctorTypeOK, Graded, StatusType

LEMMA ConfigTyped ==
    ASSUME WorldTypeOK
    PROVE  config \in ConfigType /\ deployment \in [Endpoints -> NodeType]
BY DataAssumption DEF WorldTypeOK

LEMMA WorldUnchanged ==
    ASSUME WorldTypeOK, UNCHANGED world
    PROVE  WorldTypeOK'
BY DEF WorldTypeOK, world

LEMMA CallTyped ==
    ASSUME faults \in 0 .. MaxFaults, Answered \/ Failed \/ UNCHANGED faults
    PROVE  faults' \in 0 .. MaxFaults
BY BoundsAssumption DEF Answered, Failed

LEMMA ReplyTyped ==
    ASSUME WorldTypeOK, NEW e \in Endpoints, NEW v \in Contents
    PROVE  Reply(e, v) \in Blocks
BY DEF Reply, Blocks, Contents

LEMMA BlockTyped ==
    ASSUME WorldTypeOK, NEW e \in Endpoints, NEW n \in Heights
    PROVE  BlockOf(e, n) \in Blocks /\ TxCount[branch[e]][n] \in Nat
<1>1. Value[branch[e]][n] \in Contents
  BY DataAssumption DEF WorldTypeOK
<1> QED
  BY <1>1, ReplyTyped, DataAssumption DEF BlockOf, WorldTypeOK

LEMMA EmitTyped ==
    ASSUME DoctorTypeOK, NEW fs, Graded(fs), Emit(fs)
    PROVE  Graded(findings')
BY EmitGraded DEF DoctorTypeOK

LEMMA ProbeTyped ==
    ASSUME NEW e, NEW n, NEW s \in Severities
    PROVE  ProbeFinding(e, n, s).severity \in Severities
BY FindingsGraded

LEMMA HeadLagTyped ==
    ASSUME NEW lag
    PROVE  HeadLagFinding(lag).severity \in {"ok", "fail"}
BY FindingsGraded DEF HeadLagFinding

LEMMA EndProbeTyped ==
    ASSUME DoctorTypeOK, NEW fs, Graded(fs), NEW st \in StatusType, EndProbe(fs, st)
    PROVE  DoctorTypeOK'
<1>1. Graded(fs \cup {HeadLagFinding(HeadLag(st))})
  <2>1. HeadLagFinding(HeadLag(st)).severity \in Severities
    BY HeadLagTyped DEF Severities
  <2>2. Graded({HeadLagFinding(HeadLag(st))})
    BY <2>1, SingletonGraded
  <2> QED
    BY <2>2, GradedUnion
<1>2. Graded(findings')
  BY <1>1, EmitTyped DEF EndProbe
<1>3. phase' \in Phases /\ at' \in Endpoints /\ status' \in StatusType
  BY DEF EndProbe, Phases, Endpoints, ProbeOrder
<1> QED
  BY <1>2, <1>3 DEF DoctorTypeOK, EndProbe, loop, held

LEMMA NextBlockTyped ==
    ASSUME WorldTypeOK, DoctorTypeOK, NEW fs, Graded(fs), NEW c \in Nat, NEW m \in SUBSET Heights,
           phase = "block", NextBlock(fs, c, m), UNCHANGED <<status, heldCount>>
    PROVE  DoctorTypeOK'
<1>1. Graded(findings')
  BY BlockVerdictGraded, GradedUnion, EmitTyped DEF NextBlock
<1>2. i' \in Heights
  <2>1. Window(status) <= LatestCommonHead(status) + 1 /\ Window(status) \in Nat
    BY WindowType, ConfigTyped DEF DoctorTypeOK
  <2>2. LatestCommonHead(status) \in Heights
    BY CommonHeadType DEF DoctorTypeOK
  <2> QED
    BY <2>1, <2>2, BoundsAssumption DEF NextBlock, DoctorTypeOK, Heights
<1>3. heldBlock' \in Blocks
  BY DEF NextBlock, NoBlock, Blocks
<1>4. phase' \in Phases /\ at' \in Endpoints
  BY DEF NextBlock, Phases, Endpoints
<1>5. compared' \in Nat /\ missing' \subseteq Heights
  <2>1. CASE i + 1 < Window(status)
    BY <2>1 DEF NextBlock
  <2>2. CASE ~(i + 1 < Window(status))
    BY <2>2 DEF NextBlock
  <2> QED
    BY <2>1, <2>2
<1> QED
  BY <1>1, <1>2, <1>3, <1>4, <1>5 DEF DoctorTypeOK

LEMMA EndSurfaceTyped ==
    ASSUME DoctorTypeOK, NEW fs, Graded(fs), NEW c \in Nat, EndSurface(fs, c),
           UNCHANGED <<status, i, missing, heldCount>>
    PROVE  DoctorTypeOK'
<1>1. ASSUME NEW x \in BOOLEAN
      PROVE  Graded(When(x, GroupFinding("rpc_surface", "match", "ok", <<"compared_methods", c>>)))
  BY FindingsGraded, WhenGraded DEF Severities
<1>2. Graded(findings')
  BY <1>1, GradedUnion, EmitTyped DEF EndSurface
<1>3. heldBlock' \in Blocks
  BY DEF EndSurface, NoBlock, Blocks
<1> QED
  BY <1>2, <1>3 DEF DoctorTypeOK, EndSurface, Phases, Endpoints

LEMMA InitTypeOK == Init => TypeOK
<1> SUFFICES ASSUME Init PROVE TypeOK
  OBVIOUS
<1>1. WorldTypeOK
  <2>1. expired \in BOOLEAN
    BY DEF Init
  <2> QED
    BY <2>1, BoundsAssumption DEF Init, WorldTypeOK
<1>2. faults \in 0 .. MaxFaults
  BY BoundsAssumption DEF Init
<1>3. Graded(findings)
  BY FS_EmptySet DEF Init, Graded
<1>4. heldBlock \in Blocks
  BY DEF Init, NoBlock, Blocks
<1>5. status \in StatusType
  BY BoundsAssumption DEF Init, StatusType, Heights
<1> QED
  BY <1>1, <1>2, <1>3, <1>4, <1>5, BoundsAssumption, TypeOKParts
  DEF DoctorTypeOK, Init, Phases, Endpoints, Heights

LEMMA NodesTypeOK ==
    ASSUME TypeOK, Nodes
    PROVE  TypeOK'
<1>1. DoctorTypeOK' /\ faults' \in 0 .. MaxFaults
  <2>1. UNCHANGED <<faults, doctor>>
    BY DEF Nodes, Expire, Advance, Reorg
  <2> QED
    BY <2>1, TypeOKParts DEF DoctorTypeOK, doctor, loop, held
<1>2. WorldTypeOK'
  <2>0. WorldTypeOK
    BY TypeOKParts
  <2>1. CASE Expire
    <3>1. expired' \in BOOLEAN
      BY <2>1 DEF Expire
    <3> QED
      BY <2>0, <2>1, <3>1 DEF Expire, WorldTypeOK
  <2>2. ASSUME NEW e \in Endpoints, Advance(e)
        PROVE  WorldTypeOK'
    <3>1. head' \in [Endpoints -> Heights]
      BY <2>0, <2>2, BoundsAssumption DEF Advance, WorldTypeOK, Heights
    <3> QED
      BY <2>0, <2>2, <3>1 DEF Advance, WorldTypeOK
  <2>3. ASSUME NEW e \in Endpoints, Reorg(e)
        PROVE  WorldTypeOK'
    BY <2>0, <2>3, BoundsAssumption DEF Reorg, WorldTypeOK
  <2> QED
    BY <2>1, <2>2, <2>3 DEF Nodes
<1> QED
  BY <1>1, <1>2, TypeOKPartsNext

LEMMA DoctorKeepsWorld ==
    ASSUME TypeOK, Doctor
    PROVE  UNCHANGED world /\ WorldTypeOK' /\ faults' \in 0 .. MaxFaults
<1>1. UNCHANGED world
  BY DEF Doctor, Start, ClientVersion, ChainID, BlockNumber, ReferenceBlock, CandidateBlock,
         ReferenceTxCount, CandidateTxCount, SurfaceBlock, ReferenceByHash, CandidateByHash
<1>2. Answered \/ Failed \/ UNCHANGED faults
  BY DEF Doctor, Start, ClientVersion, ChainID, BlockNumber, ReferenceBlock, CandidateBlock,
         ReferenceTxCount, CandidateTxCount, SurfaceBlock, ReferenceByHash, CandidateByHash,
         Serves, FetchFails, ServesHash, HashFetchFails
<1> QED
  BY <1>1, <1>2, TypeOKParts, WorldUnchanged, CallTyped

LEMMA ProbingTypeOK ==
    ASSUME TypeOK, Start \/ ClientVersion \/ ChainID \/ BlockNumber
    PROVE  DoctorTypeOK'
<1>0. WorldTypeOK /\ DoctorTypeOK
  BY TypeOKParts
<1>1. CASE Start
  <2>1. CASE config.urls = Endpoints
    BY <1>0, <1>1, <2>1 DEF Start, DoctorTypeOK, Phases, Endpoints, ProbeOrder, loop, held
  <2>2. CASE config.urls # Endpoints
    <3>1. Graded({Finding(<<"execution", "skipped">>, "warn", "execution", NoSample)})
      BY FindingsGraded, SingletonGraded DEF Severities
    <3>2. Graded(findings')
      BY <1>0, <1>1, <2>2, <3>1, EmitTyped DEF Start
    <3> QED
      BY <1>0, <1>1, <2>2, <3>2 DEF Start, DoctorTypeOK, Phases, loop, held
  <2> QED
    BY <2>1, <2>2
<1>2. CASE ClientVersion
  <2>1. CASE /\ Emit({ProbeFinding(at, "reachable", "ok"), ClientFamily(at, deployment[at].family)})
             /\ phase' = "chainId"
             /\ UNCHANGED <<at, status, loop, held>>
    <3>1. ClientFamily(at, deployment[at].family).severity \in Severities
      BY FindingsGraded DEF ClientFamily, Severities
    <3>a. Graded({ProbeFinding(at, "reachable", "ok")})
      BY FindingsGraded, SingletonGraded DEF Severities
    <3>b. Graded({ClientFamily(at, deployment[at].family)})
      BY <3>1, SingletonGraded
    <3>2. Graded({ProbeFinding(at, "reachable", "ok")} \cup {ClientFamily(at, deployment[at].family)})
      BY <3>a, <3>b, GradedUnion
    <3>3. Emit({ProbeFinding(at, "reachable", "ok")} \cup {ClientFamily(at, deployment[at].family)})
      BY <2>1 DEF Emit
    <3>4. Graded(findings')
      BY <1>0, <3>2, <3>3, EmitTyped
    <3> QED
      BY <1>0, <2>1, <3>4 DEF DoctorTypeOK, Phases, loop, held
  <2>2. CASE EndProbe({ProbeFinding(at, "reachable", "fail")}, status)
    <3>1. Graded({ProbeFinding(at, "reachable", "fail")})
      BY FindingsGraded, SingletonGraded DEF Severities
    <3> QED
      BY <1>0, <2>2, <3>1, EndProbeTyped DEF DoctorTypeOK
  <2> QED
    BY <1>2, <2>1, <2>2 DEF ClientVersion
<1>3. CASE ChainID
  <2>1. Graded({ChainIDFinding(at, deployment[at].chainId)}) /\ Graded({ProbeFinding(at, "chain_id", "fail")})
    BY FindingsGraded, SingletonGraded DEF ChainIDFinding, Severities
  <2>2. Graded(findings')
    BY <1>0, <1>3, <2>1, EmitTyped DEF ChainID
  <2> QED
    BY <1>0, <1>3, <2>2 DEF ChainID, DoctorTypeOK, Phases, loop, held
<1>4. CASE BlockNumber
  <2>1. Graded({ProbeFinding(at, "head", "ok")}) /\ Graded({ProbeFinding(at, "head", "fail")})
    BY FindingsGraded, SingletonGraded DEF Severities
  <2>2. [status EXCEPT ![at] = [headOK |-> TRUE, head |-> head[at]]] \in StatusType
    BY <1>0 DEF DoctorTypeOK, WorldTypeOK, StatusType
  <2> QED
    BY <1>0, <1>4, <2>1, <2>2, EndProbeTyped DEF BlockNumber, DoctorTypeOK
<1> QED
  BY <1>1, <1>2, <1>3, <1>4

LEMMA FetchFailureGraded ==
    ASSUME NEW group, NEW e, NEW m, NEW n
    PROVE  Graded({FetchFailure(group, e, m, n)})
BY FindingsGraded, SingletonGraded DEF Severities

LEMMA WhenGroupGraded ==
    ASSUME NEW cond \in BOOLEAN, NEW group, NEW n, NEW s \in Severities, NEW x
    PROVE  Graded(When(cond, GroupFinding(group, n, s, x)))
<1>1. GroupFinding(group, n, s, x).severity \in Severities
  BY FindingsGraded
<1> QED
  BY <1>1, WhenGraded

\* TypeOK alone is not inductive: the block asked for must exist, and the loop
\* must start at the common head.
TypeInv ==
    /\ TypeOK
    /\ LoopInBounds
    /\ phase # "block" => i = 0

LEMMA RequestedHeight ==
    ASSUME TypeInv, phase = "block"
    PROVE  CommonHead - i \in Heights
<1>1. CommonHead \in Heights /\ i \in Heights
  BY CommonHeadType, TypeOKParts DEF CommonHead, TypeInv, DoctorTypeOK
<1> QED
  BY <1>1, BoundsAssumption DEF TypeInv, LoopInBounds, Heights

LEMMA BlockStepsTypeOK ==
    ASSUME TypeInv, ReferenceBlock \/ CandidateBlock
    PROVE  DoctorTypeOK'
<1> DEFINE n == CommonHead - i
<1>0. WorldTypeOK /\ DoctorTypeOK
  BY TypeOKParts DEF TypeInv
<1>1. phase = "block" /\ n \in Heights
  BY RequestedHeight DEF ReferenceBlock, CandidateBlock
<1>3. CASE ReferenceBlock
  <2>1. CASE /\ heldBlock' = BlockOf("reference", n) /\ at' = "candidate"
             /\ UNCHANGED <<phase, loop, findings>>
    <3>1. heldBlock' \in Blocks
      BY <1>0, <1>1, <2>1, BlockTyped DEF Endpoints
    <3> QED
      BY <1>0, <1>3, <2>1, <3>1 DEF ReferenceBlock, DoctorTypeOK, Endpoints, loop, Graded
  <2>2. CASE NextBlock({FetchFailure("block_compare", "reference",
                                     "eth_getBlockByNumber", n)}, compared, missing)
    BY <1>0, <1>1, <1>3, <2>2, FetchFailureGraded, NextBlockTyped DEF ReferenceBlock, DoctorTypeOK
  <2> QED
    BY <1>3, <2>1, <2>2 DEF ReferenceBlock
<1>4. CASE CandidateBlock
  <2> DEFINE cand == BlockOf("candidate", n)
             lacks == missing \cup {m \in {n} : MissingFields(heldBlock, cand) # {}}
             found == When(DifferingFields(heldBlock, cand) # {},
                           GroupFinding("block_compare", "divergence", "fail",
                                        <<"block_number", n>>))
  <2>1. CASE NextBlock(found, compared + 1, lacks)
    <3>1. Graded(found)
      BY WhenGroupGraded DEF Severities
    <3>2. lacks \in SUBSET Heights /\ compared + 1 \in Nat
      BY <1>0, <1>1 DEF DoctorTypeOK
    <3> HIDE DEF found, lacks
    <3> QED
      BY <1>0, <1>1, <1>4, <2>1, <3>1, <3>2, NextBlockTyped DEF CandidateBlock
  <2>2. CASE NextBlock({FetchFailure("block_compare", "candidate",
                                     "eth_getBlockByNumber", n)}, compared, missing)
    BY <1>0, <1>1, <1>4, <2>2, FetchFailureGraded, NextBlockTyped DEF CandidateBlock, DoctorTypeOK
  <2> QED
    BY <1>4, <2>1, <2>2 DEF CandidateBlock
<1> QED
  BY <1>3, <1>4

LEMMA CommonHeight ==
    ASSUME TypeOK
    PROVE  CommonHead \in Heights
BY CommonHeadType, TypeOKParts DEF CommonHead, DoctorTypeOK

LEMMA TxCountStepsTypeOK ==
    ASSUME TypeInv, ReferenceTxCount \/ CandidateTxCount
    PROVE  DoctorTypeOK'
<1>0. WorldTypeOK /\ DoctorTypeOK /\ CommonHead \in Heights
  BY TypeOKParts, CommonHeight DEF TypeInv
<1>1. CASE ReferenceTxCount
  <2>1. TxCount[branch["reference"]][CommonHead] \in Nat
    BY <1>0, BlockTyped DEF Endpoints
  <2>2. Graded(findings')
    BY <1>0, <1>1, FetchFailureGraded, EmitTyped DEF ReferenceTxCount, DoctorTypeOK
  <2> QED
    BY <1>0, <1>1, <2>1, <2>2 DEF ReferenceTxCount, DoctorTypeOK, Phases, Endpoints, loop
<1>2. CASE CandidateTxCount
  <2>1. \A x \in BOOLEAN : Graded(When(x, GroupFinding("rpc_surface", "transaction_count_mismatch",
                                                      "fail", <<"block_number", CommonHead>>)))
    BY WhenGroupGraded DEF Severities
  <2>2. Graded(findings')
    BY <1>0, <1>2, <2>1, FetchFailureGraded, EmitTyped DEF CandidateTxCount
  <2>3. compared' \in Nat
    BY <1>0, <1>2 DEF CandidateTxCount, DoctorTypeOK
  <2> QED
    BY <1>0, <1>2, <2>2, <2>3 DEF CandidateTxCount, DoctorTypeOK, Phases, Endpoints
<1> QED
  BY <1>1, <1>2

LEMMA HashContents ==
    ASSUME NEW hash, NEW v \in WithHash(hash)
    PROVE  v \in Contents
BY DataAssumption DEF WithHash

LEMMA SurfaceStepsTypeOK ==
    ASSUME TypeInv, SurfaceBlock \/ ReferenceByHash \/ CandidateByHash
    PROVE  DoctorTypeOK'
<1>0. WorldTypeOK /\ DoctorTypeOK /\ CommonHead \in Heights /\ compared \in Nat
  BY TypeOKParts, CommonHeight DEF TypeInv, DoctorTypeOK
<1>1. CASE SurfaceBlock
  <2> DEFINE block == BlockOf("reference", CommonHead)
             nohash == Finding(<<"execution", "rpc_surface", "block_hash_missing">>, "warn",
                               Target["reference"], <<"block_number", CommonHead>>)
  <2>1. CASE heldBlock' = block /\ phase' = "byHash" /\ UNCHANGED <<at, compared, findings>>
    <3>1. heldBlock' \in Blocks
      BY <1>0, <2>1, BlockTyped DEF Endpoints
    <3> QED
      BY <1>0, <1>1, <2>1, <3>1 DEF SurfaceBlock, DoctorTypeOK, Phases, Graded
  <2>2. CASE EndSurface({nohash}, compared)
    <3>1. Graded({nohash})
      BY FindingsGraded, SingletonGraded DEF Severities
    <3> HIDE DEF nohash
    <3> QED
      BY <1>0, <1>1, <2>2, <3>1, EndSurfaceTyped DEF SurfaceBlock
  <2>3. CASE EndSurface({FetchFailure("rpc_surface", "reference",
                                      "eth_getBlockByNumber", CommonHead)}, compared)
    BY <1>0, <1>1, <2>3, FetchFailureGraded, EndSurfaceTyped DEF SurfaceBlock
  <2> QED
    BY <1>1, <2>1, <2>2, <2>3 DEF SurfaceBlock
<1>2. CASE ReferenceByHash
  <2>1. ASSUME NEW v \in WithHash(heldBlock["hash"]), heldBlock' = Reply("reference", v),
               at' = "candidate", UNCHANGED <<phase, compared, findings>>
        PROVE  DoctorTypeOK'
    <3>1. heldBlock' \in Blocks
      BY <1>0, <2>1, HashContents, ReplyTyped DEF Endpoints
    <3> QED
      BY <1>0, <1>2, <2>1, <3>1 DEF ReferenceByHash, DoctorTypeOK, Endpoints, Graded
  <2>2. CASE EndSurface({FetchFailure("rpc_surface", "reference",
                                      "eth_getBlockByHash", CommonHead)}, compared)
    BY <1>0, <1>2, <2>2, FetchFailureGraded, EndSurfaceTyped DEF ReferenceByHash
  <2> QED
    BY <1>2, <2>1, <2>2 DEF ReferenceByHash
<1>3. CASE CandidateByHash
  <2> DEFINE lacks(v) == When(MissingFields(heldBlock, Reply("candidate", v)) # {},
                              GroupFinding("rpc_surface", "block_by_hash_missing_fields", "warn",
                                           <<"block_number", CommonHead>>))
             differs(v) == When(DifferingFields(heldBlock, Reply("candidate", v)) # {},
                                GroupFinding("rpc_surface", "block_by_hash_mismatch", "fail",
                                             <<"block_number", CommonHead>>))
  <2>1. ASSUME NEW v, EndSurface(lacks(v) \cup differs(v), compared + 1)
        PROVE  DoctorTypeOK'
    <3>1. Graded(lacks(v)) /\ Graded(differs(v))
      BY WhenGroupGraded DEF Severities
    <3>2. compared + 1 \in Nat
      BY <1>0
    <3> HIDE DEF lacks, differs
    <3> QED
      BY <1>0, <1>3, <2>1, <3>1, <3>2, GradedUnion, EndSurfaceTyped DEF CandidateByHash
  <2>2. CASE EndSurface({FetchFailure("rpc_surface", "candidate",
                                      "eth_getBlockByHash", CommonHead)}, compared)
    BY <1>0, <1>3, <2>2, FetchFailureGraded, EndSurfaceTyped DEF CandidateByHash
  <2> QED
    BY <1>3, <2>1, <2>2 DEF CandidateByHash
<1> QED
  BY <1>1, <1>2, <1>3

LEMMA DoctorTypeStep ==
    ASSUME TypeInv, Doctor
    PROVE  TypeOK'
<1>1. DoctorTypeOK'
  BY ProbingTypeOK, BlockStepsTypeOK, TxCountStepsTypeOK, SurfaceStepsTypeOK DEF Doctor, TypeInv
<1> QED
  BY <1>1, DoctorKeepsWorld, TypeOKPartsNext DEF TypeInv

LEMMA WorldConfig == ASSUME UNCHANGED world
                     PROVE  UNCHANGED <<config, deployment, head, branch, expired, reorgs>>
BY DEF world

LEMMA LoopStep ==
    ASSUME TypeInv, Doctor
    PROVE  LoopInBounds' /\ (phase # "block" => i = 0)'
<1>0. WorldTypeOK /\ DoctorTypeOK /\ UNCHANGED config
  BY TypeOKParts, DoctorKeepsWorld DEF TypeInv, world
<1>1. CASE phase' = "block" /\ phase # "block"
  <2>1. i = 0 /\ UNCHANGED i
    BY <1>1 DEF TypeInv, Doctor, Start, ClientVersion, ChainID, BlockNumber, ReferenceBlock,
          CandidateBlock, ReferenceTxCount, CandidateTxCount, SurfaceBlock, ReferenceByHash,
          CandidateByHash, EndProbe, EndSurface, loop
  <2>2. DoctorTypeOK'
    BY DoctorTypeStep, TypeOKPartsNext
  <2>3. CommonHead' \in Heights
    BY <2>2, CommonHeadType DEF DoctorTypeOK, CommonHead
  <2> QED
    BY <1>1, <2>1, <2>3, BoundsAssumption DEF LoopInBounds, Heights
<1>2. CASE phase = "block"
  <2>1. UNCHANGED status /\ UNCHANGED CommonHead
    BY <1>2 DEF Doctor, Start, ClientVersion, ChainID, BlockNumber, ReferenceBlock,
          CandidateBlock, ReferenceTxCount, CandidateTxCount, SurfaceBlock, ReferenceByHash,
          CandidateByHash, CommonHead
  <2>2. \/ UNCHANGED <<phase, i>>
        \/ phase' = "txCount" /\ i' = 0
        \/ phase' = "block" /\ i' = i + 1 /\ i + 1 < Window(status)
    <3>1. CASE ReferenceBlock
      BY <3>1 DEF ReferenceBlock, NextBlock, loop
    <3>2. CASE CandidateBlock
      BY <3>2 DEF CandidateBlock, NextBlock
    <3> QED
      BY <1>2, <3>1, <3>2 DEF Doctor, Start, ClientVersion, ChainID, BlockNumber,
          ReferenceTxCount, CandidateTxCount, SurfaceBlock, ReferenceByHash, CandidateByHash
  <2>3. Window(status) <= CommonHead + 1 /\ Window(status) \in Nat
    BY <1>0, WindowType, ConfigTyped DEF DoctorTypeOK, CommonHead
  <2>4. CommonHead \in Nat /\ i \in Nat
    BY <1>0, CommonHeight, BoundsAssumption DEF TypeInv, DoctorTypeOK, Heights
  <2> QED
    BY <1>2, <2>1, <2>2, <2>3, <2>4 DEF LoopInBounds, TypeInv
<1>3. CASE phase' # "block" /\ phase # "block"
  BY <1>3 DEF TypeInv, LoopInBounds, Doctor, Start, ClientVersion, ChainID, BlockNumber,
          ReferenceBlock, CandidateBlock, ReferenceTxCount, CandidateTxCount, SurfaceBlock,
          ReferenceByHash, CandidateByHash, EndProbe, EndSurface, loop
<1> QED
  BY <1>1, <1>2, <1>3

LEMMA TypeInvStep == TypeInv /\ [Next]_vars => TypeInv'
<1> SUFFICES ASSUME TypeInv, [Next]_vars
             PROVE  TypeInv'
  OBVIOUS
<1>1. CASE Nodes
  <2>1. TypeOK'
    BY <1>1, NodesTypeOK DEF TypeInv
  <2>2. UNCHANGED <<phase, i, status>>
    BY <1>1 DEF Nodes, Expire, Advance, Reorg, doctor, loop
  <2> QED
    BY <2>1, <2>2 DEF TypeInv, LoopInBounds, CommonHead
<1>2. CASE Doctor
  BY <1>2, DoctorTypeStep, LoopStep DEF TypeInv
<1>3. CASE UNCHANGED vars
  BY <1>3 DEF TypeInv, TypeOK, LoopInBounds, CommonHead, vars, world, doctor, loop, held
<1> QED
  BY <1>1, <1>2, <1>3 DEF Next

LEMMA TypeInvInit == Init => TypeInv
<1> SUFFICES ASSUME Init PROVE TypeInv
  OBVIOUS
<1>1. i = 0 /\ phase # "block"
  BY DEF Init
<1> QED
  BY <1>1, InitTypeOK DEF TypeInv, LoopInBounds

(***************************************************************************)
(* Every variable keeps its type: in particular a block that the doctor    *)
(* holds is always one that an endpoint served.                            *)
(***************************************************************************)
THEOREM TypeCorrect == Spec => []TypeOK
<1>1. TypeInv => TypeOK
  BY DEF TypeInv
<1> QED
  BY <1>1, TypeInvInit, TypeInvStep, PTL DEF Spec

(***************************************************************************)
(* The block number CommonHead - i never wraps below genesis, whatever     *)
(* compare_blocks is and wherever the two heads are.                       *)
(***************************************************************************)
THEOREM LoopStaysInBounds == Spec => []LoopInBounds
<1>1. TypeInv => LoopInBounds
  BY DEF TypeInv
<1> QED
  BY <1>1, TypeInvInit, TypeInvStep, PTL DEF Spec

-----------------------------------------------------------------------------
(* No false lag alarm *)

(***************************************************************************)
(* What makes the alarm real: until a reorg, a head that was read is a     *)
(* lower bound of the node's head for ever after, and the candidate's head *)
(* is not read before the last call of its own probe.                      *)
(***************************************************************************)
HeadsInv ==
    /\ reorgs = 0 => \A e \in Endpoints : status[e].headOK => status[e].head <= head[e]
    /\ phase \in {"start", "version", "chainId", "head"} => ~status["candidate"].headOK

LagInv == TypeInv /\ HeadsInv

HeadLagId == <<"execution", "head_lag">>

LEMMA HeadLagIdUnique ==
    /\ \A e \in Endpoints : \A n, s : ProbeFinding(e, n, s).id # HeadLagId
    /\ \A g \in {"block_compare", "rpc_surface"} : \A e, m, n : FetchFailure(g, e, m, n).id # HeadLagId
    /\ \A g \in {"block_compare", "rpc_surface"} : \A n, s, x : GroupFinding(g, n, s, x).id # HeadLagId
    /\ \A s, t, x : Finding(<<"execution", "skipped">>, s, t, x).id # HeadLagId
    /\ \A n, s, t, x : Finding(<<"execution", "rpc_surface", n>>, s, t, x).id # HeadLagId
BY DEF ProbeFinding, FetchFailure, GroupFinding, Finding, HeadLagId, Endpoints

NoLagFinding(fs) == \A f \in fs : f.id # HeadLagId

\* Only the end of the candidate's probe can report a lag.
LEMMA LagReported ==
    ASSUME TypeInv, Doctor
    PROVE  \/ NoLagFinding(findings' \ findings)
           \/ \E st \in StatusType :
                 /\ at = "candidate" /\ status' = st
                 /\ st["reference"].headOK /\ st["candidate"].headOK
                 /\ \/ phase = "version" /\ st = status
                    \/ /\ phase = "head"
                       /\ \/ st = status
                          \/ st = [status EXCEPT ![at] = [headOK |-> TRUE, head |-> head[at]]]
                 /\ NoLagFinding((findings' \ findings) \ {HeadLagFinding(HeadLag(st))})
<1>0. DoctorTypeOK /\ WorldTypeOK
  BY TypeOKParts DEF TypeInv
<1>1. ASSUME NEW n, NEW s, NEW st \in StatusType, EndProbe({ProbeFinding(at, n, s)}, st)
      PROVE  \/ NoLagFinding(findings' \ findings)
             \/ /\ at = "candidate" /\ status' = st
                /\ st["reference"].headOK /\ st["candidate"].headOK
                /\ NoLagFinding((findings' \ findings) \ {HeadLagFinding(HeadLag(st))})
  <2>1. at \in Endpoints /\ ProbeFinding(at, n, s).id # HeadLagId
    BY <1>0, HeadLagIdUnique DEF DoctorTypeOK
  <2> QED
    BY <1>1, <2>1 DEF EndProbe, Emit, NoLagFinding, ProbeOrder, Endpoints
<1>2. CASE ClientVersion
  <2>1. at \in Endpoints /\ status \in StatusType
    BY <1>0 DEF DoctorTypeOK
  <2>2. CASE Emit({ProbeFinding(at, "reachable", "ok"), ClientFamily(at, deployment[at].family)})
    BY <2>1, <2>2, HeadLagIdUnique DEF Emit, NoLagFinding, ClientFamily
  <2>3. CASE EndProbe({ProbeFinding(at, "reachable", "fail")}, status)
    BY <1>1, <1>2, <2>1, <2>3 DEF ClientVersion
  <2> QED
    BY <1>2, <2>2, <2>3 DEF ClientVersion
<1>3. CASE BlockNumber
  <2>1. status \in StatusType /\ [status EXCEPT ![at] = [headOK |-> TRUE, head |-> head[at]]] \in StatusType
    BY <1>0 DEF DoctorTypeOK, WorldTypeOK, StatusType
  <2> QED
    BY <1>1, <1>3, <2>1 DEF BlockNumber
<1>4. CASE Start \/ ChainID
  BY <1>0, <1>4, HeadLagIdUnique DEF Start, ChainID, Emit, NoLagFinding, ChainIDFinding, DoctorTypeOK
<1>5. CASE ReferenceBlock \/ CandidateBlock
  <2>1. ASSUME NEW fs, NEW c, NEW m, NoLagFinding(fs), NextBlock(fs, c, m)
        PROVE  NoLagFinding(findings' \ findings)
    BY <2>1, HeadLagIdUnique DEF NextBlock, Emit, NoLagFinding, BlockVerdict, When
  <2> QED
    BY <1>5, <2>1, HeadLagIdUnique DEF ReferenceBlock, CandidateBlock, NoLagFinding, When
<1>6. CASE ReferenceTxCount \/ CandidateTxCount
  BY <1>6, HeadLagIdUnique DEF ReferenceTxCount, CandidateTxCount, Emit, NoLagFinding, When
<1>7. CASE SurfaceBlock \/ ReferenceByHash \/ CandidateByHash
  <2>1. ASSUME NEW fs, NEW c, NoLagFinding(fs), EndSurface(fs, c)
        PROVE  NoLagFinding(findings' \ findings)
    BY <2>1, HeadLagIdUnique DEF EndSurface, Emit, NoLagFinding, When
  <2>2. CASE SurfaceBlock
    BY <2>1, <2>2, HeadLagIdUnique DEF SurfaceBlock, NoLagFinding
  <2>3. CASE ReferenceByHash
    BY <2>1, <2>3, HeadLagIdUnique DEF ReferenceByHash, NoLagFinding
  <2>4. CASE CandidateByHash
    <3>1. ASSUME NEW x, NEW y, NEW c1, NEW c2,
                 EndSurface(When(x, GroupFinding("rpc_surface", "block_by_hash_missing_fields", "warn", c1))
                            \cup When(y, GroupFinding("rpc_surface", "block_by_hash_mismatch", "fail", c1)), c2)
          PROVE  NoLagFinding(findings' \ findings)
      BY <2>1, <3>1, HeadLagIdUnique DEF NoLagFinding, When
    <3>2. NoLagFinding({FetchFailure("rpc_surface", "candidate", "eth_getBlockByHash", CommonHead)})
      BY HeadLagIdUnique DEF NoLagFinding
    <3> QED
      BY <2>1, <2>4, <3>1, <3>2 DEF CandidateByHash
  <2> QED
    BY <1>7, <2>2, <2>3, <2>4
<1> QED
  BY <1>2, <1>3, <1>4, <1>5, <1>6, <1>7 DEF Doctor

LEMMA HeadsInvStep == LagInv /\ [Next]_vars => HeadsInv'
<1> SUFFICES ASSUME LagInv, [Next]_vars
             PROVE  HeadsInv'
  OBVIOUS
<1>0. TypeInv /\ HeadsInv /\ WorldTypeOK /\ DoctorTypeOK
  BY TypeOKParts DEF LagInv, TypeInv
<1>1. CASE Nodes
  <2>1. UNCHANGED <<phase, status>>
    BY <1>1 DEF Nodes, Expire, Advance, Reorg, doctor
  <2>2. reorgs' = 0 => reorgs = 0 /\ \A e \in Endpoints : head[e] <= head'[e]
    <3>1. CASE Expire
      BY <1>0, <3>1, BoundsAssumption DEF Expire, WorldTypeOK, Heights
    <3>2. ASSUME NEW d \in Endpoints, Advance(d)
          PROVE  reorgs' = 0 => reorgs = 0 /\ \A e \in Endpoints : head[e] <= head'[e]
      BY <1>0, <3>2, BoundsAssumption DEF Advance, WorldTypeOK, Heights
    <3>3. ASSUME NEW d \in Endpoints, Reorg(d)
          PROVE  reorgs' # 0
      BY <1>0, <3>3, BoundsAssumption DEF Reorg, WorldTypeOK
    <3> QED
      BY <1>1, <3>1, <3>2, <3>3 DEF Nodes
  <2>3. \A e \in Endpoints : status[e].head \in Nat /\ head[e] \in Nat /\ head'[e] \in Nat
    <3>1. WorldTypeOK'
      BY <1>1, <1>0, NodesTypeOK, TypeOKPartsNext DEF TypeInv
    <3> QED
      BY <1>0, <3>1, BoundsAssumption DEF DoctorTypeOK, WorldTypeOK, StatusType, Heights
  <2> QED
    BY <1>0, <2>1, <2>2, <2>3 DEF HeadsInv
<1>2. CASE Doctor
  <2>1. UNCHANGED <<head, reorgs>>
    BY <1>0, <1>2, DoctorKeepsWorld DEF TypeInv, world
  <2>2. \/ status' = status
        \/ phase = "head" /\ status' = [status EXCEPT ![at] = [headOK |-> TRUE, head |-> head[at]]]
    BY <1>2 DEF Doctor, Start, ClientVersion, ChainID, BlockNumber, ReferenceBlock,
       CandidateBlock, ReferenceTxCount, CandidateTxCount, SurfaceBlock, ReferenceByHash,
       CandidateByHash, EndProbe
  <2>3. reorgs' = 0 => \A e \in Endpoints : status'[e].headOK => status'[e].head <= head'[e]
    BY <1>0, <2>1, <2>2, BoundsAssumption
    DEF HeadsInv, DoctorTypeOK, WorldTypeOK, StatusType, Heights
  <2>4. phase' \in {"start", "version", "chainId", "head"} => ~status'["candidate"].headOK
    <3>1. CASE Start \/ ChainID
      BY <1>0, <3>1 DEF HeadsInv, Start, ChainID
    <3>2. CASE ClientVersion
      BY <1>0, <3>2 DEF HeadsInv, ClientVersion, EndProbe, ProbeOrder
    <3>3. CASE BlockNumber
      <4>1. CASE at = "reference"
        BY <1>0, <3>3, <4>1 DEF HeadsInv, BlockNumber, EndProbe, DoctorTypeOK, StatusType, Endpoints
      <4>2. CASE at = "candidate"
        BY <3>3, <4>2 DEF BlockNumber, EndProbe, ProbeOrder
      <4> QED
        BY <1>0, <4>1, <4>2 DEF DoctorTypeOK, Endpoints
    <3>4. CASE ReferenceBlock \/ CandidateBlock
      BY <3>4 DEF ReferenceBlock, CandidateBlock, NextBlock
    <3>5. CASE ReferenceTxCount \/ CandidateTxCount \/ SurfaceBlock \/ ReferenceByHash \/ CandidateByHash
      BY <3>5 DEF ReferenceTxCount, CandidateTxCount, SurfaceBlock, ReferenceByHash, CandidateByHash, EndSurface
    <3> QED
      BY <1>2, <3>1, <3>2, <3>3, <3>4, <3>5 DEF Doctor
  <2> QED
    BY <2>3, <2>4 DEF HeadsInv
<1>3. CASE UNCHANGED vars
  BY <1>0, <1>3 DEF HeadsInv, vars, world, doctor
<1> QED
  BY <1>1, <1>2, <1>3 DEF Next

LEMMA LagInvInvariant == Spec => []LagInv
<1>1. Init => LagInv
  BY TypeInvInit DEF Init, LagInv, HeadsInv, Endpoints
<1>2. LagInv /\ [Next]_vars => LagInv'
  BY TypeInvStep, HeadsInvStep DEF LagInv
<1> QED
  BY <1>1, <1>2, PTL DEF Spec

(***************************************************************************)
(* The doctor never raises a false lag alarm while the nodes do not        *)
(* reorganise, however fast either of them imports blocks between the two  *)
(* reads of eth_blockNumber.                                               *)
(***************************************************************************)
THEOREM NoFalseLagAlarm == Spec => LagAlarmIsReal
<1> DEFINE Alarm == \A f \in findings' \ findings :
                      f.id = <<"execution", "head_lag">> /\ f.severity = "fail" /\ reorgs = 0
                        => head["reference"] - head["candidate"] > config.maxLag
<1>1. ASSUME LagInv, [Next]_vars
      PROVE  [Alarm]_vars
  <2>0. TypeInv /\ HeadsInv /\ WorldTypeOK /\ DoctorTypeOK
    BY <1>1, TypeOKParts DEF LagInv, TypeInv
  <2>1. CASE Nodes
    BY <2>1 DEF Nodes, Expire, Advance, Reorg, doctor
  <2>2. CASE Doctor
    <3>1. CASE NoLagFinding(findings' \ findings)
      BY <3>1 DEF NoLagFinding, HeadLagId
    <3>2. ASSUME NEW st \in StatusType, at = "candidate", st["reference"].headOK, st["candidate"].headOK,
                 phase = "head", st = [status EXCEPT ![at] = [headOK |-> TRUE, head |-> head[at]]],
                 NoLagFinding((findings' \ findings) \ {HeadLagFinding(HeadLag(st))})
          PROVE  Alarm
      <4>1. st["candidate"].head = head["candidate"] /\ st["reference"] = status["reference"]
        BY <2>0, <3>2 DEF DoctorTypeOK, StatusType, Endpoints
      <4>2. reorgs = 0 => st["reference"].head <= head["reference"]
        BY <2>0, <3>2, <4>1 DEF HeadsInv, Endpoints
      <4>3. HeadLagFinding(HeadLag(st)).severity = "fail" => HeadLag(st) > config.maxLag
        BY DEF HeadLagFinding, Finding
      <4>4. /\ head["reference"] \in Nat /\ head["candidate"] \in Nat
            /\ st["reference"].head \in Nat /\ config.maxLag \in Nat
        BY <2>0, ConfigTyped, BoundsAssumption DEF WorldTypeOK, StatusType, Heights, Endpoints, ConfigType
      <4>5. HeadLag(st) > config.maxLag /\ reorgs = 0
            => head["reference"] - head["candidate"] > config.maxLag
        BY <4>1, <4>2, <4>4 DEF HeadLag
      <4> QED
        BY <3>2, <4>3, <4>5 DEF NoLagFinding, HeadLagId
    <3>3. phase \in {"version", "head"} => ~status["candidate"].headOK
      BY <2>0 DEF HeadsInv
    <3> QED
      BY <2>0, <2>2, <3>1, <3>2, <3>3, LagReported
  <2>3. CASE UNCHANGED vars
    BY <2>3
  <2> QED
    BY <1>1, <2>1, <2>2, <2>3 DEF Next
<1> QED
  BY <1>1, LagInvInvariant, PTL DEF Spec, LagAlarmIsReal
=============================================================================
