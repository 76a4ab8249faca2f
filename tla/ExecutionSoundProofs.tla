------------------------- MODULE ExecutionSoundProofs -------------------------
(***************************************************************************)
(* Proofs about what the findings of ExecutionCheck are worth, for every   *)
(* instance in which block numbers stay below the last value of a uint64.  *)
(* The migration gate is sound: with exit code 0 everything that was asked *)
(* for was read, and agrees.  No divergence is made up, a healthy pair     *)
(* passes, and the alerts on the exported gauges are honest.               *)
(***************************************************************************)
EXTENDS ExecutionAlerts, ExecutionGateProofs

(***************************************************************************)
(* Which endpoint the doctor has asked for its client version and for its  *)
(* chain ID by now, in a run that has failed at nothing.                   *)
(***************************************************************************)
Compares == phase \in Comparing \/ (phase = "done" /\ config.urls = Endpoints)

FamilyRead == Compares \/ (at = "candidate" /\ phase \in {"chainId", "head"})

ChainIDRead(e) ==
    \/ Compares
    \/ at = e /\ phase = "head"
    \/ e = "reference" /\ at = "candidate" /\ phase \in {"version", "chainId", "head"}

NodesAreRight ==
    /\ FamilyRead => deployment["candidate"].family # "op-geth"
    /\ \A e \in Endpoints :
          ChainIDRead(e) /\ config.chainId # 0 => deployment[e].chainId = config.chainId

\* The blocks left behind agree.
BlocksAgree == \A n \in examined : Agree(n)

CountsAgree ==
    phase \in {"surfaceBlock", "byHash", "done"} /\ HeadsKnown => SameTxCount(CommonHead)

\* What is held for a comparison is what the reference says of that block.
HeldIsTrue ==
    /\ phase = "block" /\ at = "candidate" => heldBlock = BlockOf("reference", CommonHead - i)
    /\ phase = "txCount" /\ at = "candidate"
         => heldCount = TxCount[branch["reference"]][CommonHead]

(***************************************************************************)
(* As long as nothing failed and no node reorganised, everything that the  *)
(* program counter has passed is as the gate promises.                     *)
(***************************************************************************)
SoundSoFar == NodesAreRight /\ BlocksAgree /\ CountsAgree

SoundInv ==
    /\ GateInv
    /\ reorgs = 0 => HeldIsTrue /\ DivergenceIsReal
    /\ reorgs = 0 /\ ~FailIn(findings) => SoundSoFar

-----------------------------------------------------------------------------
(* Steps that leave the doctor alone *)

\* A step of the nodes that is not a reorg only moves their heads.
LEMMA NodesKeepHistory ==
    ASSUME TypeOK, Nodes \/ UNCHANGED vars, reorgs' = 0
    PROVE  /\ reorgs = 0
           /\ UNCHANGED <<config, deployment, branch, phase, at, status, i, heldBlock, heldCount, findings>>
<1>1. reorgs \in Nat
  BY TypeOKParts, BoundsAssumption DEF WorldTypeOK
<1>2. \A e \in Endpoints : ~Reorg(e)
  BY <1>1 DEF Reorg
<1>3. CASE Expire \/ \E e \in Endpoints : Advance(e)
  BY <1>3 DEF Expire, Advance, doctor, loop, held
<1>4. CASE UNCHANGED vars
  BY <1>4 DEF vars, world, doctor, loop, held
<1> QED
  BY <1>2, <1>3, <1>4 DEF Nodes

\* What both nodes say of a block depends on their histories only.
LEMMA AgreementKept ==
    ASSUME UNCHANGED <<deployment, branch>>, NEW n
    PROVE  /\ Agree(n)' <=> Agree(n)
           /\ SameTxCount(n)' <=> SameTxCount(n)
           /\ \A e \in Endpoints : BlockOf(e, n)' = BlockOf(e, n)
BY DEF Agree, SameTxCount, BlockOf, Reply

LEMMA NodesStepSound ==
    ASSUME TypeOK, Nodes \/ UNCHANGED vars, reorgs' = 0
    PROVE  /\ HeldIsTrue => HeldIsTrue'
           /\ DivergenceIsReal => DivergenceIsReal'
           /\ SoundSoFar => SoundSoFar'
<1>1. UNCHANGED <<config, deployment, branch, phase, at, status, i, heldBlock, heldCount, findings>>
  BY NodesKeepHistory
<1>2. CommonHead' = CommonHead /\ examined' = examined /\ (HeadsKnown' <=> HeadsKnown)
  BY <1>1 DEF CommonHead, LatestCommonHead, examined, HeadsKnown, Window
<1>3. NodesAreRight => NodesAreRight'
  BY <1>1 DEF NodesAreRight, FamilyRead, ChainIDRead, Compares
<1>4. BlocksAgree => BlocksAgree'
  BY <1>1, <1>2, AgreementKept DEF BlocksAgree
<1>5. CountsAgree => CountsAgree'
  BY <1>1, <1>2 DEF CountsAgree, SameTxCount
<1>6. HeldIsTrue => HeldIsTrue'
  <2>1. BlockOf("reference", CommonHead - i)' = BlockOf("reference", CommonHead - i)
    BY <1>1, <1>2 DEF BlockOf, Reply
  <2> QED
    BY <1>1, <1>2, <2>1 DEF HeldIsTrue
<1>7. DivergenceIsReal => DivergenceIsReal'
  BY <1>1, NodesKeepHistory, AgreementKept DEF DivergenceIsReal
<1> QED
  BY <1>3, <1>4, <1>5, <1>6, <1>7 DEF SoundSoFar

-----------------------------------------------------------------------------
(* Probing *)

\* A finding of severity fail among those emitted is one among all.
LEMMA EmittedFails ==
    ASSUME NEW fs, Emit(fs), FailIn(fs)
    PROVE  FailIn(findings')
BY DEF Emit, FailIn

\* After a probe the doctor is where it probes the other endpoint, or at the reference.
LEMMA EndProbeAt ==
    ASSUME NEW fs, NEW st, EndProbe(fs, st), at \in Endpoints
    PROVE  /\ fs \subseteq findings'
           /\ \/ at = "reference" /\ at' = "candidate" /\ phase' = "version"
              \/ at = "candidate" /\ at' = "reference" /\ phase' \in {"block", "txCount", "done"}
BY DEF EndProbe, ProbeOrder, Emit, Endpoints

(***************************************************************************)
(* A step that finds nothing wrong has read the family or the chain ID     *)
(* that the gate demands.                                                  *)
(***************************************************************************)
LEMMA ProbeReadsNodes ==
    ASSUME TypeOK, NodesAreRight, ~FailIn(findings'),
           ClientVersion \/ ChainID \/ BlockNumber
    PROVE  NodesAreRight'
<1>0. at \in Endpoints /\ UNCHANGED <<config, deployment>>
  BY TypeOKParts DEF DoctorTypeOK, ClientVersion, ChainID, BlockNumber, world
<1>1. CASE ClientVersion
  <2>1. CASE EndProbe({ProbeFinding(at, "reachable", "fail")}, status)
    <3>1. {ProbeFinding(at, "reachable", "fail")} \subseteq findings'
      BY <1>0, <2>1, EndProbeAt
    <3> QED
      BY <3>1, FindingsGraded DEF FailIn
  <2>2. CASE /\ Emit({ProbeFinding(at, "reachable", "ok"), ClientFamily(at, deployment[at].family)})
             /\ phase' = "chainId"
             /\ UNCHANGED <<at, status, loop, held>>
    <3>1. ClientFamily(at, deployment[at].family) \in findings'
      BY <2>2 DEF Emit
    <3>2. at = "candidate" => deployment["candidate"].family # "op-geth"
      BY <3>1, FindingsGraded DEF FailIn, ClientFamily
    <3> QED
      BY <1>0, <1>1, <2>2, <3>2
      DEF ClientVersion, NodesAreRight, FamilyRead, ChainIDRead, Compares, Comparing, Endpoints
  <2> QED
    BY <1>1, <2>1, <2>2 DEF ClientVersion
<1>2. CASE ChainID
  <2>1. CASE Emit({ProbeFinding(at, "chain_id", "fail")})
    <3>1. ProbeFinding(at, "chain_id", "fail") \in findings'
      BY <2>1 DEF Emit
    <3> QED
      BY <3>1, FindingsGraded DEF FailIn
  <2>2. CASE Emit({ChainIDFinding(at, deployment[at].chainId)})
    <3>1. ChainIDFinding(at, deployment[at].chainId) \in findings'
      BY <2>2 DEF Emit
    <3>2. config.chainId # 0 => deployment[at].chainId = config.chainId
      BY <3>1, FindingsGraded DEF FailIn, ChainIDFinding
    <3> QED
      BY <1>0, <1>2, <3>2
      DEF ChainID, NodesAreRight, FamilyRead, ChainIDRead, Compares, Comparing, Endpoints
  <2> QED
    BY <1>2, <2>1, <2>2 DEF ChainID
<1>3. CASE BlockNumber
  <2>1. PICK fs, st : EndProbe(fs, st)
    BY <1>3 DEF BlockNumber
  <2> QED
    BY <1>0, <1>3, <2>1, EndProbeAt
    DEF BlockNumber, NodesAreRight, FamilyRead, ChainIDRead, Compares, Comparing, Endpoints
<1> QED
  BY <1>1, <1>2, <1>3

\* While the endpoints are probed no block counts as examined, nor right after.
LEMMA ProbeExaminesNothing ==
    ASSUME NoWrap, GateInv, GateInv',
           Start \/ ClientVersion \/ ChainID \/ BlockNumber
    PROVE  /\ BlocksAgree' /\ CountsAgree' /\ HeldIsTrue'
           /\ examined' = {} /\ ~(phase' \in {"surfaceBlock", "byHash", "done"} /\ HeadsKnown')
<1>0. DoctorTypeOK /\ status' \in StatusType
  BY TypeOKParts, TypeOKPartsNext DEF GateInv, TypeInv, DoctorTypeOK
<1>1. UNCHANGED config /\ config \in ConfigType
  BY TypeOKParts, ConfigTyped DEF GateInv, TypeInv, Start, ClientVersion, ChainID, BlockNumber, world
<1>2. Doctor
  BY DEF Doctor
<1>3. StartMove \/ ProbeMove
  BY <1>2, DoctorMoves
  DEF GateInv, BlockMove, SurfaceMove, Start, ClientVersion, ChainID, BlockNumber
<1>4. \/ phase' \in {"version", "chainId", "head"}
      \/ phase' = "done"
      \/ phase' = "block" /\ at' = "reference" /\ i' = 0
  <2>1. CASE StartMove
    BY <2>1 DEF StartMove
  <2>2. CASE ProbeMove
    <3>1. Window(status') > 0 /\ i' = 0
      BY <1>0, <1>1, <2>2, WindowCovers DEF ProbeMove, GateInv, TypeInv
    <3>2. at' = "reference" \/ phase' \in {"version", "chainId", "head"}
      <4>1. CASE Start
        BY <2>2, <4>1 DEF Start, ProbeMove
      <4>2. CASE ChainID
        BY <4>2 DEF ChainID
      <4>3. CASE ClientVersion \/ BlockNumber
        <5>1. phase' = "chainId" \/ \E fs, st : EndProbe(fs, st)
          BY <4>3 DEF ClientVersion, BlockNumber
        <5> QED
          BY <1>0, <5>1, EndProbeAt DEF DoctorTypeOK
      <4> QED
        BY <4>1, <4>2, <4>3
    <3> QED
      BY <2>2, <3>1, <3>2 DEF ProbeMove
  <2> QED
    BY <1>3, <2>1, <2>2
<1>5. phase' = "done" => ~HeadsKnown'
  <2>1. CASE StartMove
    BY <2>1 DEF StartMove, GateInv, HeadsKnown, Probing, Endpoints
  <2>2. CASE ProbeMove
    <3>1. phase' = "done" => ~(at = "candidate" /\ HeadsKnown' /\ phase' = IF Window(status') > 0 THEN "block" ELSE "txCount")
      OBVIOUS
    <3> QED
      BY <2>2, <3>1 DEF ProbeMove
  <2> QED
    BY <1>3, <2>1, <2>2
<1>6. phase' \in {"version", "chainId", "head"} => ~HeadsKnown'
  BY DEF GateInv, Probing, HeadsKnown, Endpoints
<1>7. examined' = {}
  BY <1>1, <1>4, <1>5, <1>6, GateViewNext
<1> QED
  BY <1>4, <1>5, <1>7 DEF BlocksAgree, CountsAgree, HeldIsTrue

-----------------------------------------------------------------------------
(* Comparing *)

LEMMA ComparingKeepsNodes ==
    ASSUME NodesAreRight, GateInv, UNCHANGED <<config, deployment>>, phase \in Comparing,
           phase' \in Comparing \cup {"done"}
    PROVE  NodesAreRight'
BY DEF NodesAreRight, FamilyRead, ChainIDRead, Compares

\* No field of two replies that differs: the nodes agree.
LEMMA NoDifferenceAgrees ==
    ASSUME NEW n, DifferingFields(BlockOf("reference", n), BlockOf("candidate", n)) = {}
    PROVE  Agree(n)
BY DEF DifferingFields, Agree

\* The blocks left behind when the loop has come to j blocks below the common head.
LEMMA PassedNext ==
    ASSUME GateInv, phase = "block", NEW j \in Nat, j <= i + 1,
           \A n \in Passed(i) : Agree(n), Agree(CommonHead - i)
    PROVE  \A n \in Passed(j) : Agree(n)
<1>1. CommonHead \in Nat /\ i \in Nat /\ i <= CommonHead
  BY CommonHeadType, TypeOKParts, BoundsAssumption
  DEF GateInv, TypeInv, LoopInBounds, DoctorTypeOK, CommonHead, Heights
<1>2. \A n \in Passed(j) : n \in Passed(i) \/ n = CommonHead - i
  BY <1>1 DEF Passed
<1> QED
  BY <1>2

(***************************************************************************)
(* The end of an iteration: if its block agrees, or the iteration failed,  *)
(* the blocks left behind agree.                                           *)
(***************************************************************************)
LEMMA NextBlockAgrees ==
    ASSUME NoWrap, GateInv, BlocksAgree, phase = "block", UNCHANGED <<world, status>>,
           NEW fs, NEW c, NEW m, NextBlock(fs, c, m), Agree(CommonHead - i)
    PROVE  BlocksAgree' /\ CountsAgree'
<1>1. UNCHANGED <<config, deployment, branch>>
  BY DEF world
<1>2. \/ phase' = "block" /\ i' = i + 1
      \/ phase' = "txCount" /\ ~(i + 1 < Window(status))
  BY DEF NextBlock
<1>4. i \in Nat /\ Window(status) \in Nat /\ i < Window(status)
  BY TypeOKParts, ConfigTyped, WindowType, BoundsAssumption DEF GateInv, TypeInv, DoctorTypeOK, Heights
<1>5. \E j \in Nat : j <= i + 1 /\ examined' = Passed(j)
  <2>1. examined' = Passed(IF phase' = "block" THEN i' ELSE Window(status))
    BY <1>1, ViewKept
  <2>2. CASE phase' = "block" /\ i' = i + 1
    BY <1>4, <2>1, <2>2
  <2>3. CASE phase' = "txCount" /\ ~(i + 1 < Window(status))
    BY <1>4, <2>1, <2>3
  <2> QED
    BY <1>2, <2>2, <2>3
<1>6. examined = Passed(i)
  BY GateView
<1>7. \A n \in examined' : Agree(n)
  BY <1>4, <1>5, <1>6, PassedNext DEF BlocksAgree
<1>8. \A n \in examined' : Agree(n)'
  BY <1>1, <1>7, AgreementKept
<1> QED
  BY <1>2, <1>8 DEF BlocksAgree, CountsAgree

LEMMA BlockStepsSound ==
    ASSUME NoWrap, GateInv, HeldIsTrue, SoundSoFar, ~FailIn(findings'),
           ReferenceBlock \/ CandidateBlock
    PROVE  SoundSoFar'
<1> DEFINE n == CommonHead - i
<1>1. phase = "block" /\ UNCHANGED <<world, status>> /\ UNCHANGED <<config, deployment, branch>>
  BY DEF ReferenceBlock, CandidateBlock, world
<1>2. \A e, fs, c, m : NextBlock({FetchFailure("block_compare", e, "eth_getBlockByNumber", n)}, c, m)
                       => FALSE
  <2>1. \A e : FailIn({FetchFailure("block_compare", e, "eth_getBlockByNumber", n)})
    BY FindingsGraded DEF FailIn
  <2>2. \A fs, c, m : NextBlock(fs, c, m) => fs \subseteq findings'
    BY DEF NextBlock, Emit
  <2> QED
    BY <2>1, <2>2 DEF FailIn
<1>3. BlocksAgree' /\ CountsAgree' /\ phase' \in {"block", "txCount"}
  <2>1. CASE ReferenceBlock
    <3>1. heldBlock' = BlockOf("reference", n) /\ at' = "candidate" /\ UNCHANGED <<phase, loop, findings>>
      BY <1>2, <2>1 DEF ReferenceBlock
    <3>2. i' = i /\ CommonHead' = CommonHead
      BY <1>1, <3>1 DEF loop, CommonHead, LatestCommonHead
    <3>4. examined' = examined
      BY <1>1, <3>1, <3>2, ViewKept, GateView
    <3>5. \A x \in examined' : Agree(x)'
      BY <1>1, <3>4, AgreementKept DEF SoundSoFar, BlocksAgree
    <3> QED
      BY <1>1, <3>1, <3>5 DEF BlocksAgree, CountsAgree
  <2>2. CASE CandidateBlock
    <3> DEFINE cand  == BlockOf("candidate", n)
               found == When(DifferingFields(heldBlock, cand) # {},
                             GroupFinding("block_compare", "divergence", "fail", <<"block_number", n>>))
    <3>1. PICK c, m : NextBlock(found, c, m)
      BY <1>2, <2>2 DEF CandidateBlock
    <3>2. DifferingFields(heldBlock, cand) = {}
      <4>1. found \subseteq findings'
        BY <3>1 DEF NextBlock, Emit
      <4> QED
        BY <4>1, FindingsGraded DEF FailIn, When
    <3>3. heldBlock = BlockOf("reference", n)
      BY <1>1, <2>2 DEF CandidateBlock, HeldIsTrue
    <3>4. Agree(n)
      BY <3>2, <3>3, NoDifferenceAgrees
    <3>5. phase' \in {"block", "txCount"}
      BY <1>1, <3>1 DEF NextBlock
    <3> HIDE DEF found
    <3> QED
      BY <1>1, <3>1, <3>4, <3>5, NextBlockAgrees DEF SoundSoFar
  <2> QED
    BY <2>1, <2>2
<1>4. NodesAreRight'
  BY <1>1, <1>3, ComparingKeepsNodes DEF SoundSoFar, Comparing
<1> QED
  BY <1>3, <1>4 DEF SoundSoFar

LEMMA SurfaceStepsSound ==
    ASSUME NoWrap, GateInv, HeldIsTrue, SoundSoFar, ~FailIn(findings'),
           \/ ReferenceTxCount \/ CandidateTxCount
           \/ SurfaceBlock \/ ReferenceByHash \/ CandidateByHash
    PROVE  SoundSoFar'
<1>1. /\ phase \in {"txCount", "surfaceBlock", "byHash"}
      /\ phase' \in {"txCount", "surfaceBlock", "byHash", "done"}
      /\ UNCHANGED <<status, i>> /\ UNCHANGED <<config, deployment, branch>>
  BY DEF ReferenceTxCount, CandidateTxCount, SurfaceBlock, ReferenceByHash, CandidateByHash,
         EndSurface, loop, world
<1>2. CommonHead' = CommonHead /\ (HeadsKnown' <=> HeadsKnown)
  BY <1>1 DEF CommonHead, LatestCommonHead, HeadsKnown
<1>3. BlocksAgree'
  <2>1. examined' = examined
    BY <1>1, ViewKept, GateView
  <2>2. \A n \in examined' : Agree(n)'
    BY <1>1, <2>1, AgreementKept DEF SoundSoFar, BlocksAgree
  <2> QED
    BY <1>1, <2>2 DEF BlocksAgree
<1>4. NodesAreRight'
  BY <1>1, ComparingKeepsNodes DEF SoundSoFar, Comparing
<1>5. \A e, m : FetchFailure("rpc_surface", e, m, CommonHead) \notin findings'
  BY FindingsGraded DEF FailIn
<1>6. SameTxCount(CommonHead)' <=> SameTxCount(CommonHead)
  BY <1>1, <1>2 DEF SameTxCount
<1>7. CountsAgree'
  <2>1. CASE ReferenceTxCount
    <3>1. phase' = "txCount"
      BY <1>5, <2>1 DEF ReferenceTxCount, Emit
    <3> QED
      BY <3>1 DEF CountsAgree
  <2>2. CASE CandidateTxCount
    <3>1. heldCount = TxCount[branch["candidate"]][CommonHead]
      <4>1. CASE Emit({FetchFailure("rpc_surface", "candidate",
                                    "eth_getBlockTransactionCountByNumber", CommonHead)})
        BY <1>5, <4>1 DEF Emit
      <4>2. CASE Emit(When(heldCount # TxCount[branch["candidate"]][CommonHead],
                           GroupFinding("rpc_surface", "transaction_count_mismatch", "fail",
                                        <<"block_number", CommonHead>>)))
        BY <4>2, FindingsGraded DEF Emit, When, FailIn
      <4> QED
        BY <2>2, <4>1, <4>2 DEF CandidateTxCount
    <3>2. heldCount = TxCount[branch["reference"]][CommonHead]
      BY <2>2 DEF CandidateTxCount, HeldIsTrue
    <3>3. SameTxCount(CommonHead) /\ phase' = "surfaceBlock"
      BY <2>2, <3>1, <3>2 DEF SameTxCount, CandidateTxCount
    <3> QED
      BY <1>2, <1>6, <3>3 DEF CountsAgree
  <2>3. CASE SurfaceBlock \/ ReferenceByHash \/ CandidateByHash
    <3>1. phase \in {"surfaceBlock", "byHash"} /\ phase' # "txCount"
      BY <2>3 DEF SurfaceBlock, ReferenceByHash, CandidateByHash, EndSurface
    <3> QED
      BY <1>2, <1>6, <3>1 DEF SoundSoFar, CountsAgree
  <2> QED
    BY <2>1, <2>2, <2>3
<1> QED
  BY <1>3, <1>4, <1>7 DEF SoundSoFar

-----------------------------------------------------------------------------
(* What is held, and the divergences reported *)

LEMMA HeldStaysTrue ==
    ASSUME NoWrap, GateInv, GateInv', HeldIsTrue, Doctor
    PROVE  HeldIsTrue'
<1>1. CASE Start \/ ClientVersion \/ ChainID \/ BlockNumber
  BY <1>1, ProbeExaminesNothing
<1>2. CASE ReferenceBlock
  <2>1. CASE heldBlock' = BlockOf("reference", CommonHead - i) /\ UNCHANGED <<phase, loop>>
    <3>1. CommonHead' = CommonHead /\ i' = i /\ UNCHANGED <<deployment, branch>>
      BY <1>2, <2>1 DEF ReferenceBlock, CommonHead, LatestCommonHead, loop, world
    <3>2. BlockOf("reference", CommonHead - i)' = BlockOf("reference", CommonHead - i)
      BY <3>1 DEF BlockOf, Reply
    <3> QED
      BY <1>2, <2>1, <3>2 DEF ReferenceBlock, HeldIsTrue
  <2>2. CASE \E fs, c, m : NextBlock(fs, c, m)
    BY <2>2 DEF NextBlock, HeldIsTrue
  <2> QED
    BY <1>2, <2>1, <2>2 DEF ReferenceBlock
<1>3. CASE CandidateBlock
  BY <1>3 DEF CandidateBlock, NextBlock, HeldIsTrue
<1>4. CASE ReferenceTxCount
  <2>1. CommonHead' = CommonHead /\ UNCHANGED branch
    BY <1>4 DEF ReferenceTxCount, CommonHead, LatestCommonHead, world
  <2> QED
    BY <1>4, <2>1 DEF ReferenceTxCount, HeldIsTrue
<1>5. CASE CandidateTxCount \/ SurfaceBlock \/ ReferenceByHash \/ CandidateByHash
  BY <1>5 DEF CandidateTxCount, SurfaceBlock, ReferenceByHash, CandidateByHash, EndSurface, HeldIsTrue
<1> QED
  BY <1>1, <1>2, <1>3, <1>4, <1>5 DEF Doctor

DivergenceId == <<"execution", "block_compare", "divergence">>
CountId      == <<"execution", "rpc_surface", "transaction_count_mismatch">>

\* Findings fs claim no difference of a block.
ClaimNothing(fs) == \A f \in fs : f.id # DivergenceId /\ f.id # CountId

LEMMA OtherIds ==
    /\ \A e \in Endpoints : \A n, s : ClaimNothing({ProbeFinding(e, n, s)})
    /\ \A e \in Endpoints : \A g, m, n : ClaimNothing({FetchFailure(g, e, m, n)})
    /\ \A n, s, x : n # "divergence" => ClaimNothing({GroupFinding("block_compare", n, s, x)})
    /\ \A n, s, x : n # "transaction_count_mismatch" => ClaimNothing({GroupFinding("rpc_surface", n, s, x)})
    /\ \A lag : ClaimNothing({HeadLagFinding(lag)})
    /\ \A s, t, x : ClaimNothing({Finding(<<"execution", "skipped">>, s, t, x)})
    /\ \A s, t, x : ClaimNothing({Finding(<<"execution", "rpc_surface", "block_hash_missing">>, s, t, x)})
BY DEF ClaimNothing, ProbeFinding, FetchFailure, GroupFinding, HeadLagFinding, Finding, DivergenceId,
       CountId, Endpoints, Fetch

LEMMA UnionClaimsNothing ==
    ASSUME NEW fs, NEW gs, ClaimNothing(fs), ClaimNothing(gs)
    PROVE  ClaimNothing(fs \cup gs)
BY DEF ClaimNothing

LEMMA WhenClaimsNothing ==
    ASSUME NEW cond \in BOOLEAN, NEW f, ClaimNothing({f})
    PROVE  ClaimNothing(When(cond, f))
BY DEF ClaimNothing, When

\* What finding f claims is so.
Real(f) ==
    /\ f.id = DivergenceId => ~Agree(f.sample[2])
    /\ f.id = CountId => ~SameTxCount(f.sample[2])

NewAreReal == \A f \in findings' \ findings : Real(f)

LEMMA EmitReal ==
    ASSUME NEW fs, Emit(fs), \A f \in fs : Real(f)
    PROVE  NewAreReal
BY DEF Emit, NewAreReal

LEMMA NothingIsReal ==
    ASSUME NEW fs, ClaimNothing(fs)
    PROVE  \A f \in fs : Real(f)
BY DEF ClaimNothing, Real

LEMMA EndProbeReal ==
    ASSUME NEW fs, NEW st, EndProbe(fs, st), ClaimNothing(fs)
    PROVE  NewAreReal
<1>1. ClaimNothing(fs \cup {HeadLagFinding(HeadLag(st))})
  BY OtherIds, UnionClaimsNothing
<1>2. Emit(fs) \/ Emit(fs \cup {HeadLagFinding(HeadLag(st))})
  BY DEF EndProbe
<1> QED
  BY <1>1, <1>2, EmitReal, NothingIsReal

LEMMA NextBlockReal ==
    ASSUME NEW fs, NEW c \in Nat, NEW m, NextBlock(fs, c, m), \A f \in fs : Real(f)
    PROVE  NewAreReal
<1> DEFINE lacks   == When(m # {}, GroupFinding("block_compare", "missing_fields", "warn", NoSample))
           matches == When(c > 0 /\ ~HasFailFinding(findings \cup fs, DivergenceId),
                           GroupFinding("block_compare", "match", "ok", <<"compared_blocks", c>>))
<1>1. ClaimNothing(lacks)
  BY OtherIds, WhenClaimsNothing
<1>2. ClaimNothing(matches)
  BY OtherIds, WhenClaimsNothing
<1>3. BlockVerdict(findings \cup fs, c, m) = lacks \cup matches
  BY DEF BlockVerdict, DivergenceId
<1> HIDE DEF lacks, matches
<1>4. \A f \in fs \cup BlockVerdict(findings \cup fs, c, m) : Real(f)
  BY <1>1, <1>2, <1>3, NothingIsReal
<1>5. Emit(fs) \/ Emit(fs \cup BlockVerdict(findings \cup fs, c, m))
  BY DEF NextBlock
<1> QED
  BY <1>4, <1>5, EmitReal

LEMMA EndSurfaceReal ==
    ASSUME NEW fs, NEW c, EndSurface(fs, c), ClaimNothing(fs)
    PROVE  NewAreReal
<1> DEFINE matches == When(c > 0 /\ ~SurfaceFailed(findings \cup fs),
                           GroupFinding("rpc_surface", "match", "ok", <<"compared_methods", c>>))
<1>1. ClaimNothing(matches)
  BY OtherIds, WhenClaimsNothing
<1>2. Emit(fs \cup matches)
  BY DEF EndSurface
<1> HIDE DEF matches
<1> QED
  BY <1>1, <1>2, UnionClaimsNothing, EmitReal, NothingIsReal

LEMMA ProbingClaimsNothing ==
    ASSUME DoctorTypeOK, Start \/ ClientVersion \/ ChainID \/ BlockNumber
    PROVE  NewAreReal
<1>0. at \in Endpoints
  BY DEF DoctorTypeOK
<1>1. CASE Start
  <2>1. findings' = findings \/ Emit({Finding(<<"execution", "skipped">>, "warn", "execution", NoSample)})
    BY <1>1 DEF Start
  <2>2. findings' = findings => NewAreReal
    BY DEF NewAreReal
  <2> QED
    BY <2>1, <2>2, OtherIds, EmitReal, NothingIsReal
<1>2. CASE ClientVersion
  <2>1. CASE Emit({ProbeFinding(at, "reachable", "ok"), ClientFamily(at, deployment[at].family)})
    <3>1. ClaimNothing({ProbeFinding(at, "reachable", "ok")} \cup {ClientFamily(at, deployment[at].family)})
      BY <1>0, OtherIds, UnionClaimsNothing DEF ClientFamily
    <3>2. Emit({ProbeFinding(at, "reachable", "ok")} \cup {ClientFamily(at, deployment[at].family)})
      BY <2>1 DEF Emit
    <3> QED
      BY <3>1, <3>2, EmitReal, NothingIsReal
  <2>2. CASE EndProbe({ProbeFinding(at, "reachable", "fail")}, status)
    BY <1>0, <2>2, OtherIds, EndProbeReal
  <2> QED
    BY <1>2, <2>1, <2>2 DEF ClientVersion
<1>3. CASE ChainID
  <2>1. \E s : Emit({ProbeFinding(at, "chain_id", s)})
    BY <1>3 DEF ChainID, ChainIDFinding
  <2> QED
    BY <1>0, <2>1, OtherIds, EmitReal, NothingIsReal
<1>4. CASE BlockNumber
  <2>1. \E s, st : EndProbe({ProbeFinding(at, "head", s)}, st)
    BY <1>4 DEF BlockNumber
  <2> QED
    BY <1>0, <2>1, OtherIds, EndProbeReal
<1> QED
  BY <1>1, <1>2, <1>3, <1>4

\* A field of two replies that differs: the nodes disagree.
LEMMA DifferenceIsReal ==
    ASSUME NEW n, DifferingFields(BlockOf("reference", n), BlockOf("candidate", n)) # {}
    PROVE  ~Agree(n)
BY DEF DifferingFields, Agree

LEMMA BlockClaimsReal ==
    ASSUME DoctorTypeOK, HeldIsTrue, ReferenceBlock \/ CandidateBlock
    PROVE  NewAreReal
<1> DEFINE n == CommonHead - i
<1>1. \A e \in Endpoints : \A f \in {FetchFailure("block_compare", e, "eth_getBlockByNumber", n)} : Real(f)
  BY OtherIds, NothingIsReal
<1>2. compared \in Nat /\ compared + 1 \in Nat
  BY DEF DoctorTypeOK
<1>3. CASE ReferenceBlock
  <2>1. CASE UNCHANGED findings
    BY <2>1 DEF NewAreReal
  <2>2. CASE NextBlock({FetchFailure("block_compare", "reference", "eth_getBlockByNumber", n)},
                       compared, missing)
    BY <1>1, <1>2, <2>2, NextBlockReal DEF Endpoints
  <2> QED
    BY <1>3, <2>1, <2>2 DEF ReferenceBlock
<1>4. CASE CandidateBlock
  <2> DEFINE differing == DifferingFields(heldBlock, BlockOf("candidate", n))
             found     == When(differing # {},
                               GroupFinding("block_compare", "divergence", "fail", <<"block_number", n>>))
  <2>1. \A f \in found : Real(f)
    <3>1. differing # {} => ~Agree(n)
      BY <1>4, DifferenceIsReal DEF CandidateBlock, HeldIsTrue
    <3>2. GroupFinding("block_compare", "divergence", "fail", <<"block_number", n>>).sample[2] = n
      BY DEF GroupFinding, Finding
    <3>3. GroupFinding("block_compare", "divergence", "fail", <<"block_number", n>>).id # CountId
      BY DEF GroupFinding, Finding, CountId
    <3> QED
      BY <3>1, <3>2, <3>3 DEF Real, When
  <2>2. CASE NextBlock({FetchFailure("block_compare", "candidate", "eth_getBlockByNumber", n)},
                       compared, missing)
    BY <1>1, <1>2, <2>2, NextBlockReal DEF Endpoints
  <2>3. CASE \E m : NextBlock(found, compared + 1, m)
    <3> HIDE DEF found
    <3> QED
      BY <1>2, <2>1, <2>3, NextBlockReal
  <2> QED
    BY <1>4, <2>2, <2>3 DEF CandidateBlock
<1> QED
  BY <1>3, <1>4

LEMMA SurfaceClaimsReal ==
    ASSUME HeldIsTrue,
           \/ ReferenceTxCount \/ CandidateTxCount
           \/ SurfaceBlock \/ ReferenceByHash \/ CandidateByHash
    PROVE  NewAreReal
<1>1. \A e \in Endpoints : \A m : ClaimNothing({FetchFailure("rpc_surface", e, m, CommonHead)})
  BY OtherIds
<1>2. "reference" \in Endpoints /\ "candidate" \in Endpoints
  BY DEF Endpoints
<1>3. UNCHANGED findings => NewAreReal
  BY DEF NewAreReal
<1>4. CASE ReferenceTxCount
  <2>1. UNCHANGED findings \/ \E m : Emit({FetchFailure("rpc_surface", "reference", m, CommonHead)})
    BY <1>4 DEF ReferenceTxCount
  <2> QED
    BY <1>1, <1>2, <1>3, <2>1, EmitReal, NothingIsReal
<1>5. CASE CandidateTxCount
  <2> DEFINE mismatch == GroupFinding("rpc_surface", "transaction_count_mismatch", "fail",
                                      <<"block_number", CommonHead>>)
             found    == When(heldCount # TxCount[branch["candidate"]][CommonHead], mismatch)
  <2>1. \A f \in found : Real(f)
    <3>1. heldCount # TxCount[branch["candidate"]][CommonHead] => ~SameTxCount(CommonHead)
      BY <1>5 DEF CandidateTxCount, HeldIsTrue, SameTxCount
    <3>2. mismatch.sample[2] = CommonHead /\ mismatch.id # DivergenceId
      BY DEF GroupFinding, Finding, DivergenceId
    <3> QED
      BY <3>1, <3>2 DEF Real, When
  <2>2. Emit(found) \/ \E m : Emit({FetchFailure("rpc_surface", "candidate", m, CommonHead)})
    BY <1>5 DEF CandidateTxCount
  <2> HIDE DEF found
  <2> QED
    BY <1>1, <1>2, <2>1, <2>2, EmitReal, NothingIsReal
<1>6. CASE SurfaceBlock
  <2>1. CASE \E m : EndSurface({FetchFailure("rpc_surface", "reference", m, CommonHead)}, compared)
    BY <1>1, <1>2, <2>1, EndSurfaceReal
  <2>2. CASE EndSurface({Finding(<<"execution", "rpc_surface", "block_hash_missing">>, "warn",
                                 Target["reference"], <<"block_number", CommonHead>>)}, compared)
    BY <2>2, OtherIds, EndSurfaceReal
  <2> QED
    BY <1>3, <1>6, <2>1, <2>2 DEF SurfaceBlock
<1>7. CASE ReferenceByHash
  <2>1. UNCHANGED findings \/ \E m : EndSurface({FetchFailure("rpc_surface", "reference", m, CommonHead)}, compared)
    BY <1>7 DEF ReferenceByHash
  <2> QED
    BY <1>1, <1>2, <1>3, <2>1, EndSurfaceReal
<1>8. CASE CandidateByHash
  <2> DEFINE lacks(x) == When(x, GroupFinding("rpc_surface", "block_by_hash_missing_fields", "warn",
                                              <<"block_number", CommonHead>>))
             differs(x) == When(x, GroupFinding("rpc_surface", "block_by_hash_mismatch", "fail",
                                                <<"block_number", CommonHead>>))
  <2>1. ASSUME NEW x \in BOOLEAN, NEW y \in BOOLEAN, EndSurface(lacks(x) \cup differs(y), compared + 1)
        PROVE  NewAreReal
    <3>1. ClaimNothing(lacks(x))
      BY OtherIds, WhenClaimsNothing
    <3>2. ClaimNothing(differs(y))
      BY OtherIds, WhenClaimsNothing
    <3> HIDE DEF lacks, differs
    <3> QED
      BY <2>1, <3>1, <3>2, UnionClaimsNothing, EndSurfaceReal
  <2>2. CASE EndSurface({FetchFailure("rpc_surface", "candidate", "eth_getBlockByHash", CommonHead)}, compared)
    BY <1>1, <1>2, <2>2, EndSurfaceReal
  <2>3. CASE \E x, y \in BOOLEAN : EndSurface(lacks(x) \cup differs(y), compared + 1)
    <3> HIDE DEF lacks, differs
    <3> QED
      BY <2>1, <2>3
  <2>4. ASSUME NEW v, EndSurface(
                   When(MissingFields(heldBlock, Reply("candidate", v)) # {},
                        GroupFinding("rpc_surface", "block_by_hash_missing_fields", "warn",
                                     <<"block_number", CommonHead>>))
                   \cup
                   When(DifferingFields(heldBlock, Reply("candidate", v)) # {},
                        GroupFinding("rpc_surface", "block_by_hash_mismatch", "fail",
                                     <<"block_number", CommonHead>>)),
                   compared + 1)
        PROVE  \E x, y \in BOOLEAN : EndSurface(lacks(x) \cup differs(y), compared + 1)
    <3> WITNESS (MissingFields(heldBlock, Reply("candidate", v)) # {}) \in BOOLEAN,
                (DifferingFields(heldBlock, Reply("candidate", v)) # {}) \in BOOLEAN
    <3> QED
      BY <2>4
  <2>5. \/ \E v : EndSurface(
                   When(MissingFields(heldBlock, Reply("candidate", v)) # {},
                        GroupFinding("rpc_surface", "block_by_hash_missing_fields", "warn",
                                     <<"block_number", CommonHead>>))
                   \cup
                   When(DifferingFields(heldBlock, Reply("candidate", v)) # {},
                        GroupFinding("rpc_surface", "block_by_hash_mismatch", "fail",
                                     <<"block_number", CommonHead>>)),
                   compared + 1)
        \/ EndSurface({FetchFailure("rpc_surface", "candidate", "eth_getBlockByHash", CommonHead)}, compared)
    BY <1>8 DEF CandidateByHash
  <2> HIDE DEF lacks, differs
  <2> QED
    BY <2>2, <2>3, <2>4, <2>5
<1> QED
  BY <1>4, <1>5, <1>6, <1>7, <1>8

LEMMA DivergencesStayReal ==
    ASSUME TypeOK, HeldIsTrue, reorgs = 0, DivergenceIsReal, Doctor
    PROVE  DivergenceIsReal'
<1>1. UNCHANGED <<deployment, branch>> /\ DoctorTypeOK
  BY DoctorKeepsWorld, TypeOKParts DEF world
<1>2. NewAreReal
  BY <1>1, ProbingClaimsNothing, BlockClaimsReal, SurfaceClaimsReal DEF Doctor
<1>3. \A f \in findings' : Real(f)
  BY <1>2 DEF NewAreReal, Real, DivergenceIsReal, DivergenceId, CountId
<1> QED
  BY <1>1, <1>3, AgreementKept DEF Real, DivergenceIsReal, DivergenceId, CountId

-----------------------------------------------------------------------------
(* The invariant and the theorem *)

LEMMA SoundInvInit == Init => SoundInv
<1> SUFFICES ASSUME Init PROVE SoundInv
  OBVIOUS
<1>1. GateInv
  BY GateInvInit
<1>2. phase = "start" /\ at = "reference" /\ ~HeadsKnown
  BY DEF Init, HeadsKnown, Endpoints
<1>3. examined = {}
  BY <1>2 DEF examined
<1> QED
  BY <1>1, <1>2, <1>3
  DEF SoundInv, SoundSoFar, NodesAreRight, BlocksAgree, CountsAgree, FamilyRead, ChainIDRead,
      Compares, Comparing, HeldIsTrue, DivergenceIsReal, Init

LEMMA SoundInvStep ==
    ASSUME NoWrap, SoundInv, [Next]_vars
    PROVE  SoundInv'
<1>1. GateInv /\ GateInv' /\ TypeOK
  BY GateInvStep DEF SoundInv, GateInv, TypeInv
<1>2. FailIn(findings) => FailIn(findings')
  BY FindingsGrow DEF FailIn
<1>3. SUFFICES ASSUME reorgs' = 0
               PROVE  /\ HeldIsTrue' /\ DivergenceIsReal'
                      /\ ~FailIn(findings') => SoundSoFar'
  BY <1>1 DEF SoundInv
<1>4. CASE Nodes \/ UNCHANGED vars
  <2>1. reorgs = 0
    BY <1>1, <1>3, <1>4, NodesKeepHistory
  <2> QED
    BY <1>1, <1>2, <1>3, <1>4, <2>1, NodesStepSound DEF SoundInv
<1>5. CASE Doctor
  <2>1. UNCHANGED world /\ reorgs = 0
    BY <1>1, <1>3, <1>5, DoctorKeepsWorld, WorldConfig
  <2>2. HeldIsTrue /\ DivergenceIsReal /\ (~FailIn(findings) => SoundSoFar)
    BY <2>1 DEF SoundInv
  <2>3. HeldIsTrue' /\ DivergenceIsReal'
    BY <1>1, <1>5, <2>1, <2>2, HeldStaysTrue, DivergencesStayReal
  <2>4. ASSUME ~FailIn(findings')
        PROVE  SoundSoFar'
    <3>1. SoundSoFar
      BY <1>2, <2>2, <2>4
    <3>2. CASE Start
      <4>1. UNCHANGED <<config, deployment>> /\ phase = "start"
        BY <2>1, <3>2 DEF world, Start
      <4>2. \/ phase' = "version" /\ at' = "reference"
            \/ phase' = "done" /\ config.urls # Endpoints
        BY <3>2 DEF Start, ProbeOrder
      <4>3. NodesAreRight'
        BY <4>1, <4>2 DEF NodesAreRight, FamilyRead, ChainIDRead, Compares, Comparing
      <4> QED
        BY <1>1, <3>2, <4>3, ProbeExaminesNothing DEF SoundSoFar
    <3>3. CASE ClientVersion \/ ChainID \/ BlockNumber
      BY <1>1, <2>4, <3>1, <3>3, ProbeReadsNodes, ProbeExaminesNothing DEF SoundSoFar
    <3>4. CASE ReferenceBlock \/ CandidateBlock
      BY <1>1, <2>2, <2>4, <3>1, <3>4, BlockStepsSound
    <3>5. CASE \/ ReferenceTxCount \/ CandidateTxCount
               \/ SurfaceBlock \/ ReferenceByHash \/ CandidateByHash
      BY <1>1, <2>2, <2>4, <3>1, <3>5, SurfaceStepsSound
    <3> QED
      BY <1>5, <3>2, <3>3, <3>4, <3>5 DEF Doctor
  <2> QED
    BY <2>3, <2>4
<1> QED
  BY <1>4, <1>5 DEF Next

LEMMA SoundInvGate ==
    ASSUME NoWrap, SoundInv
    PROVE  GateSound
<1> SUFFICES ASSUME phase = "done", config.urls = Endpoints, reorgs = 0, ExitCode(findings, "fail") = 0
             PROVE  /\ \A n \in NewestBlocks : Agree(n)
                    /\ SameTxCount(CommonHead)
                    /\ config.chainId # 0 =>
                         \A e \in Endpoints : deployment[e].chainId = config.chainId
                    /\ deployment["candidate"].family # "op-geth"
  BY DEF GateSound
<1>1. ~FailIn(findings)
  BY ExitCodeFail DEF SoundInv, GateInv, TypeInv, TypeOK
<1>2. HeadsKnown /\ SoundSoFar
  BY <1>1 DEF SoundInv, GateInv
<1>3. \A n \in NewestBlocks : Agree(n)
  <2>1. NewestBlocks = examined
    BY <1>2, GateView DEF wanted, SoundInv
  <2> QED
    BY <1>2, <2>1 DEF SoundSoFar, BlocksAgree
<1> QED
  BY <1>2, <1>3
  DEF SoundSoFar, NodesAreRight, CountsAgree, FamilyRead, ChainIDRead, Compares

LEMMA SoundInvInvariant ==
    ASSUME NoWrap
    PROVE  Spec => []SoundInv
<1>1. SoundInv /\ [Next]_vars => SoundInv'
  BY SoundInvStep
<1> QED
  BY <1>1, SoundInvInit, PTL DEF Spec

(***************************************************************************)
(* The migration gate is sound: when check --fail-on fail exits with 0,    *)
(* the requested blocks and the transaction counts agree and both nodes    *)
(* are the right ones, whatever call failed and whenever the deadline      *)
(* passed, for all histories, heights and configurations.                  *)
(***************************************************************************)
THEOREM GateIsSound ==
    ASSUME NoWrap
    PROVE  Spec => []GateSound
<1>1. SoundInv => GateSound
  BY SoundInvGate
<1> QED
  BY <1>1, SoundInvInvariant, PTL

(***************************************************************************)
(* A divergence of blocks, or of transaction counts, is reported only of   *)
(* nodes that really differ: no left-out field and no block of another     *)
(* iteration is ever taken for one.                                        *)
(***************************************************************************)
THEOREM NoFalseDivergence ==
    ASSUME NoWrap
    PROVE  Spec => []DivergenceIsReal
<1>1. SoundInv => DivergenceIsReal
  BY DEF SoundInv, DivergenceIsReal
<1> QED
  BY <1>1, SoundInvInvariant, PTL

-----------------------------------------------------------------------------
(* A healthy pair *)

\* A history holds one block of each hash: a block hash commits to its number.
OneBlockPerHash ==
    \A b \in Branches, n, m \in Heights : Value[b][n]["hash"] = Value[b][m]["hash"] => n = m

Healthy ==
    /\ faults = 0 /\ ~expired /\ reorgs = 0
    /\ \A n \in {m \in Heights : \A e \in Endpoints : m <= head[e]} :
          SameBlock(n) /\ SameTxCount(n)

\* A finding that a healthy pair may give rise to.
Passes(f) ==
    f.severity = "fail" =>
       \/ f.id = <<"execution", "head_lag">>
       \/ f.id = <<"execution", "candidate", "client_family">>
       \/ \E e \in Endpoints : /\ f.id = <<"execution", e, "chain_id">>
                               /\ deployment[e].chainId # config.chainId

\* The block that is compared again by its hash is the reference's newest common one.
HeldForHash ==
    phase = "byHash" =>
        /\ heldBlock = BlockOf("reference", CommonHead)
        /\ heldBlock["hash"] = Value[branch["reference"]][CommonHead]["hash"]

HealthInv ==
    /\ SoundInv /\ LagInv
    /\ reorgs = 0 => HeldForHash
    /\ HealthyPairPasses

LEMMA HealthyMeans ==
    HealthyPairPasses <=> (Healthy => \A f \in findings : Passes(f))
BY DEF HealthyPairPasses, Healthy, Passes

\* As long as no node reorganises, its head only grows.
LEMMA HeadsOnlyGrow ==
    ASSUME TypeInv, [Next]_vars, reorgs' = 0
    PROVE  /\ reorgs = 0 /\ UNCHANGED <<config, deployment, branch>>
           /\ \A e \in Endpoints : head[e] \in Nat /\ head'[e] \in Nat /\ head[e] <= head'[e]
<1>0. WorldTypeOK
  BY TypeOKParts DEF TypeInv
<1>1. CASE Nodes \/ UNCHANGED vars
  <2>1. reorgs = 0 /\ UNCHANGED <<config, deployment, branch>>
    BY <1>1, NodesKeepHistory DEF TypeInv
  <2>2. \A e \in Endpoints : ~Reorg(e)
    BY <1>0, <2>1, BoundsAssumption DEF Reorg, WorldTypeOK
  <2>3. ASSUME NEW d \in Endpoints, Advance(d)
        PROVE  \A e \in Endpoints : head[e] \in Nat /\ head'[e] \in Nat /\ head[e] <= head'[e]
    BY <1>0, <2>3, BoundsAssumption DEF Advance, WorldTypeOK, Heights
  <2>4. CASE Expire \/ UNCHANGED vars \/ \E d \in Endpoints : Advance(d)
    <3>1. \A e \in Endpoints : head[e] \in Nat /\ head'[e] \in Nat /\ head[e] <= head'[e]
      <4>1. CASE Expire \/ UNCHANGED vars
        BY <1>0, <4>1, BoundsAssumption DEF Expire, WorldTypeOK, Heights, vars, world
      <4> QED
        BY <2>3, <2>4, <4>1
    <3> QED
      BY <2>1, <3>1
  <2> QED
    BY <1>1, <2>2, <2>4 DEF Nodes
<1>2. CASE Doctor
  <2>1. UNCHANGED <<config, deployment, branch, head, reorgs>>
    BY <1>2, DoctorKeepsWorld, WorldConfig DEF TypeInv
  <2> QED
    BY <1>0, <2>1, BoundsAssumption DEF WorldTypeOK, Heights
<1> QED
  BY <1>1, <1>2 DEF Next

\* Calls that have failed stay failed, and a deadline that has passed stays passed.
LEMMA TroubleStays ==
    ASSUME TypeInv, [Next]_vars, faults' = 0, ~expired'
    PROVE  faults = 0 /\ ~expired /\ ~Failed
<1>0. faults \in Nat /\ expired \in BOOLEAN
  BY TypeOKParts, BoundsAssumption DEF TypeInv, WorldTypeOK
<1>1. ASSUME Nodes \/ UNCHANGED vars
      PROVE  faults = 0 /\ ~expired
  <2>1. faults' = faults
    BY <1>1 DEF Nodes, Expire, Advance, Reorg, vars
  <2>2. ~Expire
    BY DEF Expire
  <2>3. expired' = expired
    <3>1. CASE \E e \in Endpoints : Advance(e) \/ Reorg(e)
      <4>1. PICK e \in Endpoints : Advance(e) \/ Reorg(e)
        BY <3>1
      <4>2. Advance(e) => expired' = expired
        BY DEF Advance
      <4>3. Reorg(e) => expired' = expired
        BY DEF Reorg
      <4> QED
        BY <4>1, <4>2, <4>3
    <3>2. CASE UNCHANGED vars
      BY <3>2 DEF vars, world
    <3> QED
      BY <1>1, <2>2, <3>1, <3>2 DEF Nodes
  <2> QED
    BY <2>1, <2>3
<1>2. ASSUME Doctor
      PROVE  faults = 0 /\ ~expired
  <2>1. expired' = expired
    BY <1>2, DoctorKeepsWorld, WorldConfig DEF TypeInv
  <2>2. Answered \/ Failed \/ UNCHANGED faults
    BY <1>2 DEF Doctor, Start, ClientVersion, ChainID, BlockNumber, ReferenceBlock,
       CandidateBlock, ReferenceTxCount, CandidateTxCount, SurfaceBlock, ReferenceByHash,
       CandidateByHash, Serves, FetchFails, ServesHash, HashFetchFails, EndProbe, EndSurface, NextBlock
  <2> QED
    BY <1>0, <2>1, <2>2 DEF Answered, Failed
<1>3. faults = 0 /\ ~expired
  BY <1>1, <1>2 DEF Next
<1> QED
  BY <1>3 DEF Failed

LEMMA HealthyBefore ==
    ASSUME TypeInv, [Next]_vars, Healthy'
    PROVE  Healthy /\ UNCHANGED <<config, deployment, branch>> /\ ~Failed
<1>1. faults' = 0 /\ ~expired' /\ reorgs' = 0
  BY DEF Healthy
<1>2. /\ faults = 0 /\ ~expired /\ reorgs = 0 /\ UNCHANGED <<config, deployment, branch>>
      /\ ~Failed
      /\ \A e \in Endpoints : head[e] \in Nat /\ head'[e] \in Nat /\ head[e] <= head'[e]
  BY <1>1, TroubleStays, HeadsOnlyGrow
<1>3. ASSUME NEW n \in Heights, \A e \in Endpoints : n <= head[e]
      PROVE  SameBlock(n) /\ SameTxCount(n)
  <2>1. \A e \in Endpoints : n <= head'[e]
    BY <1>2, <1>3, BoundsAssumption DEF Heights
  <2>2. SameBlock(n)' /\ SameTxCount(n)'
    BY <2>1 DEF Healthy
  <2> QED
    BY <1>2, <2>2 DEF SameBlock, SameTxCount
<1> QED
  BY <1>2, <1>3 DEF Healthy

\* Until a reorg, the nodes have every block that the doctor asks for.
LEMMA CommonBlocks ==
    ASSUME GateInv, LagInv, reorgs = 0, phase \in Comparing, NEW n \in 0 .. CommonHead
    PROVE  n \in Heights /\ \A e \in Endpoints : n <= head[e]
<1>0. DoctorTypeOK /\ WorldTypeOK /\ HeadsKnown
  BY TypeOKParts DEF GateInv, TypeInv
<1>1. \A e \in Endpoints : status[e].head <= head[e]
  BY <1>0 DEF LagInv, HeadsInv, HeadsKnown
<1>2. CommonHead \in Heights /\ \A e \in Endpoints : CommonHead <= status[e].head
  BY <1>0, CommonHeadType DEF DoctorTypeOK, CommonHead
<1>3. \A e \in Endpoints : status[e].head \in Nat /\ head[e] \in Nat
  BY <1>0, BoundsAssumption DEF DoctorTypeOK, WorldTypeOK, StatusType, Heights
<1>4. n \in Heights
  BY <1>2, BoundsAssumption DEF Heights
<1> QED
  BY <1>1, <1>2, <1>3, <1>4, BoundsAssumption DEF Heights

\* A healthy pair has them alike.
LEMMA HealthyCommon ==
    ASSUME GateInv, LagInv, Healthy, phase \in Comparing, NEW n \in 0 .. CommonHead
    PROVE  /\ n \in Heights /\ SameBlock(n) /\ SameTxCount(n)
           /\ \A e \in Endpoints : n <= head[e]
BY CommonBlocks DEF Healthy

LEMMA HealthyFetch ==
    ASSUME GateInv, LagInv, Healthy, ~Failed, phase \in Comparing, NEW n \in 0 .. CommonHead,
           NEW e \in Endpoints
    PROVE  ~FetchFails(e, n)
<1>1. n <= head[e] /\ n \in Nat /\ head[e] \in Nat
  BY HealthyCommon, TypeOKParts, BoundsAssumption
  DEF Heights, GateInv, TypeInv, WorldTypeOK
<1> QED
  BY <1>1 DEF FetchFails

\* The blocks of one history with the hash of its block n are that block alone.
LEMMA HealthyHash ==
    ASSUME OneBlockPerHash, TypeInv, NEW e \in Endpoints, NEW n \in Heights, n <= head[e]
    PROVE  CanonicalWithHash(e, Value[branch[e]][n]["hash"]) = {Value[branch[e]][n]}
<1>1. head[e] \in Heights /\ branch[e] \in Branches
  BY TypeOKParts DEF TypeInv, WorldTypeOK
<1>2. n \in 0 .. head[e] /\ 0 .. head[e] \subseteq Heights
  BY <1>1, BoundsAssumption DEF Heights
<1> QED
  BY <1>1, <1>2 DEF CanonicalWithHash, OneBlockPerHash

(***************************************************************************)
(* Until a reorg, what the reference serves for the hash of its newest     *)
(* common block is that block.                                             *)
(***************************************************************************)
LEMMA HashHeldStep ==
    ASSUME OneBlockPerHash, GateInv, LagInv, HeldForHash, [Next]_vars, reorgs' = 0
    PROVE  HeldForHash'
<1> DEFINE block == Value[branch["reference"]][CommonHead]
<1>0. reorgs = 0 /\ UNCHANGED <<config, deployment, branch>> /\ TypeInv
  BY HeadsOnlyGrow DEF GateInv
<1>1. CASE Nodes \/ UNCHANGED vars
  <2>1. UNCHANGED <<deployment, branch, phase, status, heldBlock>>
    BY <1>0, <1>1, NodesKeepHistory DEF TypeInv
  <2> QED
    BY <2>1 DEF HeldForHash, BlockOf, Reply, CommonHead, LatestCommonHead
<1>2. ASSUME SurfaceBlock \/ ReferenceByHash, phase' = "byHash",
             heldBlock' = Reply("reference", block), heldBlock'["hash"] = block["hash"]
      PROVE  HeldForHash'
  <2>1. UNCHANGED status
    BY <1>2 DEF SurfaceBlock, ReferenceByHash
  <2> QED
    BY <1>0, <1>2, <2>1 DEF HeldForHash, BlockOf, Reply, CommonHead, LatestCommonHead
<1>3. CASE SurfaceBlock
  <2>1. CASE phase' = "done"
    BY <2>1 DEF HeldForHash
  <2>2. CASE /\ BlockOf("reference", CommonHead)["hash"] # Absent
             /\ heldBlock' = BlockOf("reference", CommonHead) /\ phase' = "byHash"
    <3>1. heldBlock'["hash"] = block["hash"]
      BY <2>2 DEF BlockOf, Reply, Fields, RequiredFields
    <3> QED
      BY <1>2, <1>3, <2>2, <3>1 DEF BlockOf
  <2> QED
    BY <1>3, <2>1, <2>2 DEF SurfaceBlock, EndSurface
<1>4. CASE ReferenceByHash
  <2>1. CASE phase' = "done"
    BY <2>1 DEF HeldForHash
  <2>2. ASSUME phase' # "done"
        PROVE  HeldForHash'
    <3>1. PICK v : /\ ServesHash("reference", heldBlock["hash"], v)
                   /\ heldBlock' = Reply("reference", v) /\ UNCHANGED phase
      BY <1>4, <2>2 DEF ReferenceByHash, EndSurface
    <3>2. phase = "byHash" /\ heldBlock = Reply("reference", block) /\ heldBlock["hash"] = block["hash"]
      BY <1>4 DEF ReferenceByHash, HeldForHash, BlockOf
    <3>3. CommonHead \in Heights /\ CommonHead <= head["reference"]
      <4>1. CommonHead \in Heights
        BY <1>0, CommonHeadType, TypeOKParts DEF TypeInv, DoctorTypeOK, CommonHead
      <4>2. CommonHead \in 0 .. CommonHead
        BY <4>1, BoundsAssumption DEF Heights
      <4> QED
        BY <1>0, <3>2, <4>1, <4>2, CommonBlocks DEF Comparing, Endpoints
    <3>4. CanonicalWithHash("reference", heldBlock["hash"]) = {block}
      BY <1>0, <3>2, <3>3, HealthyHash DEF Endpoints
    <3>5. v = block
      BY <3>1, <3>4 DEF ServesHash
    <3> QED
      BY <1>2, <1>4, <3>1, <3>2, <3>5
  <2> QED
    BY <2>1, <2>2
<1>5. CASE \/ Start \/ ClientVersion \/ ChainID \/ BlockNumber \/ ReferenceBlock \/ CandidateBlock
           \/ ReferenceTxCount \/ CandidateTxCount \/ CandidateByHash
  <2>1. phase' # "byHash"
    <3>1. CASE Start \/ ClientVersion \/ ChainID \/ BlockNumber
      BY <3>1 DEF Start, ClientVersion, ChainID, BlockNumber, EndProbe
    <3>2. CASE ReferenceBlock \/ CandidateBlock
      BY <3>2 DEF ReferenceBlock, CandidateBlock, NextBlock
    <3>3. CASE ReferenceTxCount \/ CandidateTxCount \/ CandidateByHash
      BY <3>3 DEF ReferenceTxCount, CandidateTxCount, CandidateByHash, EndSurface
    <3> QED
      BY <1>5, <3>1, <3>2, <3>3
  <2> QED
    BY <2>1 DEF HeldForHash
<1> QED
  BY <1>1, <1>3, <1>4, <1>5 DEF Next, Doctor

-----------------------------------------------------------------------------
(* What a healthy pair gives rise to *)

NewPass == \A f \in findings' \ findings : Passes(f)

LEMMA PassingFindings ==
    /\ \A e, n, s : s # "fail" => Passes(ProbeFinding(e, n, s))
    /\ \A g, n, s, x : s # "fail" => Passes(GroupFinding(g, n, s, x))
    /\ \A id, s, t, x : s # "fail" => Passes(Finding(id, s, t, x))
    /\ \A lag : Passes(HeadLagFinding(lag))
    /\ \A e \in Endpoints : \A family : Passes(ClientFamily(e, family))
    /\ \A e \in Endpoints : Passes(ChainIDFinding(e, deployment[e].chainId))
<1>1. \A id, s, t, x : s # "fail" => Passes(Finding(id, s, t, x))
  BY DEF Passes, Finding
<1>2. \A e, n, s : s # "fail" => Passes(ProbeFinding(e, n, s))
  BY <1>1 DEF ProbeFinding
<1>3. \A g, n, s, x : s # "fail" => Passes(GroupFinding(g, n, s, x))
  BY <1>1 DEF GroupFinding
<1>4. \A lag : Passes(HeadLagFinding(lag))
  BY DEF HeadLagFinding, Passes, Finding
<1>5. \A e \in Endpoints : \A family : Passes(ClientFamily(e, family))
  <2> SUFFICES ASSUME NEW e \in Endpoints, NEW family
               PROVE  Passes(ClientFamily(e, family))
    OBVIOUS
  <2>1. CASE e = "candidate"
    <3>1. ClientFamily(e, family).id = <<"execution", "candidate", "client_family">>
      BY <2>1 DEF ClientFamily, ProbeFinding, Finding
    <3> QED
      BY <3>1 DEF Passes
  <2>2. CASE e # "candidate"
    BY <1>2, <2>2 DEF ClientFamily
  <2> QED
    BY <2>1, <2>2
<1>6. ASSUME NEW e \in Endpoints
      PROVE  Passes(ChainIDFinding(e, deployment[e].chainId))
  <2>1. CASE deployment[e].chainId = config.chainId
    BY <1>2, <2>1 DEF ChainIDFinding
  <2>2. CASE deployment[e].chainId # config.chainId
    <3>1. ChainIDFinding(e, deployment[e].chainId).id = <<"execution", e, "chain_id">>
      BY DEF ChainIDFinding, ProbeFinding, Finding
    <3> QED
      BY <2>2, <3>1 DEF Passes
  <2> QED
    BY <2>1, <2>2
<1> QED
  BY <1>1, <1>2, <1>3, <1>4, <1>5, <1>6

LEMMA EmitPasses ==
    ASSUME NEW fs, Emit(fs), \A f \in fs : Passes(f)
    PROVE  NewPass
BY DEF Emit, NewPass

LEMMA EndProbePasses ==
    ASSUME NEW fs, NEW st, EndProbe(fs, st), \A f \in fs : Passes(f)
    PROVE  NewPass
<1>1. Emit(fs) \/ Emit(fs \cup {HeadLagFinding(HeadLag(st))})
  BY DEF EndProbe
<1>2. \A f \in fs \cup {HeadLagFinding(HeadLag(st))} : Passes(f)
  BY PassingFindings
<1> QED
  BY <1>1, <1>2, EmitPasses

LEMMA NextBlockPasses ==
    ASSUME NEW fs, NEW c, NEW m, NextBlock(fs, c, m), \A f \in fs : Passes(f)
    PROVE  NewPass
<1>1. Emit(fs) \/ Emit(fs \cup BlockVerdict(findings \cup fs, c, m))
  BY DEF NextBlock
<1>2. \A f \in BlockVerdict(findings \cup fs, c, m) : Passes(f)
  BY PassingFindings DEF BlockVerdict, When
<1> QED
  BY <1>1, <1>2, EmitPasses

LEMMA EndSurfacePasses ==
    ASSUME NEW fs, NEW c, EndSurface(fs, c), \A f \in fs : Passes(f)
    PROVE  NewPass
<1> DEFINE matches == When(c > 0 /\ ~SurfaceFailed(findings \cup fs),
                           GroupFinding("rpc_surface", "match", "ok", <<"compared_methods", c>>))
<1>1. Emit(fs \cup matches)
  BY DEF EndSurface
<1>2. \A f \in matches : Passes(f)
  BY PassingFindings DEF When
<1> HIDE DEF matches
<1> QED
  BY <1>1, <1>2, EmitPasses

LEMMA SameReplies ==
    ASSUME NEW v
    PROVE  DifferingFields(Reply("reference", v), Reply("candidate", v)) = {}
BY DEF DifferingFields, Reply, Fields

LEMMA ProbingPasses ==
    ASSUME TypeInv, ~Failed, Start \/ ClientVersion \/ ChainID \/ BlockNumber
    PROVE  NewPass
<1>0. at \in Endpoints
  BY TypeOKParts DEF TypeInv, DoctorTypeOK
<1>1. CASE Start
  <2>1. UNCHANGED findings \/ Emit({Finding(<<"execution", "skipped">>, "warn", "execution", NoSample)})
    BY <1>1 DEF Start
  <2>2. UNCHANGED findings => NewPass
    BY DEF NewPass
  <2> QED
    BY <2>1, <2>2, PassingFindings, EmitPasses
<1>2. CASE ClientVersion
  <2>1. Emit({ProbeFinding(at, "reachable", "ok"), ClientFamily(at, deployment[at].family)})
    BY <1>2 DEF ClientVersion
  <2> QED
    BY <1>0, <2>1, PassingFindings, EmitPasses
<1>3. CASE ChainID
  <2>1. Emit({ChainIDFinding(at, deployment[at].chainId)})
    BY <1>3 DEF ChainID
  <2> QED
    BY <1>0, <2>1, PassingFindings, EmitPasses
<1>4. CASE BlockNumber
  <2>1. \E st : EndProbe({ProbeFinding(at, "head", "ok")}, st)
    BY <1>4 DEF BlockNumber
  <2> QED
    BY <2>1, PassingFindings, EndProbePasses
<1> QED
  BY <1>1, <1>2, <1>3, <1>4

LEMMA ComparingPasses ==
    ASSUME GateInv, LagInv, HeldIsTrue, Healthy, ~Failed,
           ReferenceBlock \/ CandidateBlock \/ ReferenceTxCount \/ CandidateTxCount
    PROVE  NewPass
<1>0. TypeInv /\ CommonHead \in Nat /\ i \in Nat
  BY CommonHeadType, TypeOKParts, BoundsAssumption
  DEF GateInv, TypeInv, DoctorTypeOK, CommonHead, Heights
<1>1. UNCHANGED findings => NewPass
  BY DEF NewPass
<1>2. CASE ReferenceBlock \/ CandidateBlock
  <2> DEFINE n == CommonHead - i
  <2>1. phase = "block" /\ n \in 0 .. CommonHead
    BY <1>0, <1>2 DEF ReferenceBlock, CandidateBlock, TypeInv, LoopInBounds
  <2>2. \A e \in Endpoints : ~FetchFails(e, n)
    BY <2>1, HealthyFetch DEF Comparing
  <2>3. CASE ReferenceBlock
    BY <1>1, <2>2, <2>3 DEF ReferenceBlock, Endpoints
  <2>4. CASE CandidateBlock
    <3>1. DifferingFields(heldBlock, BlockOf("candidate", n)) = {}
      <4>1. SameBlock(n)
        BY <2>1, HealthyCommon DEF Comparing
      <4>2. heldBlock = BlockOf("reference", n)
        BY <2>4 DEF CandidateBlock, HeldIsTrue
      <4> QED
        BY <4>1, <4>2, SameReplies DEF SameBlock, BlockOf
    <3>2. \E c, m : NextBlock({}, c, m)
      BY <2>2, <2>4, <3>1 DEF CandidateBlock, Endpoints, When
    <3> QED
      BY <3>2, NextBlockPasses
  <2> QED
    BY <1>2, <2>3, <2>4
<1>3. CASE ReferenceTxCount \/ CandidateTxCount
  <2>1. phase = "txCount" /\ CommonHead \in 0 .. CommonHead
    BY <1>0, <1>3 DEF ReferenceTxCount, CandidateTxCount
  <2>2. \A e \in Endpoints : ~FetchFails(e, CommonHead)
    BY <2>1, HealthyFetch DEF Comparing
  <2>3. CASE ReferenceTxCount
    BY <1>1, <2>2, <2>3 DEF ReferenceTxCount, Endpoints
  <2>4. CASE CandidateTxCount
    <3>1. heldCount = TxCount[branch["candidate"]][CommonHead]
      <4>1. SameTxCount(CommonHead)
        BY <2>1, HealthyCommon DEF Comparing
      <4> QED
        BY <2>4, <4>1 DEF CandidateTxCount, HeldIsTrue, SameTxCount
    <3>2. Emit({})
      BY <2>2, <2>4, <3>1 DEF CandidateTxCount, Endpoints, When
    <3> QED
      BY <3>2, EmitPasses
  <2> QED
    BY <1>3, <2>3, <2>4
<1> QED
  BY <1>2, <1>3

LEMMA SurfacePasses ==
    ASSUME OneBlockPerHash, GateInv, LagInv, HeldForHash, Healthy, ~Failed,
           SurfaceBlock \/ ReferenceByHash \/ CandidateByHash
    PROVE  NewPass
<1> DEFINE block == Value[branch["reference"]][CommonHead]
<1>0. TypeInv /\ CommonHead \in 0 .. CommonHead /\ phase \in Comparing
  <2>1. TypeInv /\ CommonHead \in Nat
    BY CommonHeadType, TypeOKParts, BoundsAssumption
    DEF GateInv, TypeInv, DoctorTypeOK, CommonHead, Heights
  <2> QED
    BY <2>1 DEF SurfaceBlock, ReferenceByHash, CandidateByHash, Comparing
<1>1. UNCHANGED findings => NewPass
  BY DEF NewPass
<1>2. CommonHead \in Heights /\ SameBlock(CommonHead) /\ \A e \in Endpoints : CommonHead <= head[e]
  BY <1>0, HealthyCommon
<1>3. CASE SurfaceBlock
  <2>1. ~FetchFails("reference", CommonHead)
    BY <1>0, HealthyFetch DEF Endpoints
  <2>2. \/ UNCHANGED findings
        \/ EndSurface({Finding(<<"execution", "rpc_surface", "block_hash_missing">>, "warn",
                              Target["reference"], <<"block_number", CommonHead>>)}, compared)
    BY <1>3, <2>1 DEF SurfaceBlock
  <2> QED
    BY <1>1, <2>2, PassingFindings, EndSurfacePasses
<1>4. ASSUME phase = "byHash", NEW e \in Endpoints
      PROVE  CanonicalWithHash(e, heldBlock["hash"]) = {block}
  <2>1. heldBlock["hash"] = block["hash"] /\ Value[branch[e]][CommonHead] = block
    BY <1>2, <1>4 DEF HeldForHash, SameBlock, Endpoints
  <2> QED
    BY <1>0, <1>2, <2>1, HealthyHash
<1>5. ASSUME phase = "byHash", NEW e \in Endpoints
      PROVE  ~HashFetchFails(e, heldBlock["hash"])
  BY <1>4, <1>5 DEF HashFetchFails
<1>6. CASE ReferenceByHash
  <2>1. UNCHANGED findings
    BY <1>5, <1>6 DEF ReferenceByHash, Endpoints
  <2> QED
    BY <1>1, <2>1
<1>7. CASE CandidateByHash
  <2> DEFINE lacks(x) == When(x # {}, GroupFinding("rpc_surface", "block_by_hash_missing_fields", "warn",
                                                   <<"block_number", CommonHead>>))
             differs(x) == When(x # {}, GroupFinding("rpc_surface", "block_by_hash_mismatch", "fail",
                                                     <<"block_number", CommonHead>>))
  <2>1. phase = "byHash" /\ heldBlock = Reply("reference", block)
    BY <1>7 DEF CandidateByHash, HeldForHash, BlockOf
  <2>2. PICK v : /\ ServesHash("candidate", heldBlock["hash"], v)
                 /\ EndSurface(lacks(MissingFields(heldBlock, Reply("candidate", v)))
                                \cup differs(DifferingFields(heldBlock, Reply("candidate", v))),
                               compared + 1)
    BY <1>5, <1>7, <2>1 DEF CandidateByHash, Endpoints
  <2>3. v = block
    BY <1>4, <2>1, <2>2 DEF ServesHash, Endpoints
  <2>4. DifferingFields(heldBlock, Reply("candidate", v)) = {}
    BY <2>1, <2>3, SameReplies
  <2>5. differs({}) = {} /\ \A x : \A f \in lacks(x) : Passes(f)
    BY PassingFindings DEF When
  <2> HIDE DEF lacks, differs
  <2>6. EndSurface(lacks(MissingFields(heldBlock, Reply("candidate", v))), compared + 1)
    BY <2>2, <2>4, <2>5
  <2> QED
    BY <2>5, <2>6, EndSurfacePasses
<1> QED
  BY <1>3, <1>6, <1>7

LEMMA HealthInvStep ==
    ASSUME NoWrap, OneBlockPerHash, HealthInv, [Next]_vars
    PROVE  HealthInv'
<1>0. GateInv /\ TypeInv /\ LagInv
  BY DEF HealthInv, SoundInv, GateInv
<1>1. SoundInv' /\ LagInv'
  BY <1>0, SoundInvStep, TypeInvStep, HeadsInvStep DEF HealthInv, LagInv
<1>2. reorgs' = 0 => HeldForHash'
  BY <1>0, HeadsOnlyGrow, HashHeldStep DEF HealthInv
<1>3. ASSUME Healthy'
      PROVE  \A f \in findings' : Passes(f)'
  <2>1. Healthy /\ UNCHANGED <<config, deployment, branch>> /\ ~Failed
    BY <1>0, <1>3, HealthyBefore
  <2>2. \A f : Passes(f)' <=> Passes(f)
    BY <2>1 DEF Passes
  <2>3. \A f \in findings : Passes(f)
    BY <2>1, HealthyMeans DEF HealthInv
  <2>4. HeldIsTrue /\ HeldForHash
    BY <2>1 DEF HealthInv, SoundInv, Healthy
  <2>5. NewPass
    <3>1. CASE Nodes \/ UNCHANGED vars
      <4>1. UNCHANGED findings
        BY <3>1 DEF Nodes, Expire, Advance, Reorg, doctor, vars
      <4> QED
        BY <4>1 DEF NewPass
    <3>2. CASE Doctor
      BY <1>0, <2>1, <2>4, <3>2, ProbingPasses, ComparingPasses, SurfacePasses DEF Doctor
    <3> QED
      BY <3>1, <3>2 DEF Next
  <2> QED
    BY <2>2, <2>3, <2>5 DEF NewPass
<1>4. HealthyPairPasses'
  BY <1>3 DEF HealthyPairPasses, Healthy, Passes
<1> QED
  BY <1>1, <1>2, <1>4 DEF HealthInv

(***************************************************************************)
(* A healthy pair passes, for all histories in which no two blocks share a *)
(* hash, however fast its nodes import blocks during the run.              *)
(***************************************************************************)
THEOREM HealthyPairIsPassed ==
    ASSUME NoWrap, OneBlockPerHash
    PROVE  Spec => []HealthyPairPasses
<1>1. ASSUME Init
      PROVE  HealthInv
  <2>1. TypeInv /\ HeadsInv
    BY <1>1, TypeInvInit DEF Init, HeadsInv, Endpoints
  <2>2. HeldForHash /\ HealthyPairPasses
    BY <1>1 DEF Init, HeldForHash, HealthyPairPasses
  <2> QED
    BY <1>1, <2>1, <2>2, SoundInvInit DEF HealthInv, LagInv
<1>2. HealthInv /\ [Next]_vars => HealthInv'
  BY HealthInvStep
<1>3. HealthInv => HealthyPairPasses
  BY DEF HealthInv
<1> QED
  BY <1>1, <1>2, <1>3, PTL DEF Spec

-----------------------------------------------------------------------------
(* What the findings tell of the comparison *)

\* The findings about a block that differs, and about one that was not fetched.
DivergenceOf(n) ==
    GroupFinding("block_compare", "divergence", "fail", <<"block_number", n>>)

Unfetched(n) ==
    \E e \in Endpoints : FetchFailure("block_compare", e, "eth_getBlockByNumber", n) \in findings

SurfaceFaulty(fs) == HasFailFindingPrefix(fs, <<"execution", "rpc_surface">>)

PastCounts == phase \in {"surfaceBlock", "byHash", "done"} /\ HeadsKnown

\* The findings about the lag, and about a divergence, say what was read.
FindingsAreTrue ==
    /\ HeadsKnown => HeadLagFinding(HeadLag(status)) \in findings
    /\ \A f \in findings :
          /\ f.sample[1] = "lag_blocks" => HeadsKnown /\ f = HeadLagFinding(HeadLag(status))
          /\ f.id = DivergenceId => \E n \in examined : f = DivergenceOf(n)

\* No difference that was seen is kept back.
NothingConcealed ==
    /\ \A n \in examined : Agree(n) \/ DivergenceOf(n) \in findings \/ Unfetched(n)
    /\ PastCounts => SameTxCount(CommonHead) \/ SurfaceFaulty(findings)

HonestInv ==
    /\ SoundInv /\ FindingsAreTrue
    /\ reorgs = 0 => NothingConcealed

-----------------------------------------------------------------------------
(* Findings that are neither about the lag nor about a divergence *)

Plain(fs) == \A f \in fs : f.id # DivergenceId /\ f.sample[1] # "lag_blocks"

NewPlain == Plain(findings' \ findings)

LEMMA PlainFindings ==
    /\ \A e \in Endpoints : \A n, s : Plain({ProbeFinding(e, n, s)})
    /\ \A e \in Endpoints : \A g, m, n : m # "lag_blocks" => Plain({FetchFailure(g, e, m, n)})
    /\ \A n, s, x : n # "divergence" /\ x[1] # "lag_blocks" => Plain({GroupFinding("block_compare", n, s, x)})
    /\ \A n, s, x : x[1] # "lag_blocks" => Plain({GroupFinding("rpc_surface", n, s, x)})
    /\ \A n, s, t, x : x[1] # "lag_blocks" => Plain({Finding(<<"execution", "rpc_surface", n>>, s, t, x)})
    /\ \A s, t : Plain({Finding(<<"execution", "skipped">>, s, t, NoSample)})
<1>0. \A id, s, t, x : Finding(id, s, t, x).id = id /\ Finding(id, s, t, x).sample = x
  BY DEF Finding
<1>1. NoSample[1] # "lag_blocks"
  <2>1. NoSample[1] = ""
    BY DEF NoSample
  <2> QED
    BY <2>1
<1>2. \A e \in Endpoints : \A n, s : Plain({ProbeFinding(e, n, s)})
  <2>1. \A e \in Endpoints : \A n : <<"execution", e, n>> # DivergenceId
    BY DEF DivergenceId, Endpoints
  <2>2. ASSUME NEW e \in Endpoints, NEW n, NEW s
        PROVE  Plain({ProbeFinding(e, n, s)})
    <3>1. ProbeFinding(e, n, s).id = <<"execution", e, n>> /\ ProbeFinding(e, n, s).sample = NoSample
      BY <1>0 DEF ProbeFinding
    <3> QED
      BY <1>1, <2>1, <3>1 DEF Plain
  <2> QED
    BY <2>2
<1>3. \A e \in Endpoints : \A g, m, n : m # "lag_blocks" => Plain({FetchFailure(g, e, m, n)})
  <2>1. \A e \in Endpoints : \A g : <<"execution", g, Fetch[e]>> # DivergenceId
    BY DEF DivergenceId, Endpoints, Fetch
  <2>2. \A m, n : <<m, n>>[1] = m
    OBVIOUS
  <2> QED
    BY <1>0, <2>1, <2>2 DEF Plain, FetchFailure
<1>4. \A n, s, x : n # "divergence" /\ x[1] # "lag_blocks" => Plain({GroupFinding("block_compare", n, s, x)})
  <2>1. \A n : n # "divergence" => <<"execution", "block_compare", n>> # DivergenceId
    BY DEF DivergenceId
  <2> QED
    BY <1>0, <2>1 DEF Plain, GroupFinding
<1>5. \A n, s, t, x : x[1] # "lag_blocks" => Plain({Finding(<<"execution", "rpc_surface", n>>, s, t, x)})
  <2>1. \A n : <<"execution", "rpc_surface", n>> # DivergenceId
    BY DEF DivergenceId
  <2> QED
    BY <1>0, <2>1 DEF Plain
<1>6. \A s, t : Plain({Finding(<<"execution", "skipped">>, s, t, NoSample)})
  <2>1. <<"execution", "skipped">> # DivergenceId
    BY DEF DivergenceId
  <2>2. ASSUME NEW s, NEW t
        PROVE  Plain({Finding(<<"execution", "skipped">>, s, t, NoSample)})
    <3>1. /\ Finding(<<"execution", "skipped">>, s, t, NoSample).id = <<"execution", "skipped">>
          /\ Finding(<<"execution", "skipped">>, s, t, NoSample).sample = NoSample
      BY <1>0
    <3> QED
      BY <1>1, <2>1, <3>1 DEF Plain
  <2> QED
    BY <2>2
<1>7. \A n, s, x : x[1] # "lag_blocks" => Plain({GroupFinding("rpc_surface", n, s, x)})
  BY <1>5 DEF GroupFinding
<1> QED
  BY <1>2, <1>3, <1>4, <1>5, <1>6, <1>7

LEMMA PlainUnion ==
    ASSUME NEW fs, NEW gs, Plain(fs), Plain(gs)
    PROVE  Plain(fs \cup gs)
BY DEF Plain

LEMMA WhenPlain ==
    ASSUME NEW cond \in BOOLEAN, NEW f, Plain({f})
    PROVE  Plain(When(cond, f))
BY DEF Plain, When

LEMMA EmitPlain ==
    ASSUME NEW fs, Emit(fs), Plain(fs)
    PROVE  NewPlain
BY DEF Emit, NewPlain, Plain

\* The lag is reported when the second head has been read, and then it is true.
LEMMA EndProbeTells ==
    ASSUME NEW fs, NEW st \in StatusType, EndProbe(fs, st), Plain(fs), at \in Endpoints,
           at = "reference" => ~st["candidate"].headOK, UNCHANGED config
    PROVE  /\ HeadsKnown' => HeadLagFinding(HeadLag(status))' \in findings'
           /\ \A f \in findings' \ findings :
                 /\ f.sample[1] = "lag_blocks" => HeadsKnown' /\ f = HeadLagFinding(HeadLag(status))'
                 /\ f.id # DivergenceId
<1> DEFINE lag == HeadLagFinding(HeadLag(st))
<1>1. status' = st
  BY DEF EndProbe
<1>2. HeadsKnown' <=> st["reference"].headOK /\ st["candidate"].headOK
  BY <1>1 DEF HeadsKnown, Endpoints
<1>3. HeadLagFinding(HeadLag(status))' = lag
  BY <1>1 DEF HeadLagFinding, HeadLag
<1>4. lag.id # DivergenceId
  BY DEF HeadLagFinding, Finding, DivergenceId
<1> HIDE DEF lag
<1>5. CASE Emit(fs) /\ ~HeadsKnown'
  BY <1>5 DEF Emit, Plain
<1>6. CASE Emit(fs \cup {lag}) /\ HeadsKnown'
  BY <1>3, <1>4, <1>6 DEF Emit, Plain
<1>7. \/ Emit(fs) /\ ~HeadsKnown'
      \/ Emit(fs \cup {lag}) /\ HeadsKnown'
  <2>1. CASE at = "reference"
    BY <1>2, <2>1 DEF EndProbe, ProbeOrder
  <2>2. CASE at = "candidate"
    BY <1>2, <2>2 DEF EndProbe, ProbeOrder, lag
  <2> QED
    BY <2>1, <2>2 DEF Endpoints
<1> QED
  BY <1>5, <1>6, <1>7

LEMMA ProbingTells ==
    ASSUME GateInv, FindingsAreTrue, Start \/ ClientVersion \/ ChainID \/ BlockNumber
    PROVE  FindingsAreTrue'
<1>0. /\ at \in Endpoints /\ status \in StatusType /\ head \in [Endpoints -> Heights]
      /\ UNCHANGED config
  BY TypeOKParts
  DEF GateInv, TypeInv, DoctorTypeOK, WorldTypeOK, Start, ClientVersion, ChainID, BlockNumber, world
<1>1. ~status["candidate"].headOK
  BY DEF GateInv, Probing, Start, ClientVersion, ChainID, BlockNumber
<1>2. ~HeadsKnown /\ examined = {}
  BY <1>1 DEF HeadsKnown, examined, Endpoints
<1>3. Plain(findings)
  BY <1>2 DEF FindingsAreTrue, Plain
<1>4. findings \subseteq findings'
  BY FindingsGrow DEF Next, Doctor
<1>5. ASSUME /\ HeadsKnown' => HeadLagFinding(HeadLag(status))' \in findings'
             /\ \A f \in findings' \ findings :
                   /\ f.sample[1] = "lag_blocks" => HeadsKnown' /\ f = HeadLagFinding(HeadLag(status))'
                   /\ f.id # DivergenceId
      PROVE  FindingsAreTrue'
  <2>1. ASSUME NEW f \in findings'
        PROVE  /\ f.sample[1] = "lag_blocks" => HeadsKnown' /\ f = HeadLagFinding(HeadLag(status))'
               /\ f.id # DivergenceId
    BY <1>3, <1>5, <2>1 DEF Plain
  <2> QED
    BY <1>5, <2>1 DEF FindingsAreTrue
<1>6. ASSUME NewPlain, UNCHANGED status
      PROVE  FindingsAreTrue'
  <2>1. ~HeadsKnown'
    BY <1>2, <1>6 DEF HeadsKnown
  <2> QED
    BY <1>5, <1>6, <2>1 DEF NewPlain, Plain
<1>7. CASE Start
  <2>1. UNCHANGED findings \/ Emit({Finding(<<"execution", "skipped">>, "warn", "execution", NoSample)})
    BY <1>7 DEF Start
  <2>2. UNCHANGED findings => NewPlain
    BY DEF NewPlain, Plain
  <2> QED
    BY <1>6, <1>7, <2>1, <2>2, PlainFindings, EmitPlain DEF Start
<1>8. CASE ClientVersion
  <2>1. CASE Emit({ProbeFinding(at, "reachable", "ok"), ClientFamily(at, deployment[at].family)})
    <3>1. Plain({ProbeFinding(at, "reachable", "ok")} \cup {ClientFamily(at, deployment[at].family)})
      BY <1>0, PlainFindings, PlainUnion DEF ClientFamily
    <3>2. Emit({ProbeFinding(at, "reachable", "ok")} \cup {ClientFamily(at, deployment[at].family)})
      BY <2>1 DEF Emit
    <3>3. CASE UNCHANGED status
      BY <1>6, <3>1, <3>2, <3>3, EmitPlain
    <3>4. UNCHANGED status
      BY <1>8 DEF ClientVersion, EndProbe
    <3> QED
      BY <3>3, <3>4
  <2>2. CASE EndProbe({ProbeFinding(at, "reachable", "fail")}, status)
    <3>1. Plain({ProbeFinding(at, "reachable", "fail")})
      BY <1>0, PlainFindings
    <3> QED
      BY <1>0, <1>1, <1>5, <2>2, <3>1, EndProbeTells
  <2> QED
    BY <1>8, <2>1, <2>2 DEF ClientVersion
<1>9. CASE ChainID
  <2>1. \E s : Emit({ProbeFinding(at, "chain_id", s)})
    BY <1>9 DEF ChainID, ChainIDFinding
  <2> QED
    BY <1>0, <1>6, <1>9, <2>1, PlainFindings, EmitPlain DEF ChainID
<1>10. CASE BlockNumber
  <2> DEFINE st == [status EXCEPT ![at] = [headOK |-> TRUE, head |-> head[at]]]
  <2>1. st \in StatusType /\ (at = "reference" => ~st["candidate"].headOK)
    BY <1>0, <1>1 DEF StatusType, Endpoints
  <2>2. \A s : Plain({ProbeFinding(at, "head", s)})
    BY <1>0, PlainFindings
  <2>3. \/ EndProbe({ProbeFinding(at, "head", "ok")}, st)
        \/ EndProbe({ProbeFinding(at, "head", "fail")}, status)
    BY <1>10 DEF BlockNumber
  <2> HIDE DEF st
  <2> QED
    BY <1>0, <1>1, <1>5, <2>1, <2>2, <2>3, EndProbeTells
<1> QED
  BY <1>7, <1>8, <1>9, <1>10

-----------------------------------------------------------------------------
(* The loop over the blocks *)

LEMMA NextBlockExamines ==
    ASSUME NoWrap, GateInv, phase = "block", UNCHANGED <<world, status>>,
           NEW fs, NEW c, NEW m, NextBlock(fs, c, m)
    PROVE  examined' = examined \cup {CommonHead - i}
<1>1. UNCHANGED config
  BY DEF world
<1>2. \/ phase' = "block" /\ i' = i + 1
      \/ phase' = "txCount" /\ ~(i + 1 < Window(status))
  BY DEF NextBlock
<1>3. i \in Nat /\ Window(status) \in Nat /\ i < Window(status)
  BY TypeOKParts, ConfigTyped, WindowType, BoundsAssumption DEF GateInv, TypeInv, DoctorTypeOK, Heights
<1>4. examined' = Passed(i + 1)
  <2>1. examined' = Passed(IF phase' = "block" THEN i' ELSE Window(status))
    BY <1>1, ViewKept
  <2>2. CASE phase' = "block" /\ i' = i + 1
    BY <2>1, <2>2
  <2>3. CASE phase' = "txCount" /\ ~(i + 1 < Window(status))
    <3>1. Window(status) = i + 1
      BY <1>3, <2>3
    <3> QED
      BY <2>1, <2>3, <3>1
  <2> QED
    BY <1>2, <2>2, <2>3
<1>5. examined = Passed(i)
  BY GateView
<1>6. CommonHead \in Nat /\ i <= CommonHead /\ HeadsKnown
  BY CommonHeadType, TypeOKParts, BoundsAssumption
  DEF GateInv, TypeInv, LoopInBounds, DoctorTypeOK, CommonHead, Heights, Comparing
<1> QED
  BY <1>3, <1>4, <1>5, <1>6 DEF Passed

LEMMA NextBlockPlain ==
    ASSUME NEW fs, NEW c \in Nat, NEW m, NextBlock(fs, c, m), NEW f \in findings' \ findings, f \notin fs
    PROVE  f.id # DivergenceId /\ f.sample[1] # "lag_blocks"
<1> DEFINE lacks   == When(m # {}, GroupFinding("block_compare", "missing_fields", "warn", NoSample))
           matches == When(c > 0 /\ ~HasFailFinding(findings \cup fs, DivergenceId),
                           GroupFinding("block_compare", "match", "ok", <<"compared_blocks", c>>))
<1>1. Plain(lacks)
  <2>1. NoSample[1] = ""
    BY DEF NoSample
  <2>2. Plain({GroupFinding("block_compare", "missing_fields", "warn", NoSample)})
    BY <2>1, PlainFindings
  <2> QED
    BY <2>2, WhenPlain
<1>2. Plain(matches)
  <2>1. <<"compared_blocks", c>>[1] = "compared_blocks"
    OBVIOUS
  <2>2. Plain({GroupFinding("block_compare", "match", "ok", <<"compared_blocks", c>>)})
    BY <2>1, PlainFindings
  <2> QED
    BY <2>2, WhenPlain
<1>3. BlockVerdict(findings \cup fs, c, m) = lacks \cup matches
  BY DEF BlockVerdict, DivergenceId
<1>4. Emit(fs) \/ Emit(fs \cup BlockVerdict(findings \cup fs, c, m))
  BY DEF NextBlock
<1> HIDE DEF lacks, matches
<1>5. f \in lacks \cup matches
  BY <1>3, <1>4 DEF Emit
<1> QED
  BY <1>1, <1>2, <1>5 DEF Plain

\* What the end of an iteration adds to the findings, and what it examined.
LEMMA BlockStepNews ==
    ASSUME NoWrap, GateInv, ReferenceBlock \/ CandidateBlock
    PROVE  \/ examined' = examined /\ UNCHANGED findings /\ phase' = "block"
           \/ /\ examined' = examined \cup {CommonHead - i} /\ phase' \in {"block", "txCount"}
              /\ \A f \in findings' \ findings :
                    /\ f.sample[1] # "lag_blocks"
                    /\ f.id = DivergenceId => f = DivergenceOf(CommonHead - i)
              /\ \/ \E e \in Endpoints :
                       FetchFailure("block_compare", e, "eth_getBlockByNumber", CommonHead - i) \in findings'
                 \/ /\ CandidateBlock
                    /\ \/ DivergenceOf(CommonHead - i) \in findings'
                       \/ DifferingFields(heldBlock, BlockOf("candidate", CommonHead - i)) = {}
<1> DEFINE n == CommonHead - i
<1>0. phase = "block" /\ UNCHANGED <<world, status>> /\ UNCHANGED config /\ compared \in Nat /\ compared + 1 \in Nat
  BY TypeOKParts DEF ReferenceBlock, CandidateBlock, world, GateInv, TypeInv, DoctorTypeOK
<1>1. ASSUME NEW e \in Endpoints,
             NextBlock({FetchFailure("block_compare", e, "eth_getBlockByNumber", n)}, compared, missing)
      PROVE  /\ examined' = examined \cup {n} /\ phase' \in {"block", "txCount"}
             /\ \A f \in findings' \ findings : f.sample[1] # "lag_blocks" /\ f.id # DivergenceId
             /\ FetchFailure("block_compare", e, "eth_getBlockByNumber", n) \in findings'
  <2>1. Plain({FetchFailure("block_compare", e, "eth_getBlockByNumber", n)})
    BY PlainFindings
  <2>2. \A f \in findings' \ findings : f.sample[1] # "lag_blocks" /\ f.id # DivergenceId
    <3> DEFINE fs == {FetchFailure("block_compare", e, "eth_getBlockByNumber", n)}
    <3>1. \A f \in fs : f.sample[1] # "lag_blocks" /\ f.id # DivergenceId
      BY <2>1 DEF Plain
    <3>2. NextBlock(fs, compared, missing)
      BY <1>1
    <3> HIDE DEF fs
    <3> QED
      BY <1>0, <3>1, <3>2, NextBlockPlain
  <2>3. /\ phase' \in {"block", "txCount"}
        /\ FetchFailure("block_compare", e, "eth_getBlockByNumber", n) \in findings'
    BY <1>0, <1>1 DEF NextBlock, Emit
  <2> QED
    BY <1>0, <1>1, <2>2, <2>3, NextBlockExamines
<1>2. CASE ReferenceBlock
  <2>1. CASE UNCHANGED <<phase, loop, findings>>
    <3>1. examined' = examined
      BY <1>0, <2>1, ViewKept, GateView DEF loop
    <3> QED
      BY <1>0, <2>1, <3>1
  <2>2. CASE NextBlock({FetchFailure("block_compare", "reference", "eth_getBlockByNumber", n)},
                       compared, missing)
    BY <1>1, <2>2 DEF Endpoints
  <2> QED
    BY <1>2, <2>1, <2>2 DEF ReferenceBlock
<1>3. CASE CandidateBlock
  <2> DEFINE cand  == BlockOf("candidate", n)
             found == When(DifferingFields(heldBlock, cand) # {}, DivergenceOf(n))
  <2>1. CASE NextBlock({FetchFailure("block_compare", "candidate", "eth_getBlockByNumber", n)},
                       compared, missing)
    BY <1>1, <2>1 DEF Endpoints
  <2>2. ASSUME NEW m, NextBlock(found, compared + 1, m)
        PROVE  /\ examined' = examined \cup {n} /\ phase' \in {"block", "txCount"}
               /\ \A f \in findings' \ findings :
                     f.sample[1] # "lag_blocks" /\ (f.id = DivergenceId => f = DivergenceOf(n))
               /\ DivergenceOf(n) \in findings' \/ DifferingFields(heldBlock, cand) = {}
    <3>1. DivergenceOf(n).sample[1] = "block_number"
      BY DEF DivergenceOf, GroupFinding, Finding
    <3>2. \A f \in found : f = DivergenceOf(n)
      BY DEF When
    <3>3. found \subseteq findings' /\ phase' \in {"block", "txCount"}
      BY <1>0, <2>2 DEF NextBlock, Emit
    <3>4. DivergenceOf(n) \in found \/ DifferingFields(heldBlock, cand) = {}
      BY DEF When
    <3> HIDE DEF found
    <3>5. \A f \in findings' \ findings : f \in found \/ (f.sample[1] # "lag_blocks" /\ f.id # DivergenceId)
      BY <1>0, <2>2, NextBlockPlain
    <3>6. examined' = examined \cup {n}
      BY <1>0, <2>2, NextBlockExamines
    <3> QED
      BY <3>1, <3>2, <3>3, <3>4, <3>5, <3>6
  <2>3. \/ NextBlock({FetchFailure("block_compare", "candidate", "eth_getBlockByNumber", n)},
                     compared, missing)
        \/ \E m : NextBlock(found, compared + 1, m)
    BY <1>3 DEF CandidateBlock, DivergenceOf
  <2>4. CASE \E m : NextBlock(found, compared + 1, m)
    <3> HIDE DEF found
    <3>1. PICK m : NextBlock(found, compared + 1, m)
      BY <2>4
    <3>2. /\ examined' = examined \cup {n} /\ phase' \in {"block", "txCount"}
          /\ \A f \in findings' \ findings :
                f.sample[1] # "lag_blocks" /\ (f.id = DivergenceId => f = DivergenceOf(n))
          /\ DivergenceOf(n) \in findings' \/ DifferingFields(heldBlock, cand) = {}
      BY <2>2, <3>1
    <3> QED
      BY <1>3, <3>2
  <2> HIDE DEF found
  <2> QED
    BY <2>1, <2>3, <2>4
<1> QED
  BY <1>2, <1>3

LEMMA BlockStepHonest ==
    ASSUME NoWrap, SoundInv, FindingsAreTrue, ReferenceBlock \/ CandidateBlock
    PROVE  /\ FindingsAreTrue'
           /\ reorgs = 0 /\ NothingConcealed => NothingConcealed'
<1> DEFINE n == CommonHead - i
<1>0. GateInv /\ UNCHANGED <<status, config, deployment, branch>>
  BY DEF ReferenceBlock, CandidateBlock, world, SoundInv
<1>1. findings \subseteq findings'
  BY FindingsGrow DEF Next, Doctor
<1>2. (HeadsKnown' <=> HeadsKnown) /\ HeadLagFinding(HeadLag(status))' = HeadLagFinding(HeadLag(status))
  BY <1>0 DEF HeadsKnown, HeadLagFinding, HeadLag
<1>3. \A m : DivergenceOf(m)' = DivergenceOf(m)
  BY DEF DivergenceOf
<1>4. /\ examined \subseteq examined' /\ examined' \subseteq examined \cup {n}
      /\ phase' \in {"block", "txCount"}
      /\ \A f \in findings' \ findings :
            /\ f.sample[1] # "lag_blocks"
            /\ f.id = DivergenceId => n \in examined' /\ f = DivergenceOf(n)
  BY <1>0, BlockStepNews
<1>5. FindingsAreTrue'
  <2>1. HeadsKnown' => HeadLagFinding(HeadLag(status))' \in findings'
    BY <1>1, <1>2 DEF FindingsAreTrue
  <2>2. ASSUME NEW f \in findings'
        PROVE  /\ f.sample[1] = "lag_blocks" => HeadsKnown' /\ f = HeadLagFinding(HeadLag(status))'
               /\ f.id = DivergenceId => \E m \in examined' : f = DivergenceOf(m)
    <3>1. CASE f \in findings
      BY <1>2, <1>4, <3>1 DEF FindingsAreTrue
    <3>2. CASE f \notin findings
      BY <1>4, <3>2
    <3> QED
      BY <3>1, <3>2
  <2> QED
    BY <1>3, <2>1, <2>2 DEF FindingsAreTrue
<1>6. ASSUME reorgs = 0, NothingConcealed
      PROVE  NothingConcealed'
  <2>1. \A m : Agree(m)' <=> Agree(m)
    BY <1>0, AgreementKept
  <2>2. \A m : Unfetched(m) => Unfetched(m)'
    BY <1>1 DEF Unfetched, FetchFailure
  <2>3. \A m \in examined : Agree(m)' \/ DivergenceOf(m) \in findings' \/ Unfetched(m)'
    BY <1>1, <1>6, <2>1, <2>2 DEF NothingConcealed
  <2>4. ASSUME NEW m \in examined', m \notin examined
        PROVE  Agree(m)' \/ DivergenceOf(m) \in findings' \/ Unfetched(m)'
    <3>0. m = n /\ n \in examined'
      BY <1>4, <2>4
    <3>1. CASE \E e \in Endpoints : FetchFailure("block_compare", e, "eth_getBlockByNumber", n) \in findings'
      <4>1. \E e \in Endpoints : FetchFailure("block_compare", e, "eth_getBlockByNumber", m) \in findings'
        BY <3>0, <3>1
      <4> QED
        BY <4>1 DEF Unfetched, FetchFailure
    <3>2. CASE CandidateBlock /\ DifferingFields(heldBlock, BlockOf("candidate", n)) = {}
      <4>1. heldBlock = BlockOf("reference", n)
        BY <1>6, <3>2 DEF CandidateBlock, HeldIsTrue, SoundInv
      <4>2. Agree(n)
        BY <3>2, <4>1, NoDifferenceAgrees
      <4> QED
        BY <2>1, <3>0, <4>2
    <3>3. CASE DivergenceOf(n) \in findings'
      BY <3>0, <3>3
    <3>4. \/ \E e \in Endpoints :
                FetchFailure("block_compare", e, "eth_getBlockByNumber", n) \in findings'
          \/ DivergenceOf(n) \in findings'
          \/ CandidateBlock /\ DifferingFields(heldBlock, BlockOf("candidate", n)) = {}
      <4>1. n \in examined' \ examined
        BY <2>4, <3>0
      <4> QED
        BY <1>0, <4>1, BlockStepNews
    <3> QED
      BY <3>1, <3>2, <3>3, <3>4
  <2>5. \A m \in examined' : Agree(m)' \/ DivergenceOf(m) \in findings' \/ Unfetched(m)'
    BY <2>3, <2>4
  <2>6. ~PastCounts'
    BY <1>4 DEF PastCounts
  <2> QED
    BY <1>3, <2>5, <2>6 DEF NothingConcealed
<1> QED
  BY <1>5, <1>6

-----------------------------------------------------------------------------
(* The comparison of the RPC surface *)

LEMMA SurfacePlain ==
    ASSUME ReferenceTxCount \/ CandidateTxCount \/ SurfaceBlock \/ ReferenceByHash \/ CandidateByHash
    PROVE  NewPlain
<1>0. \A a, b : <<a, b>>[1] = a
  OBVIOUS
<1>1. \A e \in Endpoints : \A m, n : m # "lag_blocks" => Plain({FetchFailure("rpc_surface", e, m, n)})
  BY PlainFindings
<1>2. "reference" \in Endpoints /\ "candidate" \in Endpoints
  BY DEF Endpoints
<1>3. \A n, s, m, c : m # "lag_blocks" => Plain({GroupFinding("rpc_surface", n, s, <<m, c>>)})
  BY <1>0, PlainFindings
<1>4. UNCHANGED findings => NewPlain
  BY DEF NewPlain, Plain
<1>5. ASSUME NEW fs, NEW c, EndSurface(fs, c), Plain(fs)
      PROVE  NewPlain
  <2> DEFINE matches == When(c > 0 /\ ~SurfaceFailed(findings \cup fs),
                             GroupFinding("rpc_surface", "match", "ok", <<"compared_methods", c>>))
  <2>1. Plain(matches)
    BY <1>3, WhenPlain
  <2>2. Emit(fs \cup matches)
    BY <1>5 DEF EndSurface
  <2> HIDE DEF matches
  <2> QED
    BY <1>5, <2>1, <2>2, PlainUnion, EmitPlain
<1>6. CASE ReferenceTxCount
  <2>1. UNCHANGED findings \/ Emit({FetchFailure("rpc_surface", "reference",
                                        "eth_getBlockTransactionCountByNumber", CommonHead)})
    BY <1>6 DEF ReferenceTxCount
  <2> QED
    BY <1>1, <1>2, <1>4, <2>1, EmitPlain
<1>7. CASE CandidateTxCount
  <2> DEFINE differs(x) == When(x, GroupFinding("rpc_surface", "transaction_count_mismatch", "fail",
                                                <<"block_number", CommonHead>>))
  <2>1. ASSUME NEW x \in BOOLEAN
        PROVE  Plain(differs(x))
    BY <1>3, WhenPlain
  <2>2. \/ Emit(differs(heldCount # TxCount[branch["candidate"]][CommonHead]))
        \/ Emit({FetchFailure("rpc_surface", "candidate",
                              "eth_getBlockTransactionCountByNumber", CommonHead)})
    BY <1>7 DEF CandidateTxCount
  <2>3. (heldCount # TxCount[branch["candidate"]][CommonHead]) \in BOOLEAN
    OBVIOUS
  <2> HIDE DEF differs
  <2> QED
    BY <1>1, <1>2, <2>1, <2>2, <2>3, EmitPlain
<1>8. CASE SurfaceBlock
  <2>1. Plain({Finding(<<"execution", "rpc_surface", "block_hash_missing">>, "warn",
                       Target["reference"], <<"block_number", CommonHead>>)})
    BY <1>0, PlainFindings
  <2>2. \/ UNCHANGED findings
        \/ EndSurface({FetchFailure("rpc_surface", "reference", "eth_getBlockByNumber", CommonHead)}, compared)
        \/ EndSurface({Finding(<<"execution", "rpc_surface", "block_hash_missing">>, "warn",
                               Target["reference"], <<"block_number", CommonHead>>)}, compared)
    BY <1>8 DEF SurfaceBlock
  <2> QED
    BY <1>1, <1>2, <1>4, <1>5, <2>1, <2>2
<1>9. CASE ReferenceByHash
  <2>1. \/ UNCHANGED findings
        \/ EndSurface({FetchFailure("rpc_surface", "reference", "eth_getBlockByHash", CommonHead)}, compared)
    BY <1>9 DEF ReferenceByHash
  <2> QED
    BY <1>1, <1>2, <1>4, <1>5, <2>1
<1>10. CASE CandidateByHash
  <2> DEFINE lacks(x) == When(x # {}, GroupFinding("rpc_surface", "block_by_hash_missing_fields", "warn",
                                                   <<"block_number", CommonHead>>))
             differs(x) == When(x # {}, GroupFinding("rpc_surface", "block_by_hash_mismatch", "fail",
                                                     <<"block_number", CommonHead>>))
  <2>1. ASSUME NEW x
        PROVE  Plain(lacks(x)) /\ Plain(differs(x))
    <3>1. (x # {}) \in BOOLEAN
      OBVIOUS
    <3> QED
      BY <1>3, <3>1, WhenPlain
  <2>2. \/ \E v : EndSurface(lacks(MissingFields(heldBlock, Reply("candidate", v)))
                             \cup differs(DifferingFields(heldBlock, Reply("candidate", v))),
                             compared + 1)
        \/ EndSurface({FetchFailure("rpc_surface", "candidate", "eth_getBlockByHash", CommonHead)}, compared)
    BY <1>10 DEF CandidateByHash
  <2> HIDE DEF lacks, differs
  <2>3. \A x, y : Plain(lacks(x) \cup differs(y))
    BY <2>1, PlainUnion
  <2> QED
    BY <1>1, <1>2, <1>5, <2>2, <2>3
<1> QED
  BY <1>6, <1>7, <1>8, <1>9, <1>10

LEMMA SurfaceStepHonest ==
    ASSUME NoWrap, SoundInv, FindingsAreTrue,
           \/ ReferenceTxCount \/ CandidateTxCount
           \/ SurfaceBlock \/ ReferenceByHash \/ CandidateByHash
    PROVE  /\ FindingsAreTrue'
           /\ reorgs = 0 /\ NothingConcealed => NothingConcealed'
<1>0. /\ GateInv /\ UNCHANGED <<status, i, config, deployment, branch>>
      /\ phase \in {"txCount", "surfaceBlock", "byHash"}
      /\ phase' \in {"txCount", "surfaceBlock", "byHash", "done"}
  BY DEF ReferenceTxCount, CandidateTxCount, SurfaceBlock, ReferenceByHash, CandidateByHash,
         EndSurface, loop, world, SoundInv
<1>1. findings \subseteq findings'
  BY FindingsGrow DEF Next, Doctor
<1>2. /\ CommonHead' = CommonHead /\ (HeadsKnown' <=> HeadsKnown)
      /\ HeadLagFinding(HeadLag(status))' = HeadLagFinding(HeadLag(status))
  BY <1>0 DEF CommonHead, LatestCommonHead, HeadsKnown, HeadLagFinding, HeadLag
<1>3. examined' = examined
  BY <1>0, ViewKept, GateView
<1>4. \A f \in findings' \ findings : f.id # DivergenceId /\ f.sample[1] # "lag_blocks"
  BY SurfacePlain DEF NewPlain, Plain
<1>5. FindingsAreTrue'
  <2>1. HeadsKnown' => HeadLagFinding(HeadLag(status))' \in findings'
    BY <1>1, <1>2 DEF FindingsAreTrue
  <2>2. ASSUME NEW f \in findings'
        PROVE  /\ f.sample[1] = "lag_blocks" => HeadsKnown' /\ f = HeadLagFinding(HeadLag(status))'
               /\ f.id = DivergenceId => \E m \in examined' : f = DivergenceOf(m)
    <3>1. CASE f \in findings
      BY <1>2, <1>3, <3>1 DEF FindingsAreTrue
    <3>2. CASE f \notin findings
      BY <1>4, <3>2
    <3> QED
      BY <3>1, <3>2
  <2>3. \A m : DivergenceOf(m)' = DivergenceOf(m)
    BY DEF DivergenceOf
  <2> QED
    BY <2>1, <2>2, <2>3 DEF FindingsAreTrue
<1>6. ASSUME reorgs = 0, NothingConcealed
      PROVE  NothingConcealed'
  <2>1. \A m : (Agree(m)' <=> Agree(m)) /\ (SameTxCount(m)' <=> SameTxCount(m))
    BY <1>0, AgreementKept
  <2>2. \A m : Unfetched(m) => Unfetched(m)'
    BY <1>1 DEF Unfetched, FetchFailure
  <2>3. \A m : DivergenceOf(m)' = DivergenceOf(m)
    BY DEF DivergenceOf
  <2>4. SurfaceFaulty(findings) => SurfaceFaulty(findings')
    BY <1>1 DEF SurfaceFaulty, HasFailFindingPrefix
  <2>5. ASSUME PastCounts'
        PROVE  SameTxCount(CommonHead) \/ SurfaceFaulty(findings')
    <3>0. \A e, m, n : FetchFailure("rpc_surface", e, m, n) \in findings' => SurfaceFaulty(findings')
      <4>1. \A e, m, n : /\ FetchFailure("rpc_surface", e, m, n).id = <<"execution", "rpc_surface", Fetch[e]>>
                         /\ FetchFailure("rpc_surface", e, m, n).severity = "fail"
        BY DEF FetchFailure, Finding
      <4> QED
        BY <4>1, PrefixOfThree DEF SurfaceFaulty, HasFailFindingPrefix
    <3>1. CASE ReferenceTxCount
      <4>1. FetchFailure("rpc_surface", "reference", "eth_getBlockTransactionCountByNumber", CommonHead)
              \in findings'
        BY <2>5, <3>1 DEF ReferenceTxCount, Emit, PastCounts
      <4> QED
        BY <3>0, <4>1
    <3>2. CASE CandidateTxCount
      <4> DEFINE mismatch == GroupFinding("rpc_surface", "transaction_count_mismatch", "fail",
                                          <<"block_number", CommonHead>>)
      <4>1. CASE Emit({FetchFailure("rpc_surface", "candidate",
                                    "eth_getBlockTransactionCountByNumber", CommonHead)})
        BY <3>0, <4>1 DEF Emit
      <4>2. CASE Emit(When(heldCount # TxCount[branch["candidate"]][CommonHead], mismatch))
        <5>1. heldCount = TxCount[branch["reference"]][CommonHead]
          BY <1>6, <3>2 DEF CandidateTxCount, HeldIsTrue, SoundInv
        <5>2. SameTxCount(CommonHead) \/ mismatch \in findings'
          BY <4>2, <5>1 DEF SameTxCount, Emit, When
        <5>3. /\ mismatch.id = <<"execution", "rpc_surface", "transaction_count_mismatch">>
              /\ mismatch.severity = "fail"
          BY DEF GroupFinding, Finding
        <5> HIDE DEF mismatch
        <5> QED
          BY <5>2, <5>3, PrefixOfThree DEF SurfaceFaulty, HasFailFindingPrefix
      <4> QED
        BY <3>2, <4>1, <4>2 DEF CandidateTxCount
    <3>3. CASE SurfaceBlock \/ ReferenceByHash \/ CandidateByHash
      <4>1. PastCounts
        BY <1>2, <2>5, <3>3 DEF PastCounts, SurfaceBlock, ReferenceByHash, CandidateByHash
      <4> QED
        BY <1>6, <2>4, <4>1 DEF NothingConcealed
    <3> QED
      BY <3>1, <3>2, <3>3
  <2>6. \A m \in examined' : Agree(m)' \/ DivergenceOf(m) \in findings' \/ Unfetched(m)'
    BY <1>1, <1>3, <1>6, <2>1, <2>2 DEF NothingConcealed
  <2>7. PastCounts' => SameTxCount(CommonHead)' \/ SurfaceFaulty(findings')
    <3>1. SameTxCount(CommonHead)' <=> SameTxCount(CommonHead)
      BY <1>0, <1>2 DEF SameTxCount
    <3> QED
      BY <2>5, <3>1
  <2> QED
    BY <2>3, <2>6, <2>7 DEF NothingConcealed
<1> QED
  BY <1>5, <1>6

-----------------------------------------------------------------------------
(* The steps of the nodes, and of the probes *)

LEMMA NodesStepHonest ==
    ASSUME TypeOK, Nodes \/ UNCHANGED vars, FindingsAreTrue
    PROVE  /\ FindingsAreTrue'
           /\ reorgs' = 0 /\ NothingConcealed => NothingConcealed'
<1>1. UNCHANGED <<config, phase, status, i, findings>>
  BY DEF Nodes, Expire, Advance, Reorg, doctor, loop, vars, world
<1>2. /\ CommonHead' = CommonHead /\ examined' = examined /\ (HeadsKnown' <=> HeadsKnown)
      /\ HeadLagFinding(HeadLag(status))' = HeadLagFinding(HeadLag(status))
  BY <1>1 DEF CommonHead, LatestCommonHead, examined, HeadsKnown, Window, HeadLagFinding, HeadLag
<1>3. \A m : DivergenceOf(m)' = DivergenceOf(m) /\ (Unfetched(m)' <=> Unfetched(m))
  BY <1>1 DEF DivergenceOf, Unfetched, FetchFailure
<1>4. FindingsAreTrue'
  <2>1. \A f \in findings' :
           /\ f.sample[1] = "lag_blocks" => HeadsKnown' /\ f = HeadLagFinding(HeadLag(status))'
           /\ f.id = DivergenceId => \E n \in examined' : f = DivergenceOf(n)
    BY <1>1, <1>2 DEF FindingsAreTrue
  <2>2. HeadsKnown' => HeadLagFinding(HeadLag(status))' \in findings'
    BY <1>1, <1>2 DEF FindingsAreTrue
  <2> QED
    BY <1>3, <2>1, <2>2 DEF FindingsAreTrue
<1>5. ASSUME reorgs' = 0, NothingConcealed
      PROVE  NothingConcealed'
  <2>1. UNCHANGED <<deployment, branch>>
    BY <1>5, NodesKeepHistory
  <2>2. \A m : Agree(m)' <=> Agree(m)
    BY <2>1, AgreementKept
  <2>3. SameTxCount(CommonHead)' <=> SameTxCount(CommonHead)
    BY <1>2, <2>1 DEF SameTxCount
  <2>4. (PastCounts' <=> PastCounts) /\ (SurfaceFaulty(findings') <=> SurfaceFaulty(findings))
    BY <1>1, <1>2 DEF PastCounts
  <2>5. \A m \in examined' : Agree(m)' \/ DivergenceOf(m) \in findings' \/ Unfetched(m)'
    BY <1>1, <1>2, <1>3, <1>5, <2>2 DEF NothingConcealed
  <2> QED
    BY <1>3, <1>5, <2>3, <2>4, <2>5 DEF NothingConcealed
<1> QED
  BY <1>4, <1>5

LEMMA HonestInvStep ==
    ASSUME NoWrap, HonestInv, [Next]_vars
    PROVE  HonestInv'
<1>0. SoundInv /\ SoundInv' /\ GateInv /\ GateInv' /\ TypeInv /\ TypeOK /\ FindingsAreTrue
  BY SoundInvStep DEF HonestInv, SoundInv, GateInv, TypeInv
<1>1. reorgs' = 0 => reorgs = 0
  BY <1>0, HeadsOnlyGrow
<1>2. CASE Nodes \/ UNCHANGED vars
  BY <1>0, <1>1, <1>2, NodesStepHonest DEF HonestInv
<1>3. CASE Start \/ ClientVersion \/ ChainID \/ BlockNumber
  <2>1. FindingsAreTrue'
    BY <1>0, <1>3, ProbingTells
  <2>2. examined' = {} /\ ~PastCounts'
    BY <1>0, <1>3, ProbeExaminesNothing DEF PastCounts
  <2> QED
    BY <1>0, <2>1, <2>2 DEF HonestInv, NothingConcealed
<1>4. CASE ReferenceBlock \/ CandidateBlock
  BY <1>0, <1>1, <1>4, BlockStepHonest DEF HonestInv
<1>5. CASE \/ ReferenceTxCount \/ CandidateTxCount
           \/ SurfaceBlock \/ ReferenceByHash \/ CandidateByHash
  BY <1>0, <1>1, <1>5, SurfaceStepHonest DEF HonestInv
<1> QED
  BY <1>2, <1>3, <1>4, <1>5 DEF Next, Doctor

LEMMA HonestInvInit == NoWrap /\ Init => HonestInv
<1> SUFFICES ASSUME NoWrap, Init
             PROVE  HonestInv
  OBVIOUS
<1>1. SoundInv
  BY SoundInvInit
<1>2. findings = {} /\ ~HeadsKnown
  BY DEF Init, HeadsKnown, Endpoints
<1>3. FindingsAreTrue
  BY <1>2 DEF FindingsAreTrue
<1>4. examined = {} /\ ~PastCounts
  BY <1>1, <1>2, GateView DEF SoundInv, PastCounts
<1> QED
  BY <1>1, <1>3, <1>4 DEF HonestInv, NothingConcealed

-----------------------------------------------------------------------------
(* The gauges and their alerts *)

Page == RenderPrometheus(findings, "op")

LagRule ==
    GaugeRule("ExecutionCandidateLaggingReference", "execution_candidate_lag_blocks", "op", <<>>,
              <<">", config.maxLag>>)

BlockRule ==
    GaugeRule("ExecutionBlockComparisonMismatch", "execution_block_compare_match", "op", <<>>, <<"==", 0>>)

SurfaceRule ==
    GaugeRule("ExecutionRPCSurfaceMismatch", "execution_rpc_surface_match", "op", <<>>, <<"==", 0>>)

\* A rule on a gauge without a name selects the series of the chain by its value.
LEMMA ChainSelected ==
    ASSUME NEW r, r.chain = "op", r.name = <<>>, NEW s, s.labels = chainLabels("op")
    PROVE  GaugeSelected(r, s) <=> IF r.op = ">" THEN s.value > r.bound ELSE s.value = r.bound
<1>1. "chain" \in DOMAIN s.labels /\ s.labels["chain"] = "op"
  BY DEF chainLabels
<1>2. LabelIs(s.labels, "chain", r.chain)
  BY <1>1 DEF LabelIs
<1> QED
  BY <1>2 DEF GaugeSelected

LEMMA AlarmsAre ==
    ASSUME NEW rule \in {LagRule, BlockRule, SurfaceRule}
    PROVE  rule.alert \in Alarms <=> \E s \in Page : s.metric = rule.metric /\ GaugeSelected(rule, s)
<1> DEFINE rs == ExecutionRules([chain |-> "op", maxHeadLag |-> config.maxLag])
<1>1. rs = {LagRule, BlockRule, SurfaceRule}
  BY DEF ExecutionRules, LagRule, BlockRule, SurfaceRule
<1>2. Alarms = {x.alert : x \in Instances(rs, Page)}
  BY DEF Alarms, Page
<1>3. /\ LagRule.alert = "ExecutionCandidateLaggingReference"
      /\ LagRule.metric = "execution_candidate_lag_blocks"
  BY GaugeRuleFields DEF LagRule
<1>4. /\ BlockRule.alert = "ExecutionBlockComparisonMismatch"
      /\ BlockRule.metric = "execution_block_compare_match"
  BY GaugeRuleFields DEF BlockRule
<1>5. /\ SurfaceRule.alert = "ExecutionRPCSurfaceMismatch"
      /\ SurfaceRule.metric = "execution_rpc_surface_match"
  BY GaugeRuleFields DEF SurfaceRule
<1> HIDE DEF rs
<1>6. ASSUME NEW r \in rs
      PROVE  /\ r.alert = rule.alert => r = rule
             /\ \A s : s \in Matching(r, Page) <=> s \in Page /\ s.metric = r.metric /\ GaugeSelected(r, s)
  <2>1. r.alert = rule.alert => r = rule
    BY <1>1, <1>3, <1>4, <1>5
  <2>2. r.metric # "finding" /\ r.metric # "op_node_default_refs_number"
    BY <1>1, <1>3, <1>4, <1>5
  <2> QED
    BY <2>1, <2>2 DEF Matching
<1>7. ASSUME rule.alert \in Alarms
      PROVE  \E s \in Page : s.metric = rule.metric /\ GaugeSelected(rule, s)
  <2>1. PICK x \in Instances(rs, Page) : x.alert = rule.alert
    BY <1>2, <1>7
  <2>2. PICK r \in rs : \E s \in Matching(r, Page) : x.alert = r.alert /\ x.labels = s.labels
    BY InstanceOfRule
  <2> QED
    BY <1>6, <2>1, <2>2
<1>8. ASSUME NEW s \in Page, s.metric = rule.metric, GaugeSelected(rule, s)
      PROVE  rule.alert \in Alarms
  <2>1. rule \in rs
    BY <1>1
  <2>2. s \in Matching(rule, Page)
    BY <1>6, <1>8, <2>1
  <2> DEFINE x == [alert |-> rule.alert, wait |-> rule.wait, labels |-> s.labels]
  <2>3. x \in Instances(rs, Page)
    BY <2>1, <2>2 DEF Instances
  <2>4. x.alert = rule.alert
    OBVIOUS
  <2> HIDE DEF x
  <2> QED
    BY <1>2, <2>3, <2>4
<1> QED
  BY <1>7, <1>8

\* The lag alert is raised exactly when the lag of the heads read is too large.
LEMMA LagAlarm ==
    ASSUME FindingsAreTrue, HeadsKnown, TypeOK
    PROVE  "ExecutionCandidateLaggingReference" \in Alarms
              <=> status["reference"].head > status["candidate"].head + config.maxLag
<1> DEFINE lag == HeadLag(status)
           f   == HeadLagFinding(lag)
           s   == Series("execution_candidate_lag_blocks", chainLabels("op"), lag)
<1>1. /\ LagRule.alert = "ExecutionCandidateLaggingReference"
      /\ LagRule.metric = "execution_candidate_lag_blocks"
      /\ LagRule.chain = "op" /\ LagRule.name = <<>> /\ LagRule.op = ">" /\ LagRule.bound = config.maxLag
  BY GaugeRuleFields DEF LagRule
<1>2. /\ f \in findings /\ f.id = <<"execution", "head_lag">> /\ f.sample = <<"lag_blocks", lag>>
      /\ \A g \in findings : g.sample[1] = "lag_blocks" => g = f
  BY DEF FindingsAreTrue, HeadLagFinding, Finding
<1> HIDE DEF f, lag
<1>3. LagFindings(findings, "execution", "head_lag") = {f}
  <2>1. f.id[1] = "execution" /\ f.id[Len(f.id)] = "head_lag" /\ f.sample[1] = "lag_blocks"
    BY <1>2
  <2> QED
    BY <1>2, <2>1 DEF LagFindings
<1>4. ExecutionLagSeries(findings, "op") = {s}
  <2>1. f.sample[2] = lag
    BY <1>2
  <2> QED
    BY <1>3, <2>1 DEF ExecutionLagSeries
<1>5. s.metric = "execution_candidate_lag_blocks" /\ s.labels = chainLabels("op") /\ s.value = lag
  BY DEF Series
<1> HIDE DEF s
<1>6. \A t : t \in Page /\ t.metric = LagRule.metric <=> t = s
  <2>1. \A t \in Page : t.metric = LagRule.metric => t = s
    BY <1>1, <1>4, SeriesOfMetric DEF Page
  <2>2. s \in Page
    BY <1>4 DEF Page, RenderPrometheus, DerivedSeries
  <2> QED
    BY <1>1, <1>5, <2>1, <2>2
<1>7. GaugeSelected(LagRule, s) <=> lag > config.maxLag
  BY <1>1, <1>5, ChainSelected
<1>8. "ExecutionCandidateLaggingReference" \in Alarms <=> lag > config.maxLag
  BY <1>1, <1>6, <1>7, AlarmsAre
<1>9. lag > config.maxLag <=> status["reference"].head > status["candidate"].head + config.maxLag
  <2>1. status["reference"].head \in Nat /\ status["candidate"].head \in Nat /\ config.maxLag \in Nat
    BY TypeOKParts, ConfigTyped DEF DoctorTypeOK, StatusType, ConfigType, Endpoints, Heights
  <2> QED
    BY <2>1 DEF lag, HeadLag
<1> QED
  BY <1>8, <1>9

\* What the derived gauges on comparisons write.
LEMMA MatchSeriesAre ==
    ASSUME NEW rule \in {BlockRule, SurfaceRule}
    PROVE  rule.alert \in Alarms <=>
              0 \in IF rule = BlockRule THEN BlockCompareGauge(findings) ELSE RPCSurfaceGauge(findings)
<1> DEFINE gauge == IF rule = BlockRule THEN BlockCompareGauge(findings) ELSE RPCSurfaceGauge(findings)
           line(v) == Series(rule.metric, chainLabels("op"), v)
<1>1. /\ BlockRule.metric = "execution_block_compare_match"
      /\ BlockRule.chain = "op" /\ BlockRule.name = <<>> /\ BlockRule.op = "==" /\ BlockRule.bound = 0
  BY GaugeRuleFields DEF BlockRule
<1>2. /\ SurfaceRule.metric = "execution_rpc_surface_match"
      /\ SurfaceRule.chain = "op" /\ SurfaceRule.name = <<>> /\ SurfaceRule.op = "==" /\ SurfaceRule.bound = 0
  BY GaugeRuleFields DEF SurfaceRule
<1>3. /\ rule.chain = "op" /\ rule.name = <<>> /\ rule.op # ">" /\ rule.bound = 0
      /\ rule.metric = IF rule = BlockRule THEN "execution_block_compare_match"
                                           ELSE "execution_rpc_surface_match"
  BY <1>1, <1>2
<1>4. \A v : line(v).metric = rule.metric /\ line(v).labels = chainLabels("op") /\ line(v).value = v
  BY DEF Series
<1>5. \A m, v : Series(m, chainLabels("op"), v).metric = m
  BY DEF Series
<1>6. ASSUME NEW s \in MatchSeries(findings, "op"), s.metric = rule.metric
      PROVE  \E v \in gauge : s = line(v)
  <2>1. \/ \E v \in BlockCompareGauge(findings) :
              s = Series("execution_block_compare_match", chainLabels("op"), v)
        \/ \E v \in RPCSurfaceGauge(findings) :
              s = Series("execution_rpc_surface_match", chainLabels("op"), v)
    BY DEF MatchSeries
  <2> QED
    BY <1>3, <1>5, <1>6, <2>1
<1>7. \A v \in gauge : line(v) \in MatchSeries(findings, "op")
  BY <1>3 DEF MatchSeries
<1>8. rule.metric \in {"execution_block_compare_match", "execution_rpc_surface_match"}
  BY <1>3
<1> HIDE DEF gauge, line
<1>9. ASSUME NEW s
      PROVE  s \in Page /\ s.metric = rule.metric <=> \E v \in gauge : s = line(v)
  <2>1. s \in Page /\ s.metric = rule.metric => \E v \in gauge : s = line(v)
    BY <1>6, <1>8, SeriesOfMetric DEF Page
  <2>2. \A v \in gauge : line(v) \in Page
    BY <1>7 DEF Page, RenderPrometheus, DerivedSeries
  <2> QED
    BY <1>4, <2>1, <2>2
<1>10. \A v : GaugeSelected(rule, line(v)) <=> v = 0
  BY <1>3, <1>4, ChainSelected
<1>11. rule.alert \in Alarms <=> \E v \in gauge : v = 0
  BY <1>9, <1>10, AlarmsAre
<1> QED
  BY <1>11 DEF gauge

(***************************************************************************)
(* The alerts on the exported gauges are honest: once both heads were read *)
(* and no node reorganised, the absence of an alert of a mismatch means    *)
(* that the blocks, or the transaction counts, agree, its presence that a  *)
(* block differs, and the lag alert is neither missing nor false, for all  *)
(* histories, heights and configurations.                                  *)
(***************************************************************************)
THEOREM AlertsOnExecutionAreHonest ==
    ASSUME NoWrap
    PROVE  Spec => []ExecutionAlertsAreHonest
<1>1. HonestInv => ExecutionAlertsAreHonest
  <2> SUFFICES ASSUME HonestInv, phase = "done", HeadsKnown, reorgs = 0
               PROVE  /\ "ExecutionBlockComparisonMismatch" \notin Alarms =>
                            \A n \in NewestBlocks :
                                \/ Agree(n)
                                \/ \E e \in Endpoints :
                                      FetchFailure("block_compare", e, "eth_getBlockByNumber", n) \in findings
                      /\ "ExecutionBlockComparisonMismatch" \in Alarms => \E n \in NewestBlocks : ~Agree(n)
                      /\ "ExecutionRPCSurfaceMismatch" \notin Alarms => SameTxCount(CommonHead)
                      /\ "ExecutionCandidateLaggingReference" \in Alarms
                            <=> status["reference"].head > status["candidate"].head + config.maxLag
    BY DEF ExecutionAlertsAreHonest
  <2>1. SoundInv /\ FindingsAreTrue /\ NothingConcealed /\ DivergenceIsReal /\ GateInv /\ TypeOK
    BY DEF HonestInv, SoundInv, GateInv, TypeInv
  <2>2. NewestBlocks = examined
    BY <2>1, GateView DEF wanted
  <2>3. /\ "ExecutionBlockComparisonMismatch" \in Alarms <=> HasFinding(findings, DivergenceId)
        /\ "ExecutionRPCSurfaceMismatch" \in Alarms <=> 0 \in RPCSurfaceGauge(findings)
    <3>1. /\ BlockRule.alert = "ExecutionBlockComparisonMismatch"
          /\ SurfaceRule.alert = "ExecutionRPCSurfaceMismatch"
          /\ BlockRule # SurfaceRule
      BY GaugeRuleFields DEF BlockRule, SurfaceRule
    <3>2. \A n : DivergenceOf(n).severity = "fail"
      BY DEF DivergenceOf, GroupFinding, Finding
    <3>3. HasFinding(findings, DivergenceId) <=> HasFailFinding(findings, DivergenceId)
      BY <2>1, <3>2 DEF HasFinding, HasFailFinding, FindingsAreTrue
    <3>4. 0 \in BlockCompareGauge(findings) <=> HasFinding(findings, DivergenceId)
      BY <3>3 DEF BlockCompareGauge, DivergenceId
    <3> QED
      BY <3>1, <3>4, MatchSeriesAre
  <2>4. ASSUME HasFinding(findings, DivergenceId)
        PROVE  \E n \in NewestBlocks : ~Agree(n)
    <3>1. PICK f \in findings : f.id = DivergenceId
      BY <2>4 DEF HasFinding
    <3>2. PICK n \in examined : f = DivergenceOf(n)
      BY <2>1, <3>1 DEF FindingsAreTrue
    <3>3. f.sample[2] = n
      BY <3>2 DEF DivergenceOf, GroupFinding, Finding
    <3>4. ~Agree(f.sample[2])
      BY <2>1, <3>1 DEF DivergenceIsReal, DivergenceId
    <3> QED
      BY <2>2, <3>3, <3>4
  <2>5. ~HasFinding(findings, DivergenceId) => \A n \in NewestBlocks : Agree(n) \/ Unfetched(n)
    <3>1. \A n : DivergenceOf(n).id = DivergenceId
      BY DEF DivergenceOf, GroupFinding, Finding, DivergenceId
    <3> QED
      BY <2>1, <2>2, <3>1 DEF HasFinding, NothingConcealed
  <2>6. 0 \notin RPCSurfaceGauge(findings) => SameTxCount(CommonHead)
    <3>1. SurfaceFaulty(findings) => 0 \in RPCSurfaceGauge(findings)
      BY DEF SurfaceFaulty, RPCSurfaceGauge, HasFailFindingPrefix, HasFindingPrefix
    <3> QED
      BY <2>1, <3>1 DEF NothingConcealed, PastCounts
  <2> QED
    BY <2>1, <2>3, <2>4, <2>5, <2>6, LagAlarm DEF Unfetched
<1>2. HonestInv /\ [Next]_vars => HonestInv'
  BY HonestInvStep
<1> QED
  BY <1>1, <1>2, HonestInvInit, PTL DEF Spec
=============================================================================
