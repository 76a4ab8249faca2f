------------------------- MODULE ExecutionGateProofs -------------------------
(***************************************************************************)
(* Proof that ExecutionCheck implements MigrationGate, for every instance  *)
(* in which block numbers stay below the last value of a uint64.           *)
(***************************************************************************)
EXTENDS ExecutionGate, ExecutionCheckProofs

LEMMA FailedMeans ==
    ASSUME TypeOK
    PROVE  failed <=> FailIn(findings)
BY ExitCodeFail DEF TypeOK, failed

LEMMA FailedMeansNext ==
    ASSUME TypeOK'
    PROVE  failed' <=> FailIn(findings')
<1>1. IsFiniteSet(findings')
  BY DEF TypeOK
<1> QED
  BY <1>1, ExitCodeFail DEF failed

\* Of what the uint64 arithmetic of the window is about.
NoWrap == MaxHead + 1 < Word

(***************************************************************************)
(* With status st the window is not empty, and covers the requested blocks *)
(* and no other.                                                           *)
(***************************************************************************)
Requested(st) ==
    {n \in 0 .. LatestCommonHead(st) : LatestCommonHead(st) - n < RequestedDepth}

LEMMA WindowCovers ==
    ASSUME NoWrap, NEW st \in StatusType, config \in ConfigType
    PROVE  /\ LatestCommonHead(st) \in Heights
           /\ Window(st) \in Nat /\ Window(st) > 0
           /\ Requested(st) = {n \in 0 .. LatestCommonHead(st) :
                                   LatestCommonHead(st) - n < Window(st)}
           /\ LatestCommonHead(st) \in Requested(st)
           /\ \E low, high \in Heights : low <= high /\ Requested(st) = low .. high
<1> DEFINE c == LatestCommonHead(st)
<1>1. c \in Nat /\ c \in Heights /\ c <= MaxHead
  BY CommonHeadType, BoundsAssumption DEF Heights
<1>2. (c + 1) % Word = c + 1
  BY <1>1, Modulus, BoundsAssumption DEF NoWrap
<1>3. RequestedDepth \in Nat /\ RequestedDepth > 0
  BY DEF RequestedDepth, ConfigType
<1>4. Window(st) = IF RequestedDepth > c + 1 THEN c + 1 ELSE RequestedDepth
  BY <1>2 DEF Window, RequestedDepth
<1>5. Requested(st) = {n \in 0 .. c : c - n < RequestedDepth}
  BY DEF Requested
<1> HIDE DEF c
<1>6. \E low \in Heights : low <= c /\ Requested(st) = low .. c
  <2>1. CASE RequestedDepth > c
    <3>1. Requested(st) = 0 .. c
      BY <1>1, <1>3, <1>5, <2>1
    <3> QED
      BY <1>1, <3>1, BoundsAssumption DEF Heights
  <2>2. CASE ~(RequestedDepth > c)
    <3> DEFINE low == c - RequestedDepth + 1
    <3>1. low \in Heights /\ low <= c
      BY <1>1, <1>3, <2>2, BoundsAssumption DEF Heights
    <3>2. Requested(st) = low .. c
      BY <1>1, <1>3, <1>5, <2>2
    <3> QED
      BY <3>1, <3>2
  <2> QED
    BY <2>1, <2>2
<1>7. Requested(st) = {n \in 0 .. c : c - n < Window(st)}
  BY <1>1, <1>3, <1>4, <1>5
<1>8. c \in Requested(st) /\ Window(st) \in Nat /\ Window(st) > 0
  BY <1>1, <1>3, <1>4, <1>5
<1> QED
  BY <1>1, <1>6, <1>7, <1>8 DEF c

-----------------------------------------------------------------------------
(* The invariant *)

Probing   == {"start", "version", "chainId", "head"}
Comparing == {"block", "txCount", "surfaceBlock", "byHash"}

(***************************************************************************)
(* While the endpoints are probed the candidate's head is not known, and   *)
(* once the candidate is probed a head of the reference that is still not  *)
(* known was reported as a failure.  Comparing begins with both heads      *)
(* known and goes through the whole window.  The check is over without     *)
(* both heads only after a failure or if an endpoint is not configured.    *)
(***************************************************************************)
GateInv ==
    /\ TypeInv
    /\ phase = "start" => findings = {}
    /\ phase \in Probing => ~status["candidate"].headOK
    /\ phase \in Probing \ {"start"} /\ at = "candidate" /\ ~status["reference"].headOK
         => FailIn(findings)
    /\ phase \notin {"start", "done"} => config.urls = Endpoints
    /\ phase \in Comparing => HeadsKnown
    /\ phase = "block" => i < Window(status)
    /\ phase = "done" /\ config.urls = Endpoints => HeadsKnown \/ FailIn(findings)

LEMMA ProbeFindingFails ==
    ASSUME NEW e, NEW n
    PROVE  FailIn({ProbeFinding(e, n, "fail")})
BY FindingsGraded DEF FailIn

LEMMA FindingsGrow ==
    ASSUME [Next]_vars
    PROVE  findings \subseteq findings'
<1>1. CASE Nodes \/ UNCHANGED vars
  BY <1>1 DEF Nodes, Expire, Advance, Reorg, doctor, vars
<1>2. CASE Start \/ ClientVersion \/ ChainID \/ BlockNumber
  BY <1>2 DEF Start, ClientVersion, ChainID, BlockNumber, EndProbe, Emit
<1>3. CASE ReferenceBlock \/ CandidateBlock
  BY <1>3 DEF ReferenceBlock, CandidateBlock, NextBlock, Emit
<1>4. CASE ReferenceTxCount \/ CandidateTxCount
  BY <1>4 DEF ReferenceTxCount, CandidateTxCount, Emit
<1>5. CASE SurfaceBlock \/ ReferenceByHash \/ CandidateByHash
  BY <1>5 DEF SurfaceBlock, ReferenceByHash, CandidateByHash, EndSurface, Emit
<1> QED
  BY <1>1, <1>2, <1>3, <1>4, <1>5 DEF Next, Doctor

(***************************************************************************)
(* The moves of the doctor from phase to phase, as far as the gate sees    *)
(* them.                                                                   *)
(***************************************************************************)
StartMove ==
    /\ phase = "start" /\ UNCHANGED <<status, i>>
    /\ \/ config.urls = Endpoints /\ phase' = "version" /\ at' = "reference"
       \/ config.urls # Endpoints /\ phase' = "done" /\ ~FailIn(findings' \ findings)

ProbeMove ==
    /\ phase \in {"version", "chainId", "head"} /\ UNCHANGED i
    /\ \/ phase' \in {"chainId", "head"} /\ UNCHANGED <<at, status>>
       \/ /\ at = "reference" /\ at' = "candidate" /\ phase' = "version"
          /\ status'["candidate"] = status["candidate"]
          /\ status'["reference"].headOK \/ FailIn(findings')
       \/ /\ at = "candidate" /\ HeadsKnown' /\ phase' = IF Window(status') > 0 THEN "block" ELSE "txCount"
       \/ /\ at = "candidate" /\ ~HeadsKnown' /\ phase' = "done"
          /\ status'["reference"] = status["reference"]
          /\ status'["candidate"].headOK \/ FailIn(findings')

BlockMove ==
    /\ phase = "block" /\ UNCHANGED status
    /\ \/ phase' = "block" /\ UNCHANGED <<i, findings>>
       \/ phase' = "block" /\ i' = i + 1 /\ i + 1 < Window(status)
       \/ phase' = "txCount" /\ ~(i + 1 < Window(status))

SurfaceMove ==
    /\ phase \in {"txCount", "surfaceBlock", "byHash"} /\ UNCHANGED <<status, i>>
    /\ phase' \in {"txCount", "surfaceBlock", "byHash", "done"}

LEMMA EndProbeMove ==
    ASSUME TypeInv, NEW fs, NEW st \in StatusType, EndProbe(fs, st),
           phase \in {"version", "head"},
           \/ st = status /\ FailIn(fs)
           \/ st = [status EXCEPT ![at] = [headOK |-> TRUE, head |-> head[at]]]
    PROVE  ProbeMove
<1>0. at \in Endpoints /\ status \in StatusType
  BY TypeOKParts DEF TypeInv, DoctorTypeOK
<1>1. status' = st /\ UNCHANGED i /\ fs \subseteq findings'
  BY DEF EndProbe, loop, Emit
<1>2. FailIn(fs) => FailIn(findings')
  BY <1>1 DEF FailIn
<1>3. st[at].headOK \/ FailIn(findings')
  BY <1>0, <1>2 DEF StatusType
<1>4. \A e \in Endpoints : e # at => st[e] = status[e]
  BY <1>0 DEF StatusType
<1>5. HeadsKnown' <=> st["reference"].headOK /\ st["candidate"].headOK
  BY <1>1 DEF HeadsKnown, Endpoints
<1>6. CASE at = "reference"
  <2>1. at' = "candidate" /\ phase' = "version"
    BY <1>6 DEF EndProbe, ProbeOrder
  <2>2. status'["candidate"] = status["candidate"]
    BY <1>1, <1>4, <1>6 DEF Endpoints
  <2> QED
    BY <1>1, <1>3, <1>6, <2>1, <2>2 DEF ProbeMove
<1>7. CASE at = "candidate"
  <2>1. status'["reference"] = status["reference"]
    BY <1>1, <1>4, <1>7 DEF Endpoints
  <2>2. phase' = IF st["reference"].headOK /\ st["candidate"].headOK
                 THEN IF Window(st) > 0 THEN "block" ELSE "txCount" ELSE "done"
    BY <1>7 DEF EndProbe, ProbeOrder
  <2>3. CASE HeadsKnown'
    BY <1>1, <1>5, <1>7, <2>2, <2>3 DEF ProbeMove
  <2>4. CASE ~HeadsKnown'
    BY <1>1, <1>3, <1>5, <1>7, <2>1, <2>2, <2>4 DEF ProbeMove
  <2> QED
    BY <2>3, <2>4
<1> QED
  BY <1>0, <1>6, <1>7 DEF Endpoints

LEMMA DoctorMoves ==
    ASSUME TypeInv, Doctor
    PROVE  StartMove \/ ProbeMove \/ BlockMove \/ SurfaceMove
<1>0. DoctorTypeOK /\ WorldTypeOK
  BY TypeOKParts DEF TypeInv
<1>1. CASE Start
  <2>1. CASE config.urls = Endpoints
    BY <1>1, <2>1 DEF Start, StartMove, ProbeOrder, loop
  <2>2. CASE config.urls # Endpoints
    <3>1. ~FailIn(findings' \ findings)
      BY <1>1, <2>2, FindingsGraded DEF Start, Emit, FailIn
    <3> QED
      BY <1>1, <2>2, <3>1 DEF Start, StartMove, loop
  <2> QED
    BY <2>1, <2>2
<1>2. CASE ClientVersion
  <2>1. CASE EndProbe({ProbeFinding(at, "reachable", "fail")}, status)
    BY <1>0, <1>2, <2>1, EndProbeMove, ProbeFindingFails DEF ClientVersion, DoctorTypeOK
  <2>2. CASE phase' = "chainId" /\ UNCHANGED <<at, status, loop, held>>
    BY <1>2, <2>2 DEF ClientVersion, ProbeMove, loop
  <2> QED
    BY <1>2, <2>1, <2>2 DEF ClientVersion
<1>3. CASE ChainID
  BY <1>3 DEF ChainID, ProbeMove, loop
<1>4. CASE BlockNumber
  <2> DEFINE st == [status EXCEPT ![at] = [headOK |-> TRUE, head |-> head[at]]]
  <2>1. st \in StatusType
    BY <1>0 DEF DoctorTypeOK, WorldTypeOK, StatusType
  <2>2. CASE EndProbe({ProbeFinding(at, "head", "ok")}, st)
    BY <1>0, <1>4, <2>1, <2>2, EndProbeMove DEF BlockNumber
  <2>3. CASE EndProbe({ProbeFinding(at, "head", "fail")}, status)
    BY <1>0, <1>4, <2>3, EndProbeMove, ProbeFindingFails DEF BlockNumber, DoctorTypeOK
  <2> QED
    BY <1>4, <2>2, <2>3 DEF BlockNumber
<1>5. CASE ReferenceBlock
  BY <1>5 DEF ReferenceBlock, NextBlock, BlockMove, loop
<1>6. CASE CandidateBlock
  BY <1>6 DEF CandidateBlock, NextBlock, BlockMove
<1>7. CASE ReferenceTxCount \/ CandidateTxCount
  BY <1>7 DEF ReferenceTxCount, CandidateTxCount, SurfaceMove, loop
<1>8. CASE SurfaceBlock \/ ReferenceByHash \/ CandidateByHash
  BY <1>8 DEF SurfaceBlock, ReferenceByHash, CandidateByHash, EndSurface, SurfaceMove
<1> QED
  BY <1>1, <1>2, <1>3, <1>4, <1>5, <1>6, <1>7, <1>8 DEF Doctor

LEMMA GateInvInit == Init => GateInv
<1> SUFFICES ASSUME Init PROVE GateInv
  OBVIOUS
<1>1. TypeInv
  BY TypeInvInit
<1>2. phase = "start" /\ findings = {} /\ ~status["candidate"].headOK
  BY DEF Init, Endpoints
<1> QED
  BY <1>1, <1>2 DEF GateInv, Probing, Comparing

LEMMA GateInvStep ==
    ASSUME NoWrap, GateInv, [Next]_vars
    PROVE  GateInv'
<1>1. TypeInv /\ TypeInv' /\ status' \in StatusType /\ config \in ConfigType
  BY TypeInvStep, TypeOKParts, TypeOKPartsNext, ConfigTyped DEF GateInv, TypeInv, DoctorTypeOK
<1>2. FailIn(findings) => FailIn(findings')
  BY FindingsGrow DEF FailIn
<1>3. CASE Nodes \/ UNCHANGED vars
  <2>1. UNCHANGED <<phase, at, status, i, findings, config>>
    BY <1>3 DEF Nodes, Expire, Advance, Reorg, doctor, loop, vars, world
  <2>2. Window(status)' = Window(status)
    BY <2>1 DEF Window, LatestCommonHead
  <2> QED
    BY <1>1, <2>1, <2>2 DEF GateInv, HeadsKnown
<1>4. CASE Doctor
  <2>1. config' = config
    BY <1>1, <1>4, DoctorKeepsWorld, WorldConfig DEF TypeInv
  <2>2. Window(status)' = Window(status')
    BY <2>1 DEF Window, LatestCommonHead
  <2>3. CASE StartMove
    BY <1>1, <1>2, <2>1, <2>2, <2>3 DEF StartMove, GateInv, HeadsKnown, Probing, Comparing
  <2>4. CASE ProbeMove
    <3>0. Window(status') > 0 /\ i' = 0
      BY <1>1, <2>4, WindowCovers DEF ProbeMove, TypeInv
    <3> QED
      BY <1>1, <1>2, <2>1, <2>2, <2>4, <3>0 DEF ProbeMove, GateInv, HeadsKnown, Probing, Comparing, Endpoints
  <2>5. CASE BlockMove
    BY <1>1, <1>2, <2>1, <2>2, <2>5 DEF BlockMove, GateInv, HeadsKnown, Probing, Comparing
  <2>6. CASE SurfaceMove
    BY <1>1, <1>2, <2>1, <2>2, <2>6 DEF SurfaceMove, GateInv, HeadsKnown, Probing, Comparing
  <2> QED
    BY <1>1, <1>4, <2>3, <2>4, <2>5, <2>6, DoctorMoves
<1> QED
  BY <1>3, <1>4 DEF Next

-----------------------------------------------------------------------------
(* The refinement *)

\* The blocks examined once the loop has come to j blocks below the common head.
Passed(j) == {n \in 0 .. CommonHead : HeadsKnown /\ CommonHead - n < j}

(***************************************************************************)
(* What the gate sees in a state of the check.                             *)
(***************************************************************************)
LEMMA GateView ==
    ASSUME NoWrap, GateInv
    PROVE  /\ ~HeadsKnown => wanted = {} /\ examined = {}
           /\ HeadsKnown => /\ wanted = Passed(Window(status)) /\ wanted # {}
                            /\ \E low, high \in Heights : low <= high /\ wanted = low .. high
           /\ examined = Passed(IF phase = "block" THEN i ELSE Window(status))
<1>1. status \in StatusType /\ config \in ConfigType
  BY TypeOKParts, ConfigTyped DEF GateInv, TypeInv, DoctorTypeOK
<1>2. NewestBlocks = Requested(status)
  BY DEF NewestBlocks, Requested, CommonHead
<1>3. examined = Passed(IF phase = "block" THEN i ELSE Window(status))
  BY DEF examined, Passed
<1>4. ~HeadsKnown => wanted = {} /\ examined = {}
  BY <1>3 DEF wanted, Passed
<1>5. ASSUME HeadsKnown
      PROVE  /\ wanted = Passed(Window(status)) /\ wanted # {}
             /\ \E low, high \in Heights : low <= high /\ wanted = low .. high
  <2>1. wanted = Requested(status)
    BY <1>2, <1>5 DEF wanted
  <2>2. Passed(Window(status)) = Requested(status)
    BY <1>1, <1>5, WindowCovers DEF Passed, CommonHead
  <2> QED
    BY <1>1, <2>1, <2>2, WindowCovers
<1> QED
  BY <1>3, <1>4, <1>5

\* What it sees after a step that leaves status and config alone.
LEMMA ViewKept ==
    ASSUME UNCHANGED <<status, config>>
    PROVE  /\ HeadsKnown' <=> HeadsKnown
           /\ wanted' = wanted
           /\ examined' = Passed(IF phase' = "block" THEN i' ELSE Window(status))
BY DEF HeadsKnown, wanted, NewestBlocks, CommonHead, RequestedDepth, LatestCommonHead,
       examined, Passed, Window

LEMMA FailedGrows ==
    ASSUME GateInv, [Next]_vars
    PROVE  /\ failed <=> FailIn(findings)
           /\ failed' <=> FailIn(findings')
           /\ failed => failed'
<1>1. TypeOK /\ TypeOK'
  BY TypeInvStep DEF GateInv, TypeInv
<1>2. FailIn(findings) => FailIn(findings')
  BY FindingsGrow DEF FailIn
<1> QED
  BY <1>1, <1>2, FailedMeans, FailedMeansNext

LEMMA StutterRefines ==
    ASSUME Nodes \/ UNCHANGED vars
    PROVE  UNCHANGED <<wanted, examined, failed, verdict>>
<1>1. UNCHANGED <<phase, status, i, findings, config>>
  BY DEF Nodes, Expire, Advance, Reorg, doctor, loop, vars, world
<1>2. UNCHANGED <<wanted, failed>> /\ (HeadsKnown' <=> HeadsKnown)
  BY <1>1, ViewKept DEF failed
<1>3. UNCHANGED verdict
  BY <1>1, <1>2 DEF verdict
<1>4. UNCHANGED examined
  BY <1>1 DEF examined, HeadsKnown, CommonHead, LatestCommonHead, Window
<1> QED
  BY <1>2, <1>3, <1>4

LEMMA StartRefines ==
    ASSUME NoWrap, GateInv, GateInv', [Next]_vars, UNCHANGED config, StartMove
    PROVE  Gate!Probe \/ Gate!Skip
<1>1. ~HeadsKnown /\ wanted = {} /\ examined = {} /\ verdict = "none"
  BY GateView DEF GateInv, StartMove, Probing, HeadsKnown, Endpoints, verdict
<1>2. UNCHANGED <<status, config>>
  BY DEF StartMove
<1>3. wanted' = {} /\ examined' = {}
  BY <1>1, <1>2, ViewKept DEF Passed
<1>4. ~failed /\ (failed' <=> FailIn(findings')) /\ (failed => failed')
  BY FailedGrows DEF StartMove, GateInv, FailIn
<1>5. CASE phase' = "version"
  BY <1>1, <1>3, <1>4, <1>5 DEF verdict, Gate!Probe, Gate!MayFail
<1>6. CASE config.urls # Endpoints /\ phase' = "done" /\ ~FailIn(findings' \ findings)
  <2>1. ~failed'
    BY <1>4, <1>6 DEF StartMove, GateInv, FailIn
  <2>2. verdict' = "skipped"
    BY <1>2, <1>6, <2>1 DEF verdict
  <2> QED
    BY <1>1, <1>3, <1>4, <2>1, <2>2 DEF Gate!Skip
<1> QED
  BY <1>5, <1>6 DEF StartMove

LEMMA GateViewNext ==
    ASSUME NoWrap, GateInv', UNCHANGED config
    PROVE  /\ ~HeadsKnown' => wanted' = {} /\ examined' = {}
           /\ HeadsKnown' => \E low, high \in Heights : low <= high /\ wanted' = low .. high
           /\ phase' = "block" /\ i' = 0 => examined' = {}
<1>1. status' \in StatusType /\ config \in ConfigType
  BY TypeOKPartsNext, DataAssumption DEF GateInv, TypeInv, DoctorTypeOK, WorldTypeOK
<1>2. NewestBlocks' = Requested(status')
  BY DEF NewestBlocks, Requested, CommonHead, RequestedDepth, LatestCommonHead
<1>3. ~HeadsKnown' => wanted' = {} /\ examined' = {}
  BY DEF wanted, examined
<1>4. HeadsKnown' => \E low, high \in Heights : low <= high /\ wanted' = low .. high
  BY <1>1, <1>2, WindowCovers DEF wanted
<1>5. phase' = "block" /\ i' = 0 => examined' = {}
  <2>1. CommonHead' \in Nat
    BY <1>1, CommonHeadType, BoundsAssumption DEF CommonHead, Heights, LatestCommonHead
  <2> QED
    BY <2>1 DEF examined
<1> QED
  BY <1>3, <1>4, <1>5

LEMMA ProbeRefines ==
    ASSUME NoWrap, GateInv, GateInv', [Next]_vars, UNCHANGED config, ProbeMove
    PROVE  Gate!Probe \/ Gate!Close
<1>1. ~HeadsKnown /\ wanted = {} /\ examined = {} /\ verdict = "none"
  BY GateView DEF GateInv, ProbeMove, Probing, HeadsKnown, Endpoints, verdict
<1>2. (failed' <=> FailIn(findings')) /\ (failed => failed')
  BY FailedGrows
<1>3. CASE HeadsKnown'
  <2>1. phase' = "block" /\ i' = 0
    <3>1. phase' = IF Window(status') > 0 THEN "block" ELSE "txCount"
      BY <1>3 DEF ProbeMove, GateInv, HeadsKnown, Probing, Endpoints
    <3>2. Window(status') > 0
      BY WindowCovers, TypeOKPartsNext, DataAssumption
      DEF GateInv, TypeInv, DoctorTypeOK, WorldTypeOK
    <3> QED
      BY <3>1, <3>2 DEF ProbeMove, GateInv, TypeInv
  <2>2. examined' = {} /\ verdict' = "none"
    BY <2>1, GateViewNext DEF verdict
  <2>3. \E low, high \in 0 .. MaxHead : low <= high /\ wanted' = low .. high
    BY <1>3, GateViewNext DEF Heights
  <2> QED
    BY <1>1, <1>2, <2>2, <2>3 DEF Gate!Probe, Gate!MayFail
<1>4. CASE ~HeadsKnown'
  <2>1. wanted' = {} /\ examined' = {}
    BY <1>4, GateViewNext
  <2>2. CASE phase' # "done"
    BY <1>1, <1>2, <2>1, <2>2 DEF verdict, Gate!Probe, Gate!MayFail
  <2>3. CASE phase' = "done"
    <3>1. config.urls = Endpoints
      BY DEF GateInv, ProbeMove
    <3>2. failed'
      BY <1>2, <1>4, <2>3, <3>1 DEF GateInv
    <3> QED
      BY <1>1, <2>1, <2>3, <3>2 DEF verdict, Gate!Close
  <2> QED
    BY <2>2, <2>3
<1> QED
  BY <1>3, <1>4

LEMMA BlockRefines ==
    ASSUME NoWrap, GateInv, GateInv', [Next]_vars, UNCHANGED config, BlockMove
    PROVE  [Gate!Next]_(Gate!gate)
<1>1. HeadsKnown /\ phase = "block" /\ verdict = "none" /\ i < Window(status)
  BY DEF BlockMove, GateInv, Comparing, verdict
<1>2. /\ wanted = Passed(Window(status)) /\ examined = Passed(i)
      /\ wanted' = wanted /\ examined' = Passed(IF phase' = "block" THEN i' ELSE Window(status))
  BY <1>1, GateView, ViewKept DEF BlockMove
<1>3. verdict' = "none" /\ (failed => failed')
  BY FailedGrows DEF verdict, BlockMove
<1>4. CommonHead \in Nat /\ i \in Nat /\ i <= CommonHead /\ Window(status) \in Nat
  <2>1. status \in StatusType /\ config \in ConfigType
    BY TypeOKParts, ConfigTyped DEF GateInv, TypeInv, DoctorTypeOK
  <2>2. i \in Nat /\ i <= CommonHead
    BY <1>1, TypeOKParts DEF GateInv, TypeInv, LoopInBounds, DoctorTypeOK, Heights
  <2> QED
    BY <2>1, <2>2, CommonHeadType, WindowCovers DEF CommonHead, Heights
<1>5. CASE UNCHANGED <<i, findings>> /\ phase' = "block"
  <2>1. UNCHANGED <<examined, verdict>>
    BY <1>1, <1>2, <1>3, <1>5
  <2>2. UNCHANGED failed
    BY <1>5 DEF failed
  <2> QED
    BY <1>2, <2>1, <2>2 DEF Gate!gate
<1>6. CASE examined' = Passed(i + 1)
  <2> DEFINE n == CommonHead - i
  <2>1. Passed(i + 1) = Passed(i) \cup {n}
    BY <1>1, <1>4 DEF Passed
  <2>2. n \in wanted \ examined
    BY <1>1, <1>2, <1>4 DEF Passed
  <2>3. \A m \in wanted \ examined : m <= n
    BY <1>1, <1>2, <1>4 DEF Passed
  <2> HIDE DEF n
  <2>4. Gate!Examine
    BY <1>1, <1>2, <1>3, <1>6, <2>1, <2>2, <2>3 DEF Gate!Examine, Gate!MayFail
  <2> QED
    BY <2>4 DEF Gate!Next
<1>7. phase' = "block" /\ i' = i + 1 => examined' = Passed(i + 1)
  BY <1>2
<1>8. phase' = "txCount" /\ ~(i + 1 < Window(status)) => examined' = Passed(i + 1)
  <2>1. ASSUME ~(i + 1 < Window(status)) PROVE Window(status) = i + 1
    BY <1>1, <1>4, <2>1
  <2> QED
    BY <1>2, <2>1
<1> QED
  BY <1>5, <1>6, <1>7, <1>8 DEF BlockMove

LEMMA SurfaceRefines ==
    ASSUME NoWrap, GateInv, GateInv', [Next]_vars, UNCHANGED config, SurfaceMove
    PROVE  Gate!CompareSurface \/ Gate!Open \/ Gate!Close
<1>1. HeadsKnown /\ config.urls = Endpoints /\ phase # "block" /\ phase' # "block"
  BY DEF SurfaceMove, GateInv, Comparing
<1>2. /\ wanted = Passed(Window(status)) /\ wanted # {} /\ examined = wanted
      /\ UNCHANGED <<wanted, examined>>
  BY <1>1, GateView, ViewKept DEF SurfaceMove
<1>3. verdict = "none" /\ (failed => failed')
  BY FailedGrows DEF verdict, SurfaceMove
<1>4. CASE phase' # "done"
  BY <1>2, <1>3, <1>4 DEF verdict, Gate!CompareSurface, Gate!MayFail
<1>5. CASE phase' = "done" /\ failed'
  BY <1>2, <1>3, <1>5 DEF verdict, Gate!Close
<1>6. CASE phase' = "done" /\ ~failed'
  <2>1. verdict' = "open"
    BY <1>1, <1>6 DEF verdict
  <2> QED
    BY <1>2, <1>3, <1>6, <2>1 DEF Gate!Open
<1> QED
  BY <1>4, <1>5, <1>6

LEMMA GateInit == Init => Gate!Init
<1> SUFFICES ASSUME Init PROVE Gate!Init
  OBVIOUS
<1>1. ~HeadsKnown /\ phase = "start" /\ findings = {}
  BY DEF Init, HeadsKnown, Endpoints
<1>2. wanted = {} /\ examined = {} /\ verdict = "none"
  BY <1>1 DEF wanted, examined, verdict
<1>3. ~failed
  BY <1>1, FS_EmptySet, ExitCodeFail DEF failed, FailIn
<1> QED
  BY <1>2, <1>3 DEF Gate!Init

LEMMA GateStep ==
    ASSUME NoWrap, GateInv, GateInv', [Next]_vars
    PROVE  [Gate!Next]_(Gate!gate)
<1>1. CASE Nodes \/ UNCHANGED vars
  BY <1>1, StutterRefines DEF Gate!gate
<1>2. CASE Doctor
  <2>1. UNCHANGED config
    BY <1>2, DoctorKeepsWorld, WorldConfig DEF GateInv, TypeInv
  <2>2. StartMove \/ ProbeMove \/ BlockMove \/ SurfaceMove
    BY <1>2, DoctorMoves DEF GateInv
  <2> QED
    BY <2>1, <2>2, StartRefines, ProbeRefines, BlockRefines, SurfaceRefines DEF Gate!Next
<1> QED
  BY <1>1, <1>2 DEF Next

(***************************************************************************)
(* The execution check is a migration gate.  For every configuration,      *)
(* deployment and history of the nodes, every step of the check is a step  *)
(* of MigrationGate or leaves the gate alone: exit code 0 is reached only  *)
(* through every requested block, in order, with nothing failed.  It is    *)
(* assumed that no node is at the last block number of a uint64: there     *)
(* the window, minHead+1 in the code, wraps to 0 and nothing is compared.  *)
(***************************************************************************)
THEOREM CheckImplementsGate ==
    ASSUME NoWrap
    PROVE  Spec => ImplementsMigrationGate
<1>1. GateInv /\ [Next]_vars => GateInv'
  BY GateInvStep
<1>2. GateInv /\ GateInv' /\ [Next]_vars => [Gate!Next]_(Gate!gate)
  BY GateStep
<1> QED
  BY <1>1, <1>2, GateInvInit, GateInit, PTL DEF Spec, ImplementsMigrationGate, Gate!Spec
=============================================================================
