--------------------------- MODULE ExecutionAlerts ---------------------------
(***************************************************************************)
(* The execution check, the export of its findings and the rules that are  *)
(* generated for its configuration, put together.                          *)
(***************************************************************************)
EXTENDS ExecutionGate, AlertRules

\* The alerts that the page exported for the findings raises.
Alarms ==
    LET page  == RenderPrometheus(findings, "op")
        rules == ExecutionRules([chain |-> "op", maxHeadLag |-> config.maxLag])
    IN {x.alert : x \in Instances(rules, page)}

(***************************************************************************)
(* The alerts on the exported gauges are honest once both heads were read: *)
(* without ExecutionBlockComparisonMismatch every requested block agrees   *)
(* or is reported as not fetched, without ExecutionRPCSurfaceMismatch the  *)
(* transaction counts agree, a mismatch alert means a block that differs,  *)
(* and the lag alert is neither missing nor false for the heads read.      *)
(***************************************************************************)
ExecutionAlertsAreHonest ==
    phase = "done" /\ HeadsKnown /\ reorgs = 0 =>
        LET alarms == Alarms IN
        /\ "ExecutionBlockComparisonMismatch" \notin alarms =>
              \A n \in NewestBlocks :
                  \/ Agree(n)
                  \/ \E e \in Endpoints :
                        FetchFailure("block_compare", e, "eth_getBlockByNumber", n) \in findings
        /\ "ExecutionBlockComparisonMismatch" \in alarms => \E n \in NewestBlocks : ~Agree(n)
        /\ "ExecutionRPCSurfaceMismatch" \notin alarms => SameTxCount(CommonHead)
        /\ "ExecutionCandidateLaggingReference" \in alarms
              <=> status["reference"].head > status["candidate"].head + config.maxLag
=============================================================================
