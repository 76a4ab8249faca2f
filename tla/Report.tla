------------------------------- MODULE Report -------------------------------
(***************************************************************************)
(* The findings model that every check of opstack-doctor shares            *)
(* (internal/report): the severity summary, the exit-code gate, and the    *)
(* gauges that the Prometheus exporter derives from a list of findings.    *)
(*                                                                         *)
(* A finding is [id, severity, target, sample].  Its id is the dotted      *)
(* identifier of the code cut at the dots ("execution.head_lag" is         *)
(* <<"execution", "head_lag">>).  Title, observed text, recommendation and *)
(* docs are wording and are left out; of the evidence map, sample keeps    *)
(* the one entry <<key, number>> that tells apart the findings that share  *)
(* an id (the block a divergence is about, the method that failed) or that *)
(* the exporter reads (lag_blocks).  A run's list of findings is a set     *)
(* here: only a configuration that repeats a name makes a check emit the   *)
(* same finding twice, which neither the exit code nor a gauge can tell.   *)
(***************************************************************************)
EXTENDS Integers, FiniteSets, SequencesExt

Severities == {"info", "ok", "warn", "fail"}

Finding(id, severity, target, sample) ==
    [id |-> id, severity |-> severity, target |-> target, sample |-> sample]

NoSample == <<"", 0>>

\* Finding f, when cond holds.
When(cond, f) == IF cond THEN {f} ELSE {}

\* Number of findings of each severity.
Summarize(fs) ==
    [s \in Severities |-> Cardinality({f \in fs : f.severity = s})]

(***************************************************************************)
(* The exit code of a run under --fail-on.  Flag values other than none,   *)
(* fail and warn are a usage error, reported with exit code 2 by main.     *)
(***************************************************************************)
ExitCode(fs, failOn) ==
    LET s == Summarize(fs)
    IN CASE failOn \in {"", "none"} -> 0
         [] failOn = "fail" -> IF s["fail"] > 0 THEN 1 ELSE 0
         [] failOn = "warn" -> IF s["fail"] > 0 \/ s["warn"] > 0 THEN 1 ELSE 0
         [] OTHER -> 2

-----------------------------------------------------------------------------
HasFinding(fs, id) == \E f \in fs : f.id = id

HasFailFinding(fs, id) == \E f \in fs : f.id = id /\ f.severity = "fail"

HasFindingPrefix(fs, prefix) == \E f \in fs : IsPrefix(prefix, f.id)

HasFailFindingPrefix(fs, prefix) ==
    \E f \in fs : IsPrefix(prefix, f.id) /\ f.severity = "fail"

BlockCompareIfMatched(fs) ==
    IF HasFinding(fs, <<"execution", "block_compare", "match">>) THEN {1} ELSE {}

(***************************************************************************)
(* A derived gauge is the set of samples that RenderPrometheus writes for  *)
(* it: the empty set when the series is absent from the export.            *)
(***************************************************************************)
BlockCompareGauge(fs) ==
    LET match      == <<"execution", "block_compare", "match">>
        divergence == <<"execution", "block_compare", "divergence">>
    IN IF ~HasFinding(fs, match) /\ ~HasFinding(fs, divergence) THEN {}
       ELSE IF HasFinding(fs, match) /\ ~HasFailFinding(fs, divergence)
            THEN {1} ELSE {0}

RPCSurfaceGauge(fs) ==
    LET surface == <<"execution", "rpc_surface">>
        match   == <<"execution", "rpc_surface", "match">>
    IN IF ~HasFindingPrefix(fs, surface) THEN {}
       ELSE IF HasFinding(fs, match) /\ ~HasFailFindingPrefix(fs, surface)
            THEN {1} ELSE {0}

(***************************************************************************)
(* The labels of the line opstack_doctor_finding{...} 1 that is written    *)
(* for a finding; the chain label is the same on every line.               *)
(***************************************************************************)
FindingSeries(f) == [id |-> f.id, severity |-> f.severity, target |-> f.target]
=============================================================================
