---------------------------- MODULE InteropAlerts ----------------------------
(***************************************************************************)
(* The interop check, the export of its findings and the rules on them,    *)
(* put together.                                                           *)
(***************************************************************************)
EXTENDS InteropValidated, AlertRules

\* Does the page exported for the findings raise one of the DoctorInterop alerts?
InteropAlarm == Instances(InteropFindingRules, RenderPrometheus(findings, "op")) # {}

(***************************************************************************)
(* The DoctorInterop alerts cover what the check can warn of: if none of   *)
(* them fires, the services and the dependencies are as --fail-on warn     *)
(* demands, and the check warned of nothing but an empty dependency set.   *)
(***************************************************************************)
QuietInteropIsSound ==
    phase = "done" /\ config.enabled /\ ~InteropAlarm =>
        /\ DependenciesAreSound /\ ServicesAreSound
        /\ \A f \in findings : f.severity \in {"warn", "fail"} => f.target = <<"interop", "dependencies">>
=============================================================================
