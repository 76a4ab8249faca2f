--------------------------- MODULE ProxydValidated ---------------------------
(***************************************************************************)
(* Two judges of one proxyd section: Validate, which reads the declared    *)
(* endpoints and backends, and checkProxyd, which meets them at run time   *)
(* and counts the roles of backends in its own way.                        *)
(***************************************************************************)
EXTENDS ProxydCheck, ConfigValidate

EndpointFinding(e, id, severity) ==
    \E f \in findings : /\ f.id = <<"proxyd", config.endpoints[e].name, id>>
                        /\ f.severity = severity

Derivers == {e \in Endpoints : config.endpoints[e].role = "deriver"}

(***************************************************************************)
(* The two judges agree.  If validate accepts op_nodes and proxyd, no      *)
(* backend turns out to be unknown, and a deriver is warned about for its  *)
(* consensus mode, and about the redundancy of its backends, exactly if    *)
(* Validate warned: the counts of entries and of source roles come to the  *)
(* same.  Both warn of an empty list of endpoints.                         *)
(***************************************************************************)
ValidationAgreesWithProxyd ==
    phase = "done" /\ config.enabled =>
        LET issues == OPNodeIssues(config.opNodes)
                      \cup ProxydIssues(config.opNodes, config.endpoints)
            Warned(field) == Issue("warn", field) \in issues
        IN Accepted(issues) =>
             /\ \A e \in Endpoints, b \in Names \cup {"unknown"} :
                   ~HasFinding(findings, <<"proxyd", config.endpoints[e].name, "backend", b>>)
             /\ \A e \in Derivers :
                   /\ EndpointFinding(e, "consensus_aware", "warn")
                        <=> Warned(<<"proxyd.endpoints", e, "consensus_aware">>)
                   /\ (EndpointFinding(e, "backend_roles", "warn")
                          \/ EndpointFinding(e, "backends", "warn"))
                        <=> Warned(<<"proxyd.endpoints", e, "expected_backends">>)
             /\ HasFinding(findings, <<"proxyd", "endpoints">>) <=> Warned(<<"proxyd.endpoints">>)
=============================================================================
