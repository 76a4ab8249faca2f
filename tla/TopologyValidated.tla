-------------------------- MODULE TopologyValidated --------------------------
(***************************************************************************)
(* Two judges of one topology: Validate, which reads op_nodes alone, and   *)
(* checkTopology, which meets the same declarations on its way through     *)
(* the nodes at run time.                                                  *)
(***************************************************************************)
EXTENDS TopologyCheck, ConfigValidate

\* Does the run report on p's declared source, or the source tier, like this?
DeclaredFinding(p, severity) ==
    Topology(Node(p).name, "follows", severity, <<"op_nodes", Node(p).name>>, NoSample)

TierFinding(severity) ==
    Finding(<<"topology", "source_tier">>, severity, <<"op_nodes">>, NoSample)

(***************************************************************************)
(* The two judges agree.  Whatever Validate says of the source a follower  *)
(* declares, the checks say with the same severity, and nothing else if    *)
(* validate accepts the topology.  Then they also agree on the redundancy  *)
(* of the source tier, unless there are no op-nodes, and nothing in the    *)
(* topology report fails.                                                  *)
(***************************************************************************)
ValidationAgreesWithTopology ==
    phase = "done" =>
        LET issues == TopologyIssues(config.opNodes)
            Judged(p, s) == Issue(s, <<"op_nodes", p, "follows">>) \in issues
        IN /\ \A p \in Followers, s \in {"warn", "fail"} :
                 Judged(p, s) => DeclaredFinding(p, s) \in findings
           /\ Accepted(issues) =>
                 /\ \A p \in Followers, s \in {"warn", "fail"} :
                       DeclaredFinding(p, s) \in findings => Judged(p, s)
                 /\ Deployed # {} =>
                       (TierFinding("warn") \in findings
                          <=> Issue("warn", <<"op_nodes">>) \in issues)
                 /\ \A f \in findings : f.id[1] = "topology" => f.severity # "fail"
=============================================================================
