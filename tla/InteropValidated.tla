--------------------------- MODULE InteropValidated ---------------------------
(***************************************************************************)
(* Two judges of one interop section: Validate, which reads it alone, and  *)
(* checkInterop, which meets the same declarations at run time.            *)
(***************************************************************************)
EXTENDS InteropCheck, ConfigValidate

(***************************************************************************)
(* The two judges agree.  A dependency whose RPC URL Validate misses is    *)
(* warned about at run time.  If validate accepts the section, then every  *)
(* dependency gets a verdict on its head and on its metrics, none is left  *)
(* out of the chains that op-supervisor is expected to know, and no        *)
(* expectation is one that no deployment can meet (chain 0).               *)
(***************************************************************************)
ValidationAgreesWithInterop ==
    phase = "done" /\ config.enabled =>
        LET issues == InteropIssues(config)
            Has(d, id) == HasFinding(findings, <<"interop", config.dependencies[d].name, id>>)
        IN /\ \A d \in Deps :
                 Issue("fail", <<"interop.dependencies", d, "rpc">>) \in issues => Has(d, "rpc")
           /\ Accepted(issues) =>
                 /\ \A d \in Deps : Has(d, "head") /\ Has(d, "metrics")
                 /\ \A d \in Deps : config.dependencies[d].chainId \in expectedInteropChains
                 /\ 0 \notin ExpectedChains
=============================================================================
