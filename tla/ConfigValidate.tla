--------------------------- MODULE ConfigValidate ---------------------------
(***************************************************************************)
(* Validate of internal/config/config.go, as far as it judges the op-nodes,*)
(* the proxyd endpoints and the interop section, and what                  *)
(* internal/validate makes of it.  The validate command prints these       *)
(* findings only.  check and export put them first in their report; then   *)
(* the checks judge the same declarations again, by code of their own, and *)
(* add their findings.                                                     *)
(*                                                                         *)
(* An issue is the finding that internal/validate turns it into; its       *)
(* target is the field.  Names are not blank and URLs are well-formed.     *)
(***************************************************************************)
EXTENDS Report

validRoles       == {"source", "light", "sequencer", "standalone"}
validProxydRoles == {"deriver", "edge", "general"}

Issue(severity, field) == Finding(<<"config", field>>, severity, field, NoSample)

NameTaken(xs, p) == \E q \in 1 .. p - 1 : xs[q].name = xs[p].name

NameIssues(list, xs) ==
    {Issue("fail", <<list, p, "name">>) : p \in {q \in DOMAIN xs : NameTaken(xs, q)}}

RoleIssues(list, xs, valid) ==
    {Issue("fail", <<list, p, "role">>) : p \in {q \in DOMAIN xs : xs[q].role \notin valid}}

\* names[name]: of several nodes of one name the map keeps the last.
IsNamed(nodes, name) == \E p \in DOMAIN nodes : nodes[p].name = name
RoleOfNamed(nodes, name) ==
    nodes[Max({p \in DOMAIN nodes : nodes[p].name = name})].role

\* sourceNames is a set: sources of one name count once.
SourceTierIssues(nodes) ==
    When(/\ nodes # <<>>
         /\ Cardinality({nodes[p].name : p \in {q \in DOMAIN nodes : nodes[q].role = "source"}}) < 2,
         Issue("warn", <<"op_nodes">>))

FollowersToJudge(nodes) == {p \in DOMAIN nodes : nodes[p].role \in {"light", "sequencer"}}

FollowsAnyNode(nodes) ==
    {Issue(IF nodes[p].follows = "" THEN "warn" ELSE "fail", <<"op_nodes", p, "follows">>) :
        p \in {q \in FollowersToJudge(nodes) : ~IsNamed(nodes, nodes[q].follows)}}

FollowsIssues(nodes) ==
    {Issue(IF nodes[p].follows = "" THEN "warn" ELSE "fail", <<"op_nodes", p, "follows">>) :
        p \in {q \in FollowersToJudge(nodes) :
                  ~(/\ IsNamed(nodes, nodes[q].follows)
                    /\ RoleOfNamed(nodes, nodes[q].follows) = "source")}}

\* The issues of one op-node on its own.
OPNodeIssues(nodes) ==
    NameIssues("op_nodes", nodes) \cup RoleIssues("op_nodes", nodes, validRoles)

TopologyIssues(nodes) ==
    OPNodeIssues(nodes) \cup SourceTierIssues(nodes) \cup FollowsIssues(nodes)

-----------------------------------------------------------------------------
EndpointIssue(severity, e, field) == Issue(severity, <<"proxyd.endpoints", e, field>>)

DeriverIssues(endpoints) ==
    LET derivers == {e \in DOMAIN endpoints : endpoints[e].role = "deriver"} IN
    {EndpointIssue("warn", e, "consensus_aware") : e \in {d \in derivers : ~endpoints[d].aware}}
    \cup
    {EndpointIssue("warn", e, "expected_backends") :
        e \in {d \in derivers : Len(endpoints[d].backends) < 2}}

\* The verdict on entry name of expected_backends: a severity, or "" for no issue.
NamedBackendVerdict(nodes, role, name) == IF IsNamed(nodes, name) THEN "" ELSE "fail"

ExpectedBackendVerdict(nodes, role, name) ==
    IF ~IsNamed(nodes, name) THEN "fail"
    ELSE CASE role = "deriver" /\ RoleOfNamed(nodes, name) # "source" -> "fail"
           [] role = "edge" /\ RoleOfNamed(nodes, name) = "source"    -> "warn"
           [] OTHER                                                   -> ""

BackendIssues(nodes, endpoints) ==
    LET verdict(e, b) == ExpectedBackendVerdict(nodes, endpoints[e].role, endpoints[e].backends[b])
        entries == UNION {{e} \X DOMAIN endpoints[e].backends : e \in DOMAIN endpoints}
    IN {Issue(verdict(x[1], x[2]), <<"proxyd.endpoints", x[1], "expected_backends", x[2]>>) :
           x \in {y \in entries : verdict(y[1], y[2]) # ""}}

ProxydIssues(nodes, endpoints) ==
    When(endpoints = <<>>, Issue("warn", <<"proxyd.endpoints">>))
    \cup NameIssues("proxyd.endpoints", endpoints)
    \cup RoleIssues("proxyd.endpoints", endpoints, validProxydRoles)
    \cup DeriverIssues(endpoints) \cup BackendIssues(nodes, endpoints)

-----------------------------------------------------------------------------
\* A dependency needs a chain ID and an RPC URL, not a metrics URL.
DependencyChainIssues(deps) ==
    {Issue("fail", <<"interop.dependencies", d, "chain_id">>) :
        d \in {x \in DOMAIN deps : deps[x].chainId = 0}}

DependencyIssues(deps) ==
    DependencyChainIssues(deps)
    \cup {Issue("fail", <<"interop.dependencies", d, "rpc">>) : d \in {x \in DOMAIN deps : ~deps[x].rpc}}

InteropIssues(interop) ==
    {Issue("fail", <<"interop.supervisor.expected_chains", i>>) :
        i \in {x \in DOMAIN interop.expectedChains : interop.expectedChains[x] = 0}}
    \cup DependencyIssues(interop.dependencies)

-----------------------------------------------------------------------------
\* Findings of internal/validate.
ConfigFindings(issues) ==
    IF issues = {} THEN {Finding(<<"config", <<"valid">>>>, "ok", <<"doctor.yaml">>, NoSample)}
    ELSE issues

\* Would validate --fail-on fail accept these issues?
Accepted(issues) == ExitCode(issues, "fail") = 0
=============================================================================
