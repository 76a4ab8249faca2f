--------------------------- MODULE MCTopologyCheck ---------------------------
(***************************************************************************)
(* Small instances of TopologyCheck: fleets of two or three op-nodes, and  *)
(* metrics pages that are healthy, lack safe refs, or report problems.     *)
(***************************************************************************)
EXTENDS TopologyExport

Source(name) ==
    [name |-> name, role |-> "source", follows |-> "", rpc |-> TRUE, metrics |-> TRUE]

Follower(name, role, source) ==
    [name |-> name, role |-> role, follows |-> source, rpc |-> TRUE, metrics |-> TRUE]

Light == Follower("l1", "light", "s1")

Config(nodes) == [opNodes |-> nodes, maxSafeLag |-> 1, minPeerCount |-> 1]

SourceFirst == Config(<<Source("s1"), Light>>)
LightFirst  == Config(<<Light, Source("s1")>>)
TwoSources  == Config(<<Source("s1"), Source("s2")>>)
Redundant   == Config(<<Source("s1"), Source("s2"), Light>>)

\* Incomplete, invalid and ambiguous topologies.
Oddities ==
    {Config(<<Source("s1"), [Light EXCEPT !.rpc = FALSE]>>),
     Config(<<Source("s1"), [Source("s2") EXCEPT !.metrics = FALSE], Light>>),
     Config(<<Follower("l1", "sequencer", "s1"), Source("s1"), Follower("s2", "light", "l1")>>),
     Config(<<Source("s1"), Follower("l1", "other", "s2")>>),
     Config(<<Follower("l1", "light", ""), [Source("s1") EXCEPT !.role = "standalone"]>>),
     Config(<<Source("s1"), Follower("s1", "light", "s1")>>),
     Config(<<>>)}

HealthyPage ==
    [up |-> {1}, refs |-> RefKinds, peer_count |-> {1, 3},
     derivation_errors_total |-> {0}, pipeline_resets_total |-> {0}, rpc_latency |-> {1}]

TroubledPage ==
    [HealthyPage EXCEPT !.up = {0, 1}, !.refs = {"unsafe", "other"}, !.peer_count = {0, 2},
                        !.derivation_errors_total = {1}]

EmptyPage == [m \in DOMAIN HealthyPage |-> {}]

AllServe(c, pg) == <<c, [p \in 1 .. Len(c.opNodes) |-> pg]>>

FirstServes(c, pg) == <<c, [p \in 1 .. Len(c.opNodes) |-> IF p = 1 THEN pg ELSE HealthyPage]>>

MCDeployments ==
    {AllServe(c, HealthyPage) : c \in {SourceFirst, LightFirst, Redundant} \cup Oddities}
    \cup {FirstServes(c, pg) : c \in {LightFirst, TwoSources}, pg \in {TroubledPage, EmptyPage}}

MisorderedFleet == {AllServe(LightFirst, HealthyPage)}
=============================================================================
