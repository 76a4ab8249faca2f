---------------------------- MODULE MCInteropCheck ----------------------------
(***************************************************************************)
(* Small instances of InteropCheck: dependency sets of up to two chains    *)
(* beside the local chain 1, and pages that are healthy, empty, foreign,   *)
(* or report one kind of problem each.                                     *)
(***************************************************************************)
EXTENDS InteropAlerts

Dep2 == [name |-> "two", chainId |-> 2, rpc |-> TRUE, metrics |-> TRUE]
Dep3 == [name |-> "three", chainId |-> 3, rpc |-> TRUE, metrics |-> TRUE]

Full ==
    [enabled |-> TRUE, chainId |-> 1, supervisor |-> TRUE, monitor |-> TRUE,
     expectedChains |-> <<>>, dependencies |-> <<Dep2, Dep3>>]

One == [Full EXCEPT !.dependencies = <<Dep2>>]

\* Disabled, without dependencies or chains, and with dependencies that lack a URL or a chain ID.
Oddities ==
    {[Full EXCEPT !.enabled = FALSE],
     [Full EXCEPT !.dependencies = <<>>, !.chainId = 0],
     [Full EXCEPT !.dependencies[1].rpc = FALSE],
     [Full EXCEPT !.dependencies[1].metrics = FALSE, !.supervisor = FALSE],
     [One EXCEPT !.monitor = FALSE, !.expectedChains = <<1, 3>>],
     [One EXCEPT !.expectedChains = <<1, 0>>], [Full EXCEPT !.dependencies[2].chainId = 0]}

Ref(c, type, value) == [chain |-> c, type |-> type, value |-> value]

\* The refs of chain c, with the cross heads gap below the local ones.
RefsOf(c, local, cross) ==
    {Ref(c, t, local) : t \in {"local_unsafe", "local_safe"}}
    \cup {Ref(c, t, cross) : t \in {"cross_unsafe", "cross_safe"}}

Supervisor(refs) ==
    [up |-> {1}, info |-> TRUE, access_list_verify_failure |-> {0}, refs |-> refs,
     logdb_entries |-> TRUE, rpc_metrics |-> TRUE, other |-> FALSE]

OrderedRefs == RefsOf(1, 4, 3) \cup RefsOf(2, 3, 3)

RefSets ==
    {OrderedRefs, OrderedRefs \cup RefsOf(3, 2, 2),
     RefsOf(1, 4, 3) \cup RefsOf(2, 1, 2),
     RefsOf(1, 1, 2) \cup RefsOf(2, 1, 1),
     RefsOf(1, 4, 3) \cup {Ref(2, "local_unsafe", 1), Ref(2, "local_safe", 1)},
     {Ref(1, "local_safe", 1), Ref(2, "other", 0)}}

Silent ==
    [up |-> {}, info |-> FALSE, access_list_verify_failure |-> {}, refs |-> {},
     logdb_entries |-> FALSE, rpc_metrics |-> FALSE, other |-> FALSE]

SupervisorPages ==
    {Supervisor(refs) : refs \in RefSets}
    \cup {Silent, [Silent EXCEPT !.other = TRUE],
          [Supervisor(OrderedRefs) EXCEPT !.up = {0, 1}],
          [Supervisor(OrderedRefs) EXCEPT !.access_list_verify_failure = {0, 2}]}

Monitor ==
    [up |-> {1}, message_status |-> {[risky |-> TRUE, value |-> 0], [risky |-> FALSE, value |-> 5]},
     terminal_status_changes |-> {0}, block_ranges |-> TRUE, other |-> FALSE]

MonitorPages ==
    {Monitor, [Monitor EXCEPT !.up = {0}], [Monitor EXCEPT !.terminal_status_changes = {1}],
     [Monitor EXCEPT !.message_status = {[risky |-> TRUE, value |-> 1]}],
     [up |-> {}, message_status |-> {}, terminal_status_changes |-> {},
      block_ranges |-> FALSE, other |-> FALSE],
     [up |-> {}, message_status |-> {}, terminal_status_changes |-> {},
      block_ranges |-> FALSE, other |-> TRUE]}

Pages(s, m) == [supervisor |-> s, monitor |-> m]

Honest(c) == [d \in 1 .. Len(c.dependencies) |-> c.dependencies[d].chainId]

Healthy == Pages(Supervisor(OrderedRefs), Monitor)

MCDeployments ==
    {<<c, Healthy, Honest(c)>> : c \in {Full, One} \cup Oddities}
    \cup {<<One, Pages(s, m), Honest(One)>> : s \in SupervisorPages, m \in MonitorPages}
    \cup {<<Full, Healthy, <<2, 2>>>>}

MaskedDeployments == {<<One, Pages(Supervisor(refs), Monitor), Honest(One)>> : refs \in RefSets}
=============================================================================
