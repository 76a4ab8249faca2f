---------------------------- MODULE MigrationGate ----------------------------
(***************************************************************************)
(* What the execution check promises to an operator who gates a migration  *)
(* on its exit code, without how it gets there.  The check settles which   *)
(* blocks it is to compare, an unbroken range below the common head, and   *)
(* examines each of them once, from the newest to the oldest.  Anything it *)
(* reads may fail the gate, and a gate that failed stays failed.  It opens *)
(* only after every block was examined and nothing has failed.             *)
(***************************************************************************)
EXTENDS Naturals

CONSTANT MaxBlock    \* bound on block numbers

VARIABLES
    wanted,       \* the blocks to compare; none until both heads are known
    examined,     \* those examined so far
    failed,       \* has anything failed?
    verdict       \* "none" until the check is over: "open", "closed" or "skipped"

gate == <<wanted, examined, failed, verdict>>

Init == wanted = {} /\ examined = {} /\ ~failed /\ verdict = "none"

\* Whatever a step reads, it may fail the gate but not mend it.
MayFail == failed => failed'

Probe ==
    /\ verdict = "none" /\ wanted = {}
    /\ MayFail
    /\ \/ UNCHANGED wanted
       \/ \E low, high \in 0 .. MaxBlock : low <= high /\ wanted' = low .. high
    /\ UNCHANGED <<examined, verdict>>

Examine ==
    /\ verdict = "none"
    /\ \E n \in wanted \ examined :
          /\ \A m \in wanted \ examined : m <= n
          /\ examined' = examined \cup {n}
    /\ MayFail
    /\ UNCHANGED <<wanted, verdict>>

\* Further comparisons, of the newest block, once all were examined.
CompareSurface ==
    /\ verdict = "none" /\ wanted # {} /\ examined = wanted
    /\ MayFail
    /\ UNCHANGED <<wanted, examined, verdict>>

Open ==
    /\ verdict = "none" /\ wanted # {} /\ examined = wanted
    /\ ~failed /\ ~failed' /\ verdict' = "open"
    /\ UNCHANGED <<wanted, examined>>

Close ==
    /\ verdict = "none"
    /\ failed' /\ verdict' = "closed"
    /\ UNCHANGED <<wanted, examined>>

\* Nothing is compared if an endpoint is not configured.
Skip ==
    /\ verdict = "none" /\ wanted = {}
    /\ ~failed /\ ~failed' /\ verdict' = "skipped"
    /\ UNCHANGED <<wanted, examined>>

Next == Probe \/ Examine \/ CompareSurface \/ Open \/ Close \/ Skip

Spec == Init /\ [][Next]_gate
=============================================================================
