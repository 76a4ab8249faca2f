------------------------------ MODULE RPCCall ------------------------------
(***************************************************************************)
(* The outcome of one network call of the doctor: a JSON-RPC call of       *)
(* rpc.Client, or the scrape of a metrics page by fetchMetrics.  A call    *)
(* ends in a result or in an error, and every call that starts after the   *)
(* deadline of the run's context is an error that reaches no endpoint.     *)
(* The timeout of a single call is one of the errors.                      *)
(***************************************************************************)
EXTENDS Naturals

CONSTANT MaxFaults    \* bound on calls that fail before the deadline

VARIABLES
    expired,          \* has the context's deadline passed?
    faults            \* calls that have failed before the deadline

Answered == ~expired /\ UNCHANGED faults

Failed ==
    \/ expired /\ UNCHANGED faults
    \/ ~expired /\ faults < MaxFaults /\ faults' = faults + 1
=============================================================================
