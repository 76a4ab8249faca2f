---------------------------- MODULE ExecutionGate ----------------------------
(***************************************************************************)
(* The execution check implements MigrationGate.  The gate is the exit     *)
(* code of --fail-on fail; the blocks wanted are those compare_blocks asks *)
(* for below the common head, and those examined are the ones the loop of  *)
(* compareExecutionBlocks has left behind.                                 *)
(***************************************************************************)
EXTENDS ExecutionCheck

HeadsKnown == \A e \in Endpoints : status[e].headOK

wanted == IF HeadsKnown THEN NewestBlocks ELSE {}

examined ==
    {n \in 0 .. CommonHead :
        HeadsKnown /\ CommonHead - n < IF phase = "block" THEN i ELSE Window(status)}

failed == ExitCode(findings, "fail") = 1

verdict ==
    IF phase # "done" THEN "none"
    ELSE IF failed THEN "closed"
    ELSE IF config.urls = Endpoints THEN "open" ELSE "skipped"

Gate == INSTANCE MigrationGate WITH MaxBlock <- MaxHead

(***************************************************************************)
(* Every step of the check, and of the nodes beneath it, is a step of the  *)
(* gate or leaves it alone: no block that compare_blocks asks for is left  *)
(* out or taken out of order, no failure is forgotten, and exit code 0 is  *)
(* reached only with all blocks examined.                                  *)
(***************************************************************************)
ImplementsMigrationGate == Gate!Spec
=============================================================================
