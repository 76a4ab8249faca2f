-------------------------- MODULE MCExecutionCheck --------------------------
(***************************************************************************)
(* Small instances of ExecutionCheck.  The branches are                    *)
(*   canon     the history both nodes should be on,                        *)
(*   fork      diverges from canon at height 1: other hashes, state roots  *)
(*             and transaction counts, and other parents above the fork,   *)
(*   badroots  canon as an RPC would serve it that gets the receipts root  *)
(*             of block 1 wrong and keeps its hash.                        *)
(***************************************************************************)
EXTENDS ExecutionAlerts

MCBranches == {"canon", "fork", "badroots"}

MCValue ==
    LET Own(b, n) == IF b = "fork" /\ n >= 1 THEN "fork" ELSE "canon"
        Block(b, n) ==
            [hash             |-> <<"h0", "h1", "h2", "h3">>[n + 1] \o Own(b, n),
             parentHash       |-> IF n = 0 THEN "none"
                                  ELSE <<"h0", "h1", "h2", "h3">>[n] \o Own(b, n - 1),
             stateRoot        |-> <<"s0", "s1", "s2", "s3">>[n + 1] \o Own(b, n),
             transactionsRoot |-> "t",
             receiptsRoot     |-> IF b = "badroots" /\ n = 1 THEN "wrong" ELSE "r"]
    IN [b \in MCBranches |-> [n \in Heights |-> Block(b, n)]]

MCFieldValues == {MCValue[b][n][f] : b \in MCBranches, n \in Heights, f \in Fields}

MCTxCount ==
    [b \in MCBranches |-> [n \in Heights |-> IF b = "fork" /\ n >= 1 THEN 2 ELSE 1]]

Node(family, chainId, omits) == [family |-> family, chainId |-> chainId, omits |-> omits]

Reference == Node("op-geth", 10, {})
Candidate == Node("reth", 10, {})

Pair(r, c) == [reference |-> r, candidate |-> c]

HealthyPair == {Pair(Reference, Candidate)}

\* Nodes of every family, one on another chain, and RPCs that leave out fields.
OmittingPairs ==
    {Pair(Reference, Node("reth", 10, o)) : o \in {{"receiptsRoot"}, {"stateRoot"}, Fields}}
    \cup {Pair(Node("op-geth", 10, {"hash", "receiptsRoot"}), Candidate)}

MixedPairs ==
    OmittingPairs \cup
    {Pair(Reference, Node("op-geth", 10, {})), Pair(Node("other", 11, {}), Candidate),
     Pair(Reference, Node("reth", 11, {}))}

Config(chainId, maxLag, compareBlocks, urls) ==
    [chainId |-> chainId, maxLag |-> maxLag, compareBlocks |-> compareBlocks, urls |-> urls]

WindowConfigs == {Config(10, 1, 2, Endpoints), Config(10, 1, -1, Endpoints)}

MixedConfigs ==
    {Config(10, 1, 1, Endpoints), Config(0, 1, 1, Endpoints),
     Config(10, 1, 1, {"reference"})}
=============================================================================
