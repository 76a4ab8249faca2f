--------------------------- MODULE MCAlertPipeline ---------------------------
(***************************************************************************)
(* Small instances of AlertPipeline.  Lags are just below, at and just     *)
(* above the thresholds 1 and 2, which differ between the candidate and    *)
(* proxyd and between configurations.                                      *)
(***************************************************************************)
EXTENDS AlertPipeline

Main ==
    [chain |-> "op", maxHeadLag |-> 1, maxSafeLag |-> 2, proxyd |-> {<<"edge">>},
     followers |-> {[node |-> "light", source |-> "source"]}, issues |-> {}]

\* The operator swaps the thresholds and leaves a single source, of which Validate warns,
\* or leaves out the name of the chain, which Validate rejects, and proxyd.
Swapped == [Main EXCEPT !.maxHeadLag = 2, !.maxSafeLag = 1, !.issues = {"warn"}]
Bare    == [Main EXCEPT !.chain = "", !.proxyd = {}, !.issues = {"fail"}]

State(candidate, proxyd) == [candidate |-> candidate, proxyd |-> proxyd, followerLag |-> 0]

Candidate(lag, forked) == [up |-> TRUE, lag |-> lag, forked |-> forked]
Proxyd(lag)            == [up |-> TRUE, lag |-> lag]

DownCandidate == [up |-> FALSE, lag |-> 0, forked |-> FALSE]
DownProxyd    == [up |-> FALSE, lag |-> 0]

Healthy == State(Candidate(1, FALSE), Proxyd(2))

Lagging == State(Candidate(2, FALSE), Proxyd(2))

Troubled ==
    {State(Candidate(2, FALSE), DownProxyd), State(DownCandidate, Proxyd(3)),
     State(Candidate(2, TRUE), Proxyd(2))}

LaggingFollower == [Healthy EXCEPT !.followerLag = 3]

MCConfigs == {Main, Swapped, Bare}
MCFleets  == Troubled \cup {Healthy, Lagging, LaggingFollower}

\* Overlapping runs; every kind of trouble; edits of doctor.yaml.
MCScenarios ==
    {<<{"r1", "r2"}, {{Main}}, {Healthy, Lagging}>>,
     <<{"r1"}, {{}, {Swapped}, {Bare}}, {Healthy, Lagging}>>}
    \cup {<<{"r1"}, {{Main}}, {Healthy, f}>> : f \in Troubled}

FollowerScenarios == {<<{"r1"}, {{Main}, {}}, {Healthy, LaggingFollower}>>}
=============================================================================
