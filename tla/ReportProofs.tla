----------------------------- MODULE ReportProofs -----------------------------
(***************************************************************************)
(* What the proofs about the checks share: findings have one of the four   *)
(* severities, and an exit code of 0 says which ones are absent; a finite  *)
(* set of numbers has a maximum; a loop over a sequence has the values its *)
(* steps give it; a rule on findings fires for exactly the findings that   *)
(* it selects; an accepted configuration has no failing issue and no name  *)
(* twice.                                                                  *)
(***************************************************************************)
EXTENDS AlertRules, ConfigValidate, FiniteSetTheorems, WellFoundedInduction, TLAPS

Graded(fs) == IsFiniteSet(fs) /\ \A f \in fs : f.severity \in Severities

FailIn(fs) == \E f \in fs : f.severity = "fail"

Bad(fs) == \E f \in fs : f.severity \in {"warn", "fail"}

LEMMA SingletonGraded ==
    ASSUME NEW f, f.severity \in Severities
    PROVE  Graded({f})
BY FS_Singleton DEF Graded

LEMMA FindingGraded ==
    ASSUME NEW id, NEW severity, severity \in Severities, NEW target, NEW sample
    PROVE  Graded({Finding(id, severity, target, sample)})
BY SingletonGraded DEF Finding

LEMMA GradedUnion ==
    ASSUME NEW S, NEW T, Graded(S), Graded(T)
    PROVE  Graded(S \cup T)
<1>1. IsFiniteSet(S \cup T)
  BY FS_Union DEF Graded
<1> QED
  BY <1>1 DEF Graded

LEMMA GradedPair ==
    ASSUME NEW x, NEW S, Graded({x}), Graded(S)
    PROVE  Graded({x} \cup S)
BY GradedUnion

LEMMA GradedEmpty == Graded({})
BY FS_EmptySet DEF Graded

\* Findings of one severity are counted if and only if there are some.
LEMMA NoneOfSeverity ==
    ASSUME NEW fs, IsFiniteSet(fs), NEW s \in Severities
    PROVE  /\ Summarize(fs)[s] \in Nat
           /\ Summarize(fs)[s] = 0 <=> \A f \in fs : f.severity # s
<1> DEFINE some == {f \in fs : f.severity = s}
<1>1. IsFiniteSet(some)
  BY FS_Subset
<1>2. Cardinality(some) \in Nat /\ (Cardinality(some) = 0 <=> some = {})
  BY <1>1, FS_CardinalityType, FS_EmptySet
<1>3. Summarize(fs)[s] = Cardinality(some)
  BY DEF Summarize
<1> QED
  BY <1>2, <1>3

(***************************************************************************)
(* The exit code under --fail-on warn is 0 only if nothing warns or fails. *)
(***************************************************************************)
LEMMA ExitCodeWarn ==
    ASSUME NEW fs, IsFiniteSet(fs), ExitCode(fs, "warn") = 0
    PROVE  ~Bad(fs)
<1>1. ExitCode(fs, "warn") =
        IF Summarize(fs)["fail"] > 0 \/ Summarize(fs)["warn"] > 0 THEN 1 ELSE 0
  BY DEF ExitCode
<1>2. Summarize(fs)["fail"] \in Nat /\ Summarize(fs)["warn"] \in Nat
  BY NoneOfSeverity DEF Severities
<1>3. Summarize(fs)["fail"] = 0 /\ Summarize(fs)["warn"] = 0
  BY <1>1, <1>2
<1>4. \A f \in fs : f.severity # "fail" /\ f.severity # "warn"
  BY <1>3, NoneOfSeverity DEF Severities
<1> QED
  BY <1>4 DEF Bad

(***************************************************************************)
(* The exit code under --fail-on fail is 1 if and only if something fails. *)
(***************************************************************************)
LEMMA ExitCodeFail ==
    ASSUME NEW fs, IsFiniteSet(fs)
    PROVE  ExitCode(fs, "fail") = 1 <=> FailIn(fs)
<1>1. ExitCode(fs, "fail") = IF Summarize(fs)["fail"] > 0 THEN 1 ELSE 0
  BY DEF ExitCode
<1>2. /\ Summarize(fs)["fail"] \in Nat
      /\ Summarize(fs)["fail"] = 0 <=> \A f \in fs : f.severity # "fail"
  BY NoneOfSeverity DEF Severities
<1> QED
  BY <1>1, <1>2 DEF FailIn

\* What is not bad now was not bad before.
LEMMA BadStays ==
    ASSUME NEW S, NEW T, S \subseteq T, ~Bad(T)
    PROVE  ~Bad(S)
BY DEF Bad
-----------------------------------------------------------------------------
(* Sets of numbers *)

\* The library states that < is well-founded; this is how it is used here.
LEMMA LeastNumber ==
    ASSUME NEW C \in SUBSET Nat, C # {}
    PROVE  \E c \in C : \A d \in C : c <= d
<1> DEFINE R == OpToRel(<, Nat)
<1>1. IsWellFoundedOn(R, Nat)
  BY NatLessThanWellFounded
<1>2. \A x, y \in Nat : <<y, x>> \in R <=> y < x
  BY DEF OpToRel
<1> HIDE DEF R
<1>3. PICK c \in C : \A d \in C : <<d, c>> \notin R
  BY <1>1, WFMin
<1>4. \A d \in C : c <= d
  <2>1. ASSUME NEW d \in C
        PROVE  c <= d
    <3>1. c \in Nat /\ d \in Nat /\ ~(d < c)
      BY <1>2, <1>3
    <3> QED
      BY <3>1
  <2> QED
    BY <2>1
<1> QED
  BY <1>3, <1>4

(***************************************************************************)
(* A set of numbers up to n has a largest: the one whose distance to n is  *)
(* least.                                                                  *)
(***************************************************************************)
LEMMA MaxExists ==
    ASSUME NEW n \in Nat, NEW S \in SUBSET (0 .. n), S # {}
    PROVE  Max(S) \in S /\ \A y \in S : Max(S) >= y
<1> DEFINE T == {n - x : x \in S}
<1>1. T \subseteq Nat /\ T # {}
  OBVIOUS
<1>2. PICK t \in T : \A u \in T : t <= u
  <2> HIDE DEF T
  <2>1. T \in SUBSET Nat
    BY <1>1
  <2> QED
    BY <1>1, <2>1, LeastNumber
<1>3. PICK x \in S : t = n - x
  OBVIOUS
<1>4. ASSUME NEW y \in S
      PROVE  x >= y
  <2>1. n - y \in T /\ x \in Nat /\ y \in Nat
    OBVIOUS
  <2> QED
    BY <1>2, <1>3, <2>1
<1>5. \E m \in S : \A y \in S : m >= y
  BY <1>4
<1> QED
  BY <1>5 DEF Max

\* The first m values of g have a bound.
Bounded(g, m) == \E b \in Nat : \A i \in 1 .. m : g[i] <= b

(***************************************************************************)
(* The values of a sequence of naturals have a bound: the shortest part of *)
(* it without one would be one value longer than a part that has one.      *)
(***************************************************************************)
LEMMA SequenceBounded ==
    ASSUME NEW n \in Nat, NEW g \in [1 .. n -> Nat]
    PROVE  Bounded(g, n)
<1> DEFINE C == {m \in 0 .. n : ~Bounded(g, m)}
<1>1. SUFFICES ASSUME C # {}
               PROVE  FALSE
  OBVIOUS
<1>2. PICK c \in C : \A d \in C : c <= d
  <2>1. C \subseteq Nat
    OBVIOUS
  <2> HIDE DEF C
  <2>2. C \in SUBSET Nat
    BY <2>1
  <2> QED
    BY <1>1, <2>2, LeastNumber
<1>3. c \in 0 .. n /\ c \in Nat /\ ~Bounded(g, c)
  BY <1>2
<1>4. c # 0
  <2>1. Bounded(g, 0)
    <3>1. \A i \in 1 .. 0 : g[i] <= 0
      OBVIOUS
    <3> QED
      BY <3>1 DEF Bounded
  <2> QED
    BY <1>3, <2>1
<1>5. c - 1 \in 0 .. n /\ c - 1 \notin C
  BY <1>2, <1>3, <1>4
<1> HIDE DEF C
<1>6. Bounded(g, c - 1)
  BY <1>5 DEF C
<1>7. PICK b \in Nat : \A i \in 1 .. c - 1 : g[i] <= b
  BY <1>6 DEF Bounded
<1>8. PICK top \in Nat : top >= b /\ top >= g[c]
  <2>1. g[c] \in Nat
    BY <1>3, <1>4
  <2>2. b + g[c] \in Nat /\ b + g[c] >= b /\ b + g[c] >= g[c]
    BY <2>1
  <2> QED
    BY <2>2
<1>9. ASSUME NEW i \in 1 .. c
      PROVE  g[i] <= top
  <2>1. g[i] \in Nat /\ i \in Nat
    BY <1>3, <1>9
  <2>2. CASE i = c
    BY <1>8, <2>1, <2>2
  <2>3. CASE i # c
    <3>1. i \in 1 .. c - 1
      BY <1>3, <2>1, <2>3
    <3>2. g[i] <= b
      BY <1>7, <3>1
    <3> QED
      BY <1>7, <1>8, <2>1, <3>2
  <2> QED
    BY <2>2, <2>3
<1>10. Bounded(g, c)
  BY <1>8, <1>9 DEF Bounded
<1> QED
  BY <1>3, <1>10

LEMMA FiniteMax ==
    ASSUME NEW S \in SUBSET Nat, IsFiniteSet(S), S # {}
    PROVE  Max(S) \in S /\ \A y \in S : Max(S) >= y
<1> DEFINE n == Cardinality(S)
<1>1. n \in Nat /\ ExistsBijection(1 .. n, S)
  BY FS_CardinalityType
<1> HIDE DEF n
<1>2. PICK g \in [1 .. n -> S] : \A x \in S : \E i \in 1 .. n : g[i] = x
  BY <1>1 DEF ExistsBijection, Bijection, Surjection
<1>3. g \in [1 .. n -> Nat]
  BY <1>2
<1>4. PICK b \in Nat : \A i \in 1 .. n : g[i] <= b
  BY <1>1, <1>3, SequenceBounded DEF Bounded
<1>5. S \in SUBSET (0 .. b)
  BY <1>2, <1>4
<1> QED
  BY <1>5, MaxExists

\* The values of a function on a finite set.
LEMMA ImageFinite ==
    ASSUME NEW f, IsFiniteSet(DOMAIN f)
    PROVE  IsFiniteSet({f[x] : x \in DOMAIN f})
<1> DEFINE T == {f[x] : x \in DOMAIN f}
           g == [x \in DOMAIN f |-> f[x]]
<1>1. g \in Surjection(DOMAIN f, T)
  BY DEF Surjection
<1> QED
  BY <1>1, FS_Surjection
\* They are as many as the members of the set if no value occurs twice.
LEMMA ImageCardinality ==
    ASSUME NEW f, IsFiniteSet(DOMAIN f),
           \A x, y \in DOMAIN f : f[x] = f[y] => x = y
    PROVE  Cardinality({f[x] : x \in DOMAIN f}) = Cardinality(DOMAIN f)
<1> DEFINE T == {f[x] : x \in DOMAIN f}
           g == [x \in DOMAIN f |-> f[x]]
<1>1. g \in Bijection(DOMAIN f, T)
  <2>1. g \in [DOMAIN f -> T] /\ \A t \in T : \E x \in DOMAIN f : g[x] = t
    OBVIOUS
  <2>2. \A x, y \in DOMAIN f : g[x] = g[y] => x = y
    OBVIOUS
  <2> HIDE DEF g, T
  <2> QED
    BY <2>1, <2>2 DEF Bijection, Injection, Surjection, IsInjective
<1>2. ExistsBijection(DOMAIN f, T)
  BY <1>1 DEF ExistsBijection
<1> HIDE DEF T
<1> QED
  BY <1>2, FS_Bijection DEF T
-----------------------------------------------------------------------------
(* Alerts on findings *)

\* Does the rule on opstack_doctor_finding select the line of finding f?
Selects(rule, f) ==
    /\ IsPrefix(rule.scope, f.id) /\ f.id[Len(f.id)] \in rule.names
    /\ IF Len(rule.scope) = 1 THEN Len(f.id) > 2 ELSE Len(f.id) = Len(rule.scope) + 1
    /\ f.severity = rule.severity

LEMMA PrefixOfThree ==
    ASSUME NEW a, NEW b, NEW c
    PROVE  IsPrefix(<<a>>, <<a, b, c>>) /\ IsPrefix(<<a, b>>, <<a, b, c>>)
<1>1. IsPrefix(<<a>>, <<a, b, c>>)
  BY DEF IsPrefix
<1>2. IsPrefix(<<a, b>>, <<a, b, c>>)
  BY DEF IsPrefix
<1> QED
  BY <1>1, <1>2

\* An id of three parts, the first one or two of which are the scope of the rule.
LEMMA SelectsThree ==
    ASSUME NEW rule, NEW f, NEW a, NEW b, NEW c, f.id = <<a, b, c>>,
           rule.scope = <<a>> \/ rule.scope = <<a, b>>,
           c \in rule.names, f.severity = rule.severity
    PROVE  Selects(rule, f)
<1>1. Len(f.id) = 3 /\ f.id[Len(f.id)] = c
  OBVIOUS
<1>2. IsPrefix(rule.scope, f.id)
  BY PrefixOfThree
<1>3. IF Len(rule.scope) = 1 THEN Len(f.id) > 2 ELSE Len(f.id) = Len(rule.scope) + 1
  <2>1. CASE rule.scope = <<a>>
    BY <1>1, <2>1
  <2>2. CASE rule.scope = <<a, b>>
    BY <1>1, <2>2
  <2> QED
    BY <2>1, <2>2
<1> QED
  BY <1>1, <1>2, <1>3 DEF Selects

FindingLine(f, chain) == Series("finding", Join(FindingSeries(f), chainLabels(chain)), 1)

LEMMA FindingLineLabels ==
    ASSUME NEW f, NEW chain
    PROVE  /\ FindingLine(f, chain).metric = "finding"
           /\ FindingLine(f, chain).labels.id = f.id
           /\ FindingLine(f, chain).labels.severity = f.severity
<1>1. /\ FindingLine(f, chain).metric = "finding"
      /\ FindingLine(f, chain).labels = Join(FindingSeries(f), chainLabels(chain))
  BY DEF FindingLine, Series
<1>2. DOMAIN FindingSeries(f) = {"id", "severity", "target"}
  BY DEF FindingSeries
<1>3. /\ Join(FindingSeries(f), chainLabels(chain)).id = FindingSeries(f).id
      /\ Join(FindingSeries(f), chainLabels(chain)).severity = FindingSeries(f).severity
  BY <1>2 DEF Join
<1> QED
  BY <1>1, <1>3 DEF FindingSeries

LEMMA RuleSelects ==
    ASSUME NEW f, NEW chain, NEW rule
    PROVE  FindingSelected(rule, FindingLine(f, chain)) <=> Selects(rule, f)
BY FindingLineLabels DEF FindingSelected, Selects

(***************************************************************************)
(* A rule on findings fires for every finding that it selects, and only    *)
(* for those: the other series of the page have other names.               *)
(***************************************************************************)
LEMMA FindingRuleFires ==
    ASSUME NEW fs, NEW chain, NEW f \in fs, NEW rs, NEW rule \in rs,
           rule.metric = "finding", Selects(rule, f)
    PROVE  \E x \in Instances(rs, RenderPrometheus(fs, chain)) : x.alert = rule.alert
<1> DEFINE page == RenderPrometheus(fs, chain)
           line == FindingLine(f, chain)
<1>1. line \in page
  BY DEF RenderPrometheus, GenericSeries, FindingLine
<1> HIDE DEF page
<1>2. line \in Matching(rule, page)
  BY <1>1, FindingLineLabels, RuleSelects DEF Matching
<1>3. [alert |-> rule.alert, wait |-> rule.wait, labels |-> line.labels] \in Instances(rs, page)
  BY <1>2 DEF Instances
<1>4. [alert |-> rule.alert, wait |-> rule.wait, labels |-> line.labels].alert = rule.alert
  OBVIOUS
<1> QED
  BY <1>3, <1>4 DEF page

LEMMA GenericMetrics ==
    ASSUME NEW fs, NEW chain, NEW s \in GenericSeries(fs, chain)
    PROVE  /\ s.metric \in {"findings", "finding", "finding_evidence_value"}
           /\ s.metric = "finding" => \E f \in fs : s = FindingLine(f, chain)
<1>1. \A m, labels, value : Series(m, labels, value).metric = m
  BY DEF Series
<1> DEFINE counts == {Series("findings", [severity |-> v], Summarize(fs)[v]) : v \in Severities}
           lines == {Series("finding", Join(FindingSeries(f), chainLabels(chain)), 1) : f \in fs}
           values == {Series("finding_evidence_value",
                         Join([key |-> f.sample[1]], Join(FindingSeries(f), chainLabels(chain))),
                         f.sample[2]) : f \in {g \in fs : g.sample # NoSample}}
<1>2. s \in counts \/ s \in lines \/ s \in values
  BY DEF GenericSeries
<1>3. CASE s \in counts
  <2>1. PICK v : s = Series("findings", [severity |-> v], Summarize(fs)[v])
    BY <1>3
  <2> QED
    BY <1>1, <2>1
<1>4. CASE s \in lines
  <2>1. PICK f \in fs : s = Series("finding", Join(FindingSeries(f), chainLabels(chain)), 1)
    BY <1>4
  <2> QED
    BY <1>1, <2>1 DEF FindingLine
<1>5. CASE s \in values
  <2>1. PICK f : s = Series("finding_evidence_value",
                        Join([key |-> f.sample[1]], Join(FindingSeries(f), chainLabels(chain))),
                        f.sample[2])
    BY <1>5
  <2> QED
    BY <1>1, <2>1
<1> HIDE DEF counts, lines, values
<1> QED
  BY <1>2, <1>3, <1>4, <1>5

LEMMA DerivedMetrics ==
    ASSUME NEW fs, NEW chain, NEW s
    PROVE  /\ s \in ExecutionLagSeries(fs, chain) => s.metric = "execution_candidate_lag_blocks"
           /\ s \in MatchSeries(fs, chain)
                => s.metric \in {"execution_block_compare_match", "execution_rpc_surface_match"}
           /\ s \in FollowerLagSeries(fs, chain) => s.metric = "topology_follower_lag_blocks"
           /\ s \in ProxydLagSeries(fs, chain) => s.metric = "proxyd_head_lag_blocks"
<1>1. \A m, labels, value : Series(m, labels, value).metric = m
  BY DEF Series
<1>2. s \in ExecutionLagSeries(fs, chain) => s.metric = "execution_candidate_lag_blocks"
  BY <1>1 DEF ExecutionLagSeries
<1>3. s \in MatchSeries(fs, chain)
        => s.metric \in {"execution_block_compare_match", "execution_rpc_surface_match"}
  BY <1>1 DEF MatchSeries
<1>4. ASSUME s \in FollowerLagSeries(fs, chain)
      PROVE  s.metric = "topology_follower_lag_blocks"
  <2>1. PICK f : s = Series("topology_follower_lag_blocks",
                        Join([kind |-> FollowerKind(f.id)],
                             Join(NameFromID(f.id), chainLabels(chain))), f.sample[2])
    BY <1>4 DEF FollowerLagSeries
  <2> QED
    BY <1>1, <2>1
<1>5. s \in ProxydLagSeries(fs, chain) => s.metric = "proxyd_head_lag_blocks"
  BY <1>1 DEF ProxydLagSeries
<1> QED
  BY <1>2, <1>3, <1>4, <1>5

\* The name of a series tells which part of the page it is from.
LEMMA SeriesOfMetric ==
    ASSUME NEW fs, NEW chain, NEW s \in RenderPrometheus(fs, chain)
    PROVE  /\ s.metric = "finding" => \E f \in fs : s = FindingLine(f, chain)
           /\ s.metric = "execution_candidate_lag_blocks" => s \in ExecutionLagSeries(fs, chain)
           /\ s.metric \in {"execution_block_compare_match", "execution_rpc_surface_match"}
                => s \in MatchSeries(fs, chain)
           /\ s.metric = "proxyd_head_lag_blocks" => s \in ProxydLagSeries(fs, chain)
BY GenericMetrics, DerivedMetrics DEF RenderPrometheus, DerivedSeries

LEMMA FindingRuleFired ==
    ASSUME NEW fs, NEW chain, NEW rule, rule.metric = "finding",
           NEW s \in Matching(rule, RenderPrometheus(fs, chain))
    PROVE  \E f \in fs : Selects(rule, f)
<1>1. s \in RenderPrometheus(fs, chain) /\ s.metric = "finding" /\ FindingSelected(rule, s)
  BY DEF Matching
<1>2. PICK f \in fs : s = FindingLine(f, chain)
  BY <1>1, SeriesOfMetric
<1> QED
  BY <1>1, <1>2, RuleSelects

-----------------------------------------------------------------------------
(* Rules and instances of alerts *)

LEMMA InstanceOfRule ==
    ASSUME NEW rs, NEW page0, NEW x \in Instances(rs, page0)
    PROVE  \E r \in rs : \E s \in Matching(r, page0) : x.alert = r.alert /\ x.labels = s.labels
<1>1. PICK r \in rs : \E s \in Matching(r, page0) :
          x = [alert |-> r.alert, wait |-> r.wait, labels |-> s.labels]
  BY DEF Instances
<1> QED
  BY <1>1

LEMMA FindingRuleFields ==
    ASSUME NEW alert, NEW scope, NEW names, NEW severity, NEW wait
    PROVE  LET r == FindingRule(alert, scope, names, severity, wait)
           IN /\ r.alert = alert /\ r.metric = "finding" /\ r.scope = scope
              /\ r.names = names /\ r.severity = severity
BY DEF FindingRule

LEMMA GaugeRuleFields ==
    ASSUME NEW alert, NEW metric, NEW ch, NEW name, NEW op, NEW bound
    PROVE  LET r == GaugeRule(alert, metric, ch, name, <<op, bound>>)
           IN /\ r.alert = alert /\ r.metric = metric /\ r.chain = ch /\ r.name = name
              /\ r.op = op /\ r.bound = bound
BY DEF GaugeRule

-----------------------------------------------------------------------------
(* The issues of a configuration *)

IssuesAt(S, issue) == {issue[x] : x \in S}

\* Finitely many places give rise to finitely many issues.
LEMMA IssuesFinite ==
    ASSUME NEW S, IsFiniteSet(S), NEW issue, DOMAIN issue = S
    PROVE  IsFiniteSet(IssuesAt(S, issue))
BY ImageFinite DEF IssuesAt

\* What validate --fail-on fail accepts has no issue that fails.
LEMMA AcceptedMeans ==
    ASSUME NEW issues, IsFiniteSet(issues), Accepted(issues)
    PROVE  \A f \in issues : f.severity # "fail"
<1>1. ExitCode(issues, "fail") # 1
  BY DEF Accepted
<1> QED
  BY <1>1, ExitCodeFail DEF FailIn

LEMMA IssueFields ==
    ASSUME NEW severity, NEW field
    PROVE  Issue(severity, field).severity = severity /\ Issue(severity, field).target = field
BY DEF Issue, Finding

\* An issue says where it is.
LEMMA IssuesDiffer ==
    ASSUME NEW s, NEW t, NEW a, NEW b, Issue(s, a) = Issue(t, b)
    PROVE  s = t /\ a = b
BY IssueFields

LEMMA ListIssuesFinite ==
    ASSUME NEW list, NEW xs, IsFiniteSet(DOMAIN xs), NEW valid
    PROVE  IsFiniteSet(NameIssues(list, xs)) /\ IsFiniteSet(RoleIssues(list, xs, valid))
<1> DEFINE A == {p \in DOMAIN xs : NameTaken(xs, p)}
           B == {p \in DOMAIN xs : xs[p].role \notin valid}
           a == [p \in A |-> Issue("fail", <<list, p, "name">>)]
           b == [p \in B |-> Issue("fail", <<list, p, "role">>)]
<1>1. IsFiniteSet(A) /\ IsFiniteSet(B)
  BY FS_Subset
<1>2. IsFiniteSet(IssuesAt(A, a)) /\ IsFiniteSet(IssuesAt(B, b))
  BY <1>1, IssuesFinite
<1>3. IssuesAt(A, a) = NameIssues(list, xs) /\ IssuesAt(B, b) = RoleIssues(list, xs, valid)
  BY DEF IssuesAt, NameIssues, RoleIssues
<1> QED
  BY <1>2, <1>3

\* What has no failing issue about names has no name twice.
LEMMA NamesDiffer ==
    ASSUME NEW n \in Nat, NEW xs, DOMAIN xs = 1 .. n, NEW list,
           \A f \in NameIssues(list, xs) : f.severity # "fail"
    PROVE  \A p, q \in 1 .. n : xs[p].name = xs[q].name => p = q
<1>1. ASSUME NEW p \in 1 .. n, NEW q \in 1 .. n, q < p, xs[q].name = xs[p].name
      PROVE  FALSE
  <2>1. NameTaken(xs, p)
    BY <1>1 DEF NameTaken
  <2>2. Issue("fail", <<list, p, "name">>) \in NameIssues(list, xs)
    BY <2>1 DEF NameIssues
  <2> QED
    BY <2>2, IssueFields
<1>2. ASSUME NEW p \in 1 .. n, NEW q \in 1 .. n, xs[p].name = xs[q].name
      PROVE  p = q
  <2>1. p < q \/ q < p \/ p = q
    OBVIOUS
  <2> QED
    BY <1>1, <1>2, <2>1
<1> QED
  BY <1>2

-----------------------------------------------------------------------------
(* Loops over a sequence *)

\* The values of a loop from a to n that starts with base and takes these steps.
Iterates(f, a, n, base, step) ==
    /\ f[a] = base
    /\ \A i \in (a + 1) .. n : f[i] = step[i][f[i - 1]]

(***************************************************************************)
(* Every such loop has values: the least number of steps without them      *)
(* would be one more than a number of steps that has them.                 *)
(***************************************************************************)
LEMMA IterationExists ==
    ASSUME NEW a \in Nat, NEW n \in Nat, a <= n, NEW X, NEW base \in X,
           NEW step \in [a .. n -> [X -> X]]
    PROVE  \E f \in [a .. n -> X] : Iterates(f, a, n, base, step)
<1> DEFINE Has(m) == \E f \in [a .. m -> X] : Iterates(f, a, m, base, step)
           C == {m \in a .. n : ~Has(m)}
<1> SUFFICES ASSUME C # {}
             PROVE  FALSE
  <2> SUFFICES C = {} => Has(n)
    OBVIOUS
  <2> QED
    OBVIOUS
<1>1. C \subseteq Nat
  OBVIOUS
<1>2. PICK m \in C : \A d \in C : m <= d
  <2> HIDE DEF C
  <2>1. C \in SUBSET Nat
    BY <1>1
  <2> QED
    BY <2>1, LeastNumber
<1>3. m \in a .. n /\ ~Has(m)
  OBVIOUS
<1>4. CASE m = a
  <2> DEFINE f == [i \in a .. m |-> base]
  <2>1. f \in [a .. m -> X] /\ Iterates(f, a, m, base, step)
    BY <1>4 DEF Iterates
  <2> QED
    BY <1>3, <2>1
<1>5. CASE m # a
  <2>1. m - 1 \in a .. n /\ m - 1 \in Nat /\ m - 1 < m
    BY <1>3, <1>5
  <2>2. Has(m - 1)
    BY <1>2, <2>1
  <2>3. PICK f \in [a .. m - 1 -> X] : Iterates(f, a, m - 1, base, step)
    BY <2>2
  <2> DEFINE g == [i \in a .. m |-> IF i = m THEN step[m][f[m - 1]] ELSE f[i]]
  <2>4. f[m - 1] \in X
    BY <2>1, <2>3
  <2>5. step[m][f[m - 1]] \in X
    BY <1>3, <2>4
  <2>6. \A i \in a .. m : i # m => i \in a .. m - 1
    BY <1>3, <2>1
  <2>7. g \in [a .. m -> X]
    BY <2>3, <2>5, <2>6
  <2>8. g[a] = base
    BY <1>3, <1>5, <2>3 DEF Iterates
  <2>9. ASSUME NEW i \in (a + 1) .. m
        PROVE  g[i] = step[i][g[i - 1]]
    <3>1. i \in a .. m /\ i - 1 \in a .. m /\ i - 1 # m
      BY <1>3
    <3>2. g[i - 1] = f[i - 1]
      BY <3>1
    <3>3. CASE i = m
      BY <3>1, <3>2, <3>3
    <3>4. CASE i # m
      <4>1. i \in (a + 1) .. (m - 1)
        BY <1>3, <3>4
      <4>2. f[i] = step[i][f[i - 1]]
        BY <2>3, <4>1 DEF Iterates
      <4>3. g[i] = f[i]
        BY <3>1, <3>4
      <4> QED
        BY <3>2, <4>2, <4>3
    <3> QED
      BY <3>3, <3>4
  <2>10. Iterates(g, a, m, base, step)
    BY <2>8, <2>9 DEF Iterates
  <2> HIDE DEF g
  <2> QED
    BY <1>3, <2>7, <2>10
<1> QED
  BY <1>4, <1>5
=============================================================================
