------------------------- MODULE CloseSweep_proofs -------------------------
(***************************************************************************)
(* Theorems about CloseSweep, for every registry, plan and set of shaky    *)
(* tests.  What the registry's answers have to do with each other comes    *)
(* first: the hash of a cached baseline covers whatever can affect the     *)
(* project, and what a sweep runs is within what run start listed.         *)
(***************************************************************************)
EXTENDS CloseSweep, TLAPS

-----------------------------------------------------------------------------
(* The registry.                                                           *)

\* An artifact comes from a project and is consumed by projects.
LEMMA FeedsAreProjects ==
    ASSUME NEW r \in Registries
    PROVE  \A f \in Feeds(r) : f[1] \in Project /\ f[2] \in Project
  <1>1. IsRegistry(r) /\ Rooted(r)
    BY CloseSweepAssumption
  <1>2. \A a \in Artifact : _root_project(r, a) \in Project \cup {Nobody}
    BY Zenon DEF _root_project
  <1>3. \A a \in Artifact : _root_project(r, a) \in Project
    BY <1>1, <1>2 DEF Rooted
  <1>4. \A a \in Artifact : r.consumedBy[a] \subseteq Project
    BY <1>1 DEF IsRegistry
  <1> QED
    BY <1>3, <1>4 DEF Feeds

\* The least of a family is within each of it.
LEMMA LeastIsLeast ==
    ASSUME NEW F, NEW S \in F
    PROVE  Least(F) \subseteq S /\ Least(F) \subseteq Project
  BY DEF Least

\* What a baseline's hash covers is closed under going upstream.
LEMMA UpstreamClosed ==
    ASSUME NEW r \in Registries, NEW p \in Project
    PROVE  /\ p \in upstream_producer_roots(r, p)
           /\ \A f \in Feeds(r) : f[2] \in upstream_producer_roots(r, p)
                                    => f[1] \in upstream_producer_roots(r, p)
  <1>1. \A f \in Feeds(r) : f[1] \in Project /\ f[1] # Nobody
    BY FeedsAreProjects, RegistryAssumption
  <1> QED
    BY <1>1 DEF upstream_producer_roots, Least

\* Whoever is upstream of someone upstream is upstream.
LEMMA UpstreamTransitive ==
    ASSUME NEW r \in Registries, NEW p \in Project, NEW u \in upstream_producer_roots(r, p)
    PROVE  upstream_producer_roots(r, u) \subseteq upstream_producer_roots(r, p)
  <1> DEFINE U == upstream_producer_roots(r, p)
  <1>1. U \in SUBSET Project
    BY DEF upstream_producer_roots, Least
  <1>2. \A f \in Feeds(r) : f[2] \in U => f[1] \in U \cup {Nobody}
    BY UpstreamClosed
  <1>3. U \in {S \in SUBSET Project :
                 /\ u \in S
                 /\ \A f \in Feeds(r) : f[2] \in S => f[1] \in S \cup {Nobody}}
    BY <1>1, <1>2
  <1> QED
    BY <1>3, LeastIsLeast DEF upstream_producer_roots

\* Whatever a change of q's files can break has q in the hash of its baseline.
LEMMA HashCovers ==
    ASSUME NEW r \in Registries, NEW q \in Project, NEW p \in Affected(r, q)
    PROVE  \E u \in upstream_producer_roots(r, p) : u \in Project /\ owns(r, u, q)
  <1> DEFINE T == {x \in Project : \E u \in upstream_producer_roots(r, x) : u \in Project /\ owns(r, u, q)}
  <1>1. {x \in Project : owns(r, x, q)} \subseteq T
    BY UpstreamClosed
  <1>2. ASSUME NEW f \in Feeds(r), f[1] \in T PROVE f[2] \in T
    <2>1. f[1] \in Project /\ f[2] \in Project
      BY FeedsAreProjects
    <2>2. f[1] \in upstream_producer_roots(r, f[2])
      BY <2>1, UpstreamClosed
    <2>3. upstream_producer_roots(r, f[1]) \subseteq upstream_producer_roots(r, f[2])
      BY <2>1, <2>2, UpstreamTransitive
    <2> QED
      BY <1>2, <2>1, <2>3
  <1>3. T \in {S \in SUBSET Project :
                 /\ {x \in Project : owns(r, x, q)} \subseteq S
                 /\ \A f \in Feeds(r) : f[1] \in S => f[2] \in S}
    BY <1>1, <1>2
  <1>4. Affected(r, q) \subseteq T
    BY <1>3, LeastIsLeast DEF Affected
  <1> QED
    BY <1>4

\* A cached baseline that is reused is the present result.
LEMMA NothingCachedIsStale == reg \in Registries => cached_baseline = {}
  <1> SUFFICES ASSUME reg \in Registries, NEW p \in Project, NEW q \in Project, p \in Affected(reg, q)
               PROVE  q \in DOMAIN tree_hash(upstream_producer_roots(reg, p))
    BY DEF cached_baseline
  <1>1. \E u \in upstream_producer_roots(reg, p) : owns(reg, u, q)
    BY HashCovers
  <1> QED
    BY <1>1 DEF tree_hash

LEMMA AffectedType ==
    ASSUME NEW r, NEW q
    PROVE  Affected(r, q) \subseteq Project
  BY DEF Affected, Least

LEMMA ReachType ==
    ASSUME NEW r, NEW P
    PROVE  reachable_projects(r, P) \subseteq Project
  BY DEF reachable_projects, Least

LEMMA SweepType ==
    ASSUME NEW r \in Registries, NEW P, NEW D
    PROVE  close_sweep_projects(r, P, D) \subseteq Project
  BY CloseSweepAssumption DEF close_sweep_projects, IsRegistry

\* What a plan reaches holds the plan, and the consumers in the close sweep of
\* what comes from it.
LEMMA ReachClosed ==
    ASSUME NEW r \in Registries, NEW P \in SUBSET Project
    PROVE  /\ P \subseteq reachable_projects(r, P)
           /\ \A f \in Feeds(r) : f[1] \in P /\ f[2] \in r.inSweep => f[2] \in reachable_projects(r, P)
  BY FeedsAreProjects DEF reachable_projects, Least

\* Where no project is at ".", the sweep of a cycle that kept to its own files
\* runs what run start listed.
LEMMA SweepInReach ==
    ASSUME NEW r \in Registries, r.outer = Nobody, NEW P \in SUBSET Project, NEW D \in SUBSET P
    PROVE  close_sweep_projects(r, P, D) \subseteq reachable_projects(r, P)
  <1> SUFFICES ASSUME NEW x \in close_sweep_projects(r, P, D) PROVE x \in reachable_projects(r, P)
    OBVIOUS
  <1>1. CASE x \in P
    BY <1>1, ReachClosed
  <1>2. CASE x \notin P
    <2>1. PICK a \in Artifact : artifact_touched(r, a, D) /\ x \in r.consumedBy[a] /\ x \in r.inSweep
      BY <1>2 DEF close_sweep_projects
    <2>2. <<_root_project(r, a), x>> \in Feeds(r)
      BY <2>1 DEF Feeds
    <2>3. _root_project(r, a) \in Project /\ _root_project(r, a) # Nobody
      BY <2>2, FeedsAreProjects, RegistryAssumption
    <2>4. PICK q \in D : owns(r, _root_project(r, a), q)
      BY <2>1 DEF artifact_touched
    <2>5. _root_project(r, a) \in P
      BY <2>3, <2>4 DEF owns
    <2> QED
      BY <2>1, <2>2, <2>5, ReachClosed
  <1> QED
    BY <1>1, <1>2

-----------------------------------------------------------------------------
(* Types.                                                                  *)

LEMMA CycleType == TypeOK => Cycle \subseteq Project
  BY CloseSweepAssumption DEF TypeOK

LEMMA HashType ==
    ASSUME TypeOK, NEW P
    PROVE  /\ \A q \in DOMAIN tree_hash(P) :
                /\ q \in Project /\ tree_hash(P)[q] = version[q]
                /\ tree_hash(P)[q] \in 0 .. version[q]
                /\ \E p \in P : owns(reg, p, q)
  <1>1. \A q \in Project : version[q] \in Nat /\ version[q] \in 0 .. version[q]
    BY DEF TypeOK
  <1> QED
    BY <1>1 DEF tree_hash

\* A hash that was taken stays at or below the versions.
LEMMA OlderType ==
    ASSUME NEW h, NEW v \in [Project -> Nat], NEW w \in [Project -> Nat],
           \A q \in Project : v[q] <= w[q],
           \A q \in DOMAIN h : q \in Project /\ h[q] \in 0 .. v[q]
    PROVE  \A q \in DOMAIN h : h[q] \in 0 .. w[q]
  OBVIOUS

\* An edit.
LEMMA EditVersion ==
    ASSUME TypeOK, NEW q \in Project, Edit(q)
    PROVE  /\ version' \in [Project -> Nat]
           /\ version'[q] = version[q] + 1
           /\ \A x \in Project : version[x] <= version'[x]
           /\ \A x \in Project \ {q} : version[x] = version'[x]
  BY DEF TypeOK, Edit

LEMMA TypeInit == Init => TypeOK
  BY DEF Init, TypeOK, Never

LEMMA TypeEdit ==
    ASSUME TypeOK, NEW q \in Project, Edit(q)
    PROVE  TypeOK'
  <1>1. UNCHANGED <<fixed, phase, green, rows>>
    BY DEF Edit
  <1>2. failing' \subseteq Project /\ mute' \subseteq Project /\ unlint' \subseteq Project
    BY AffectedType DEF Edit, TypeOK, Toggled
  <1>3. dirty' \subseteq changed' /\ changed' \subseteq Project /\ heard' \subseteq Project
    BY DEF Edit, TypeOK
  <1>4. \A x \in DOMAIN green : green[x] \in 0 .. version'[x]
    BY EditVersion, OlderType DEF TypeOK
  <1>5. \A p \in Project : \A x \in DOMAIN gate[p] : gate[p][x] \in 0 .. version'[x]
    BY EditVersion, OlderType DEF TypeOK
  <1> QED
    BY <1>1, <1>2, <1>3, <1>4, <1>5, EditVersion DEF TypeOK, fixed, rows

LEMMA TypeSuites ==
    ASSUME TypeOK, phase = "refactor", NEW P \in SUBSET Project, Suites(P)
    PROVE  /\ base' \in [Project -> {"none", "clean", "failing"}]
           /\ swept' \in [Project -> {"none", "clean", "failing"}]
           /\ phase' \in {"refactor", "closed"}
           /\ heard' = heard \cup P
  BY DEF TypeOK, Suites, LateBaselines, Result

LEMMA TypeGates ==
    ASSUME TypeOK, NEW due, Gates(due), UNCHANGED <<reg, version>>
    PROVE  \A p \in Project : \A q \in DOMAIN gate'[p] :
             q \in Project /\ owns(reg, p, q) /\ gate'[p][q] \in 0 .. version[q]
  <1> SUFFICES ASSUME NEW p \in Project, NEW q \in DOMAIN gate'[p]
               PROVE  q \in Project /\ owns(reg, p, q) /\ gate'[p][q] \in 0 .. version[q]
    OBVIOUS
  <1>1. gate'[p] = tree_hash({p}) \/ gate'[p] = gate[p]
    BY DEF Gates
  <1>2. CASE gate'[p] = tree_hash({p})
    BY <1>2, HashType
  <1>3. CASE gate'[p] = gate[p]
    BY <1>3 DEF TypeOK
  <1> QED
    BY <1>1, <1>2, <1>3

LEMMA TypeRefactor ==
    ASSUME TypeOK, AdvanceRefactor
    PROVE  TypeOK'
  <1> DEFINE names == close_sweep_projects(reg, Cycle, dirty)
             due == {p \in names : ~last_gate(p)}
             P == IF skip_own(dirty \cap Cycle # {}) THEN names \ Cycle ELSE names
  <1>1. UNCHANGED <<fixed, tree, changed, green, listed>> /\ phase = "refactor" /\ dirty' = dirty \ Cycle
    BY DEF AdvanceRefactor
  <1>2. Gates(due)
    BY DEF AdvanceRefactor
  <1>3. \/ UNCHANGED <<base, swept, phase, heard>>
        \/ Suites(P)
    BY DEF AdvanceRefactor
  <1>4. reg \in Registries
    BY DEF TypeOK
  <1>5. P \in SUBSET Project
    BY <1>4, SweepType
  <1>6. /\ base' \in [Project -> {"none", "clean", "failing"}]
        /\ swept' \in [Project -> {"none", "clean", "failing"}]
        /\ phase' \in {"refactor", "closed"}
        /\ heard' \subseteq Project
    <2>1. CASE UNCHANGED <<base, swept, phase, heard>>
      BY <2>1, <1>1 DEF TypeOK
    <2>2. CASE Suites(P)
      <3> HIDE DEF P
      <3> QED
        BY <2>2, <1>1, <1>5, TypeSuites DEF TypeOK
    <2> QED
      BY <1>3, <2>1, <2>2
  <1>7. \A p \in Project : \A q \in DOMAIN gate'[p] :
          q \in Project /\ owns(reg, p, q) /\ gate'[p][q] \in 0 .. version[q]
    <2> HIDE DEF due
    <2> QED
      BY <1>1, <1>2, TypeGates DEF fixed, tree
  <1> HIDE DEF names, due, P
  <1> QED
    BY <1>1, <1>6, <1>7 DEF TypeOK, fixed, tree

LEMMA TypeStep == TypeOK /\ [Next]_vars => TypeOK'
  <1> SUFFICES ASSUME TypeOK, [Next]_vars PROVE TypeOK'
    OBVIOUS
  <1>1. CASE cmd_run_start
    BY <1>1, ReachType DEF TypeOK, cmd_run_start, Result, fixed, tree
  <1>2. CASE \E q \in Project : Edit(q)
    BY <1>2, TypeEdit
  <1>3. CASE AdvanceImpl
    <2>1. UNCHANGED <<fixed, tree, changed, rows, heard>> /\ phase' = "refactor"
          /\ green' = tree_hash(Cycle) /\ dirty' = dirty \ Cycle
      BY <1>3 DEF AdvanceImpl
    <2>2. \A q \in DOMAIN green' : q \in Project /\ green'[q] \in 0 .. version[q]
      BY <2>1, HashType
    <2> QED
      BY <2>1, <2>2 DEF TypeOK, fixed, tree, rows
  <1>4. CASE AdvanceRefactor
    BY <1>4, TypeRefactor
  <1>5. CASE _accept_failures_into_baseline
    BY <1>5 DEF TypeOK, _accept_failures_into_baseline, amend_baseline, fixed, tree
  <1>6. CASE UNCHANGED vars
    BY <1>6 DEF TypeOK, vars, fixed, tree, rows
  <1> QED
    BY <1>1, <1>2, <1>3, <1>4, <1>5, <1>6 DEF Next

\* Every variable keeps its type.
THEOREM TypeCorrect == Spec => []TypeOK
  BY TypeInit, TypeStep, PTL DEF Spec

-----------------------------------------------------------------------------
(* What is known of start_sha.                                             *)

\* Before run start the tree is that of start_sha; afterwards what was listed is
\* what the plan reaches, and what was swept is within it.
Begun ==
  /\ phase = "none" =>
       failing = start.failing /\ mute = start.mute /\ \A p \in Project : swept[p] = "none"
  /\ phase # "none" => listed = reachable_projects(reg, Cycle)
  /\ SweepStaysInReach

StartInv == TypeOK /\ Begun /\ BaselineIsOfTheStart

LEMMA StartInit == Init => StartInv
  <1> SUFFICES ASSUME Init PROVE StartInv
    OBVIOUS
  <1>1. TypeOK
    BY TypeInit
  <1>2. Begun /\ BaselineIsOfTheStart
    BY DEF Init, Begun, BaselineIsOfTheStart, SweepStaysInReach
  <1> QED
    BY <1>1, <1>2 DEF StartInv

\* run start observes every project it can reach on the tree of start_sha.
LEMMA StartBaselines ==
    ASSUME StartInv, cmd_run_start
    PROVE  BaselineIsOfTheStart' /\ Begun'
  <1> DEFINE P == reachable_projects(reg, Cycle)
  <1>1. cached_baseline = {}
    BY NothingCachedIsStale DEF StartInv, TypeOK
  <1>2. failing = start.failing /\ mute = start.mute /\ \A p \in Project : swept[p] = "none"
    BY DEF StartInv, Begun, cmd_run_start
  <1>3. PICK F \in SUBSET P :
          /\ Observed(P, F)
          /\ base' = [p \in Project |-> IF p \in P THEN Result(p, F) ELSE "none"]
    <2>1. PICK F \in SUBSET P, reused \in SUBSET (P \cap cached_baseline) :
            /\ Observed(P \ reused, F \ reused)
            /\ base' = [p \in Project |-> IF p \in P THEN Result(p, F) ELSE "none"]
      BY DEF cmd_run_start
    <2>2. reused = {}
      BY <1>1, <2>1
    <2>3. P \ reused = P /\ F \ reused = F
      BY <2>2
    <2> HIDE DEF P
    <2> QED
      BY <2>1, <2>3
  <1>4. UNCHANGED <<fixed, swept>> /\ listed' = P /\ phase' = "impl"
    BY DEF cmd_run_start
  <1>5. BaselineIsOfTheStart'
    <2> SUFFICES ASSUME NEW p \in Project, p \in P
                 PROVE  /\ base'[p] = "failing" => p \in start.failing \cup Shaky
                        /\ base'[p] = "clean" => p \notin start.mute /\ p \notin start.failing \ Shaky
      BY <1>3, <1>4 DEF BaselineIsOfTheStart, fixed
    <2>1. base'[p] = IF p \in F THEN "failing" ELSE "clean"
      BY <1>3 DEF Result
    <2>2. p \notin mute /\ (p \in failing \ Shaky <=> p \in F \ Shaky)
      BY <1>3 DEF Observed, Reports
    <2> QED
      BY <1>2, <2>1, <2>2
  <1>6. Begun'
    BY <1>2, <1>4 DEF Begun, SweepStaysInReach, fixed
  <1> QED
    BY <1>5, <1>6

\* A sweep records a baseline only of what the probe observed.
LEMMA LateBaselinesHold ==
    ASSUME StartInv, NEW P \in SUBSET Project, Suites(P), UNCHANGED fixed
    PROVE  BaselineIsOfTheStart'
  <1> DEFINE late == {p \in P : base[p] = "none"}
  <1>1. PICK probe \in [late -> {"clean", "failing", "unobserved"}] :
          /\ \A p \in late : probe[p] \in probe_at_start_sha(p)
          /\ LateBaselines(late, probe)
    BY DEF Suites
  <1> SUFFICES ASSUME NEW p \in Project
               PROVE  /\ base'[p] = "failing" => p \in start.failing \cup Shaky
                      /\ base'[p] = "clean" => p \notin start.mute /\ p \notin start.failing \ Shaky
    BY DEF BaselineIsOfTheStart, fixed
  <1>2. CASE p \in late /\ probe[p] # "unobserved"
    <2>1. base'[p] = probe[p] /\ probe[p] \in probe_at_start_sha(p)
      BY <1>1, <1>2 DEF LateBaselines
    <2> QED
      BY <1>2, <2>1 DEF probe_at_start_sha, Result
  <1>3. CASE ~(p \in late /\ probe[p] # "unobserved")
    <2>1. base'[p] = base[p]
      BY <1>1, <1>3 DEF LateBaselines
    <2> QED
      BY <2>1 DEF StartInv, BaselineIsOfTheStart
  <1> QED
    BY <1>2, <1>3

\* A sweep marks as swept only what was in its reach.
LEMMA SweptInReach ==
    ASSUME StartInv, AdvanceRefactor
    PROVE  SweepStaysInReach'
  <1> SUFFICES ASSUME changed \subseteq Cycle, reg.outer = Nobody
               PROVE  {p \in Project : swept'[p] # "none"} \subseteq listed
    BY DEF SweepStaysInReach, AdvanceRefactor, fixed
  <1> DEFINE names == close_sweep_projects(reg, Cycle, dirty)
  <1>1. dirty \subseteq Cycle /\ Cycle \subseteq Project /\ reg \in Registries
    BY CycleType DEF StartInv, TypeOK
  <1>2. names \subseteq listed
    BY <1>1, SweepInReach DEF StartInv, Begun, AdvanceRefactor
  <1>3. {p \in Project : swept[p] # "none"} \subseteq listed
    BY DEF StartInv, Begun, SweepStaysInReach
  <1>4. \/ swept' = swept
        \/ \E P \in SUBSET names : Suites(P)
    <2> HIDE DEF names
    <2> QED
      BY DEF AdvanceRefactor, names
  <1>5. CASE swept' = swept
    BY <1>3, <1>5
  <1>6. ASSUME NEW P \in SUBSET names, Suites(P)
        PROVE  {p \in Project : swept'[p] # "none"} \subseteq listed
    <2>1. \A p \in Project \ P : swept'[p] = swept[p]
      BY <1>6 DEF Suites
    <2> QED
      BY <1>2, <1>3, <2>1
  <1> QED
    BY <1>4, <1>5, <1>6

LEMMA StartStep == StartInv /\ [Next]_vars => StartInv'
  <1> SUFFICES ASSUME StartInv, [Next]_vars PROVE StartInv'
    OBVIOUS
  <1>1. TypeOK'
    BY TypeStep DEF StartInv
  <1>2. BaselineIsOfTheStart' /\ Begun'
    <2>1. CASE cmd_run_start
      BY <2>1, StartBaselines
    <2>2. ASSUME NEW q \in Project, Edit(q) PROVE BaselineIsOfTheStart' /\ Begun'
      <3>1. UNCHANGED <<fixed, phase, green, rows>> /\ changed' = changed \cup {q} /\ phase \in {"impl", "refactor"}
        BY <2>2 DEF Edit
      <3> QED
        BY <3>1 DEF StartInv, Begun, SweepStaysInReach, BaselineIsOfTheStart, fixed, rows
    <2>3. CASE AdvanceImpl
      BY <2>3 DEF AdvanceImpl, StartInv, Begun, SweepStaysInReach, BaselineIsOfTheStart, fixed, rows
    <2>4. CASE AdvanceRefactor
      <3> DEFINE P == IF skip_own(dirty \cap Cycle # {})
                      THEN close_sweep_projects(reg, Cycle, dirty) \ Cycle
                      ELSE close_sweep_projects(reg, Cycle, dirty)
      <3>1. UNCHANGED <<fixed, tree, changed, green, listed>> /\ phase = "refactor"
        BY <2>4 DEF AdvanceRefactor
      <3>2. \/ UNCHANGED <<base, swept, phase, heard>>
            \/ Suites(P)
        BY <2>4 DEF AdvanceRefactor
      <3>3. P \in SUBSET Project
        BY SweepType DEF StartInv, TypeOK
      <3>4. phase' \in {"refactor", "closed"}
        <4>1. CASE Suites(P)
          <5> HIDE DEF P
          <5> QED
            BY <3>1, <3>3, <4>1, TypeSuites DEF StartInv
        <4> QED
          BY <3>1, <3>2, <4>1
      <3>5. BaselineIsOfTheStart'
        <4>1. CASE Suites(P)
          <5> HIDE DEF P
          <5> QED
            BY <3>1, <3>3, <4>1, LateBaselinesHold
        <4>2. CASE base' = base
          BY <3>1, <4>2 DEF StartInv, BaselineIsOfTheStart, fixed
        <4> QED
          BY <3>2, <4>1, <4>2
      <3>6. SweepStaysInReach'
        BY <2>4, SweptInReach
      <3> QED
        BY <3>1, <3>4, <3>5, <3>6 DEF StartInv, Begun, fixed
    <2>5. CASE _accept_failures_into_baseline
      <3>1. UNCHANGED <<fixed, tree, dirty, changed, phase, green, listed, gate, swept, heard>>
        BY <2>5 DEF _accept_failures_into_baseline
      <3>2. Begun'
        BY <3>1 DEF StartInv, Begun, SweepStaysInReach, fixed, tree
      <3>3. \A p \in Project : base'[p] = base[p] \/ (base'[p] = "failing" /\ p \in start.failing \cup Shaky)
        BY <2>5 DEF _accept_failures_into_baseline, amend_baseline, probe_at_start_sha, Result
      <3> QED
        BY <3>1, <3>2, <3>3 DEF StartInv, BaselineIsOfTheStart, fixed
    <2>6. CASE UNCHANGED vars
      BY <2>6 DEF StartInv, Begun, SweepStaysInReach, BaselineIsOfTheStart, vars, fixed, tree, rows
    <2> QED
      BY <2>1, <2>2, <2>3, <2>4, <2>5, <2>6 DEF Next
  <1> QED
    BY <1>1, <1>2 DEF StartInv

LEMMA StartHolds == Spec => []StartInv
  BY StartInit, StartStep, PTL DEF Spec

\* A baseline says what the project's suite reported at start_sha, and none is
\* recorded that observed nothing, for every registry.
THEOREM BaselinesHold == Spec => []BaselineIsOfTheStart
  <1>1. StartInv => BaselineIsOfTheStart
    BY DEF StartInv
  <1> QED
    BY <1>1, StartHolds, PTL

\* A cycle that keeps to its own files is swept within what run start baselined,
\* for every registry without a project at ".".
THEOREM SweepsStayInReach == Spec => []SweepStaysInReach
  <1>1. StartInv => SweepStaysInReach
    BY DEF StartInv, Begun
  <1> QED
    BY <1>1, StartHolds, PTL

-----------------------------------------------------------------------------
(* What a cycle closes on.                                                 *)

Foreign(P) == Project \ DOMAIN tree_hash(P)

\* While the hash of GREEN is still that of the cycle's roots, what fails in the
\* cycle failed at start_sha, or was broken from outside those roots.
GreenSound ==
  (phase = "refactor" /\ green = tree_hash(Cycle)) =>
    \A p \in Cycle \ (mute \cup Shaky) :
      p \in failing => p \in start.failing \/ \E q \in Foreign(Cycle) : p \in Affected(reg, q)

\* While the hash of a project's gates is still that of its root, a gate that
\* fails was broken from outside it.
GateSound ==
  \A p \in Project :
    (gate[p] = tree_hash({p}) /\ p \in unlint) => \E q \in Foreign({p}) : p \in Affected(reg, q)

CloseInv == StartInv /\ GreenSound /\ GateSound

LEMMA CloseInit == Init => CloseInv
  BY StartInit DEF Init, CloseInv, GreenSound, GateSound

\* The hash of roots that hold an edited file changes; another stays.
LEMMA EditedHash ==
    ASSUME TypeOK, NEW q \in Project, Edit(q), NEW P
    PROVE  /\ Foreign(P)' = Foreign(P)
           /\ \A h : /\ \A x \in DOMAIN h : x \in Project /\ h[x] \in 0 .. version[x]
                     /\ h = tree_hash(P)'
                     => q \in Foreign(P) /\ h = tree_hash(P)
  <1>1. reg' = reg
    BY DEF Edit, fixed
  <1>2. DOMAIN tree_hash(P)' = DOMAIN tree_hash(P) /\ DOMAIN tree_hash(P) \subseteq Project
    BY <1>1 DEF tree_hash
  <1>3. \A x \in DOMAIN tree_hash(P) : tree_hash(P)[x] = version[x] /\ tree_hash(P)'[x] = version'[x]
    BY <1>1 DEF tree_hash
  <1>4. ASSUME NEW h, h = tree_hash(P)', \A x \in DOMAIN h : x \in Project /\ h[x] \in 0 .. version[x]
        PROVE  q \in Foreign(P) /\ h = tree_hash(P)
    <2>1. q \notin DOMAIN tree_hash(P)
      <3>1. version'[q] = version[q] + 1 /\ version[q] \in Nat
        BY EditVersion DEF TypeOK
      <3>2. q \in DOMAIN h => h[q] = version'[q] /\ h[q] \in 0 .. version[q]
        BY <1>2, <1>3, <1>4
      <3> QED
        BY <1>2, <1>4, <3>1, <3>2
    <2>2. \A x \in DOMAIN tree_hash(P) : version'[x] = version[x]
      BY <1>2, <2>1, EditVersion
    <2>3. tree_hash(P)' = tree_hash(P)
      BY <1>1, <1>2, <2>2 DEF tree_hash
    <2> QED
      BY <1>4, <2>1, <2>3 DEF Foreign
  <1> QED
    BY <1>2, <1>4 DEF Foreign

LEMMA CloseEdit ==
    ASSUME CloseInv, NEW q \in Project, Edit(q)
    PROVE  GreenSound' /\ GateSound'
  <1>1. UNCHANGED <<fixed, phase, green, rows>> /\ TypeOK
    BY DEF Edit, CloseInv, StartInv
  <1>2. \A p \in Project : p \notin Affected(reg, q) =>
          (p \in failing' <=> p \in failing) /\ (p \in mute' <=> p \in mute) /\ (p \in unlint' <=> p \in unlint)
    BY DEF Edit, Toggled
  <1>3. GreenSound'
    <2> SUFFICES ASSUME phase = "refactor", green = tree_hash(Cycle)',
                        NEW p \in Cycle, p \notin mute' \cup Shaky, p \in failing'
                 PROVE  p \in start.failing \/ \E x \in Foreign(Cycle)' : p \in Affected(reg, x)
      BY <1>1 DEF GreenSound, fixed
    <2>1. Foreign(Cycle)' = Foreign(Cycle) /\ q \in Foreign(Cycle) /\ green = tree_hash(Cycle)
      <3>1. \A x \in DOMAIN green : x \in Project /\ green[x] \in 0 .. version[x]
        BY <1>1 DEF TypeOK
      <3>2. Cycle' = Cycle
        BY <1>1 DEF fixed
      <3>3. Foreign(Cycle)' = Project \ DOMAIN (tree_hash(Cycle)')
        BY DEF Foreign
      <3> QED
        BY <1>1, <3>1, <3>2, EditedHash
    <2>2. p \in Project
      BY <1>1, CycleType
    <2>3. CASE p \in Affected(reg, q)
      BY <2>1, <2>3
    <2>4. CASE p \notin Affected(reg, q)
      BY <1>2, <2>1, <2>2, <2>4 DEF CloseInv, GreenSound
    <2> QED
      BY <2>3, <2>4
  <1>4. GateSound'
    <2> SUFFICES ASSUME NEW p \in Project, gate[p] = tree_hash({p})', p \in unlint'
                 PROVE  \E x \in Foreign({p})' : p \in Affected(reg, x)
      BY <1>1 DEF GateSound, fixed, rows
    <2>1. Foreign({p})' = Foreign({p}) /\ q \in Foreign({p}) /\ gate[p] = tree_hash({p})
      <3>1. \A x \in DOMAIN gate[p] : x \in Project /\ gate[p][x] \in 0 .. version[x]
        BY <1>1 DEF TypeOK
      <3> QED
        BY <1>1, <3>1, EditedHash
    <2>2. CASE p \in Affected(reg, q)
      BY <2>1, <2>2
    <2>3. CASE p \notin Affected(reg, q)
      BY <1>2, <2>1, <2>3 DEF CloseInv, GateSound
    <2> QED
      BY <2>2, <2>3
  <1> QED
    BY <1>3, <1>4

\* GREEN leaves no failure of the cycle outside the baselines.
LEMMA CloseImpl ==
    ASSUME CloseInv, AdvanceImpl
    PROVE  GreenSound' /\ GateSound'
  <1>1. UNCHANGED <<fixed, tree, rows>>
    BY DEF AdvanceImpl
  <1>2. PICK F \in SUBSET Cycle :
          /\ Reports(Cycle, F)
          /\ rerun_untouched({p \in F : base[p] # "failing"}, {})
    BY DEF AdvanceImpl
  <1>3. ASSUME NEW p \in Cycle, p \notin mute \cup Shaky, p \in failing PROVE p \in start.failing
    <2>1. p \in F
      BY <1>2, <1>3 DEF Reports
    <2>2. base[p] = "failing"
      BY <1>2, <1>3, <2>1 DEF rerun_untouched
    <2>3. p \in Project
      BY CycleType DEF CloseInv, StartInv
    <2> QED
      BY <1>3, <2>2, <2>3 DEF CloseInv, StartInv, BaselineIsOfTheStart
  <1>4. GreenSound'
    BY <1>1, <1>3 DEF GreenSound, fixed, tree
  <1>5. GateSound'
    BY <1>1 DEF CloseInv, GateSound, Foreign, tree_hash, fixed, tree, rows
  <1> QED
    BY <1>4, <1>5

\* A gate's row is written where the gate passed.
LEMMA GatesPass ==
    ASSUME NEW due, Gates(due), NEW p \in Project, p \in unlint, gate'[p] # gate[p]
    PROVE  FALSE
  <1>1. p \in due /\ Before(p, due \cap unlint)
    BY DEF Gates
  <1>2. PICK i \in DOMAIN Sorted : Sorted[i] = p /\ \A j \in 1 .. i : Sorted[j] \notin due \cap unlint
    BY <1>1 DEF Before
  <1>3. i \in 1 .. i
    BY <1>2, CloseSweepAssumption
  <1> QED
    BY <1>1, <1>2, <1>3

LEMMA CloseRefactor ==
    ASSUME CloseInv, AdvanceRefactor
    PROVE  GreenSound' /\ GateSound'
  <1>1. UNCHANGED <<fixed, tree, green>> /\ phase = "refactor"
    BY DEF AdvanceRefactor
  <1>2. PICK due : Gates(due)
    BY DEF AdvanceRefactor
  <1>3. GreenSound'
    BY <1>1 DEF CloseInv, GreenSound, Foreign, tree_hash, fixed, tree
  <1>4. GateSound'
    <2> SUFFICES ASSUME NEW p \in Project, gate'[p] = tree_hash({p}), p \in unlint
                 PROVE  \E x \in Foreign({p}) : p \in Affected(reg, x)
      BY <1>1 DEF GateSound, Foreign, tree_hash, fixed, tree
    <2>1. gate'[p] = gate[p]
      BY <1>2, GatesPass
    <2> QED
      BY <2>1 DEF CloseInv, GateSound
  <1> QED
    BY <1>3, <1>4

LEMMA CloseStep == CloseInv /\ [Next]_vars => CloseInv'
  <1> SUFFICES ASSUME CloseInv, [Next]_vars PROVE CloseInv'
    OBVIOUS
  <1>1. StartInv'
    BY StartStep DEF CloseInv
  <1>2. GreenSound' /\ GateSound'
    <2>1. CASE cmd_run_start
      BY <2>1 DEF cmd_run_start, CloseInv, GreenSound, GateSound, Foreign, tree_hash, fixed, tree
    <2>2. CASE \E q \in Project : Edit(q)
      BY <2>2, CloseEdit
    <2>3. CASE AdvanceImpl
      BY <2>3, CloseImpl
    <2>4. CASE AdvanceRefactor
      BY <2>4, CloseRefactor
    <2>5. CASE _accept_failures_into_baseline
      BY <2>5 DEF _accept_failures_into_baseline, CloseInv, GreenSound, GateSound, Foreign, tree_hash, fixed, tree
    <2>6. CASE UNCHANGED vars
      BY <2>6 DEF CloseInv, GreenSound, GateSound, Foreign, tree_hash, vars, fixed, tree, rows
    <2> QED
      BY <2>1, <2>2, <2>3, <2>4, <2>5, <2>6 DEF Next
  <1> QED
    BY <1>1, <1>2 DEF CloseInv

LEMMA CloseHolds == Spec => []CloseInv
  BY CloseInit, CloseStep, PTL DEF Spec

\* Only advance closes, with no gate left to fail and no failure left.
LEMMA ClosesBySweep ==
    ASSUME CloseInv, [Next]_vars, Closing
    PROVE  /\ AdvanceRefactor
           /\ {p \in close_sweep_projects(reg, Cycle, dirty) : ~last_gate(p)} \cap unlint = {}
           /\ Suites(IF skip_own(dirty \cap Cycle # {})
                     THEN close_sweep_projects(reg, Cycle, dirty) \ Cycle
                     ELSE close_sweep_projects(reg, Cycle, dirty))
  <1>1. phase' # phase /\ phase' = "closed"
    BY DEF Closing
  <1>2. AdvanceRefactor
    BY <1>1 DEF Next, vars, cmd_run_start, Edit, AdvanceImpl, _accept_failures_into_baseline
  <1> QED
    BY <1>1, <1>2 DEF AdvanceRefactor

\* What a closing sweep heard failing failed at start_sha.
LEMMA HeardIsOld ==
    ASSUME CloseInv, [Next]_vars, Closing, NEW P \in SUBSET Project, Suites(P),
           NEW p \in P, p \notin mute \cup Shaky, p \in failing
    PROVE  p \in start.failing
  <1> DEFINE late == {x \in P : base[x] = "none"}
  <1>1. PICK F \in SUBSET P :
          /\ Reports(P, F)
          /\ {x \in late : base'[x] = "none"} = {}
          /\ rerun_untouched({x \in F : base'[x] = "clean"}, {})
    BY DEF Suites, Closing
  <1>2. p \in F
    BY <1>1 DEF Reports
  <1>3. base'[p] # "clean"
    BY <1>1, <1>2 DEF rerun_untouched
  <1>4. base'[p] # "none"
    <2>1. base[p] # "none" => base'[p] # "none"
      BY DEF Suites, LateBaselines
    <2> QED
      BY <1>1, <2>1
  <1>5. CloseInv'
    BY CloseStep
  <1>6. base'[p] = "failing" /\ p \in Project
    BY <1>3, <1>4, <1>5 DEF CloseInv, StartInv, TypeOK
  <1>7. start' = start
    BY ClosesBySweep DEF AdvanceRefactor, fixed
  <1> QED
    BY <1>5, <1>6, <1>7 DEF CloseInv, StartInv, BaselineIsOfTheStart

\* A cycle that closes leaves no regression its sweep had to run and could hear,
\* for every registry, plan and set of shaky tests.
THEOREM ClosesClean == Spec => ClosedIsClean
  <1>1. ASSUME CloseInv, [Next]_vars, Closing,
               NEW p \in close_sweep_projects(reg, Cycle, dirty) \ (mute \cup Shaky), p \in failing
        PROVE  \/ p \in start.failing
               \/ /\ p \in Cycle /\ dirty \cap Cycle = {}
                  /\ \E q \in Project \ DOMAIN tree_hash(Cycle) : p \in Affected(reg, q)
    <2> DEFINE names == close_sweep_projects(reg, Cycle, dirty)
               P == IF skip_own(dirty \cap Cycle # {}) THEN names \ Cycle ELSE names
    <2>1. Suites(P) /\ AdvanceRefactor
      BY <1>1, ClosesBySweep
    <2>2. P \in SUBSET Project
      BY <1>1, SweepType DEF CloseInv, StartInv, TypeOK
    <2>3. CASE p \in P
      <3> HIDE DEF P
      <3> QED
        BY <1>1, <2>1, <2>2, <2>3, HeardIsOld
    <2>4. CASE p \notin P
      <3>1. p \in Cycle /\ dirty \cap Cycle = {} /\ green = tree_hash(Cycle)
        BY <1>1, <2>4 DEF skip_own
      <3>2. phase = "refactor"
        BY <2>1 DEF AdvanceRefactor
      <3> QED
        BY <1>1, <3>1, <3>2 DEF CloseInv, GreenSound, Foreign
    <2> QED
      BY <2>3, <2>4
  <1>2. CloseInv /\ [Next]_vars =>
          [Closing => \A p \in close_sweep_projects(reg, Cycle, dirty) \ (mute \cup Shaky) :
             p \in failing =>
               \/ p \in start.failing
               \/ /\ p \in Cycle /\ dirty \cap Cycle = {}
                  /\ \E q \in Project \ DOMAIN tree_hash(Cycle) : p \in Affected(reg, q)]_vars
    BY <1>1
  <1> QED
    BY <1>2, CloseHolds, PTL DEF Spec, ClosedIsClean

\* A cycle closes only when every gate of its sweep that looks at nothing but
\* its project's root passes on the closing tree.
THEOREM ClosesOnCurrentGates == Spec => GatesAreCurrent
  <1>1. ASSUME CloseInv, [Next]_vars, Closing,
               NEW p \in close_sweep_projects(reg, Cycle, dirty), p \in unlint
        PROVE  \E q \in Project : p \in Affected(reg, q) /\ ~owns(reg, p, q)
    <2>1. p \in Project
      BY <1>1, SweepType DEF CloseInv, StartInv, TypeOK
    <2>2. last_gate(p)
      BY <1>1, ClosesBySweep
    <2>3. PICK q \in Foreign({p}) : p \in Affected(reg, q)
      BY <1>1, <2>1, <2>2 DEF last_gate, CloseInv, GateSound
    <2> QED
      BY <2>3 DEF Foreign, tree_hash
  <1>2. CloseInv /\ [Next]_vars =>
          [Closing => \A p \in close_sweep_projects(reg, Cycle, dirty) :
             p \in unlint => \E q \in Project : p \in Affected(reg, q) /\ ~owns(reg, p, q)]_vars
    BY <1>1
  <1> QED
    BY <1>2, CloseHolds, PTL DEF Spec, GatesAreCurrent
=============================================================================
