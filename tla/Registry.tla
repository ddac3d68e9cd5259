------------------------------ MODULE Registry ------------------------------
(***************************************************************************)
(* The questions the tool asks of the registry, tdd.toml (config.py): who  *)
(* owns a path, which project an artifact comes from, what a plan can      *)
(* reach, what a close sweep must run, and what a project's results depend *)
(* on.  A registry `reg` is the record                                     *)
(*   producedBy : the project or the artifact each artifact comes from     *)
(*   consumedBy : the projects that consume it                             *)
(*   inSweep    : the projects with in_close_sweep                         *)
(*   outer      : the project whose root is "." and holds all, or Nobody   *)
(* A path is known by the project whose directory it is in.                *)
(***************************************************************************)
EXTENDS Naturals, FiniteSets

CONSTANTS
  Project,
  Artifact,
  Nobody     \* no project

ASSUME RegistryAssumption ==
  /\ IsFiniteSet(Project) /\ IsFiniteSet(Artifact)
  /\ Project \cap Artifact = {}
  /\ Nobody \notin Project

IsRegistry(reg) ==
  /\ reg.producedBy \in [Artifact -> Project \cup Artifact]
  /\ reg.consumedBy \in [Artifact -> SUBSET Project]
  /\ reg.inSweep \subseteq Project
  /\ reg.outer \in Project \cup {Nobody}

\* Project.owns: a directory prefix, and "." owns every path.
owns(reg, p, q) == p = q \/ p = reg.outer

\* The project at the root of a chain of artifacts.  A chain that comes back
\* to itself, which load accepts, has none (the code recurses without end).
_root_project(reg, a) ==
  LET up[n \in 0 .. Cardinality(Artifact)] ==
        IF n = 0 THEN reg.producedBy[a]
        ELSE IF up[n - 1] \in Artifact THEN reg.producedBy[up[n - 1]] ELSE up[n - 1]
      root == up[Cardinality(Artifact)]
  IN IF root \in Project THEN root ELSE Nobody

Rooted(reg) == \A a \in Artifact : _root_project(reg, a) # Nobody

\* A change anywhere under the root of the project an artifact comes from.
artifact_touched(reg, a, touched) ==
  LET root == _root_project(reg, a)
  IN root # Nobody /\ \E q \in touched : owns(reg, root, q)

\* R9.2: the cycle's own projects and the consumers of what it touched.
close_sweep_projects(reg, cycle, touched) ==
  (cycle \cup UNION {reg.consumedBy[a] : a \in {a \in Artifact : artifact_touched(reg, a, touched)}})
    \cap reg.inSweep

\* Who feeds whom: the project an artifact comes from, and one that consumes it.
Feeds(reg) == UNION {{_root_project(reg, a)} \X reg.consumedBy[a] : a \in Artifact}

\* What is in every set of a family: for a family of the sets that are closed
\* under something, where a loop that adds until nothing changes ends.
Least(F) == {p \in Project : \A S \in F : p \in S}

\* Mutant: an artifact made from another artifact is not followed.
reachable_projects_near(reg, declared) ==
  Least({S \in SUBSET Project :
           /\ declared \subseteq S
           /\ \A a \in Artifact : reg.producedBy[a] \in S =>
                reg.consumedBy[a] \cap (declared \cup reg.inSweep) \subseteq S})

\* R9.5c: what a plan may affect; a consumer that is out of the close sweep is
\* reached only when the plan declares it, and nothing through it.
reachable_projects(reg, declared) ==
  Least({S \in SUBSET Project :
           /\ declared \subseteq S
           /\ \A f \in Feeds(reg) :
                f[1] \in S /\ f[2] \in declared \cup reg.inSweep => f[2] \in S})

\* Mutant: only the artifacts the project itself consumes are followed.
upstream_producer_roots_near(reg, p) ==
  {p} \cup {f[1] : f \in {f \in Feeds(reg) : f[2] = p}}

\* The projects whose trees identify a project's cached baseline.
upstream_producer_roots(reg, p) ==
  Least({S \in SUBSET Project :
           /\ p \in S
           /\ \A f \in Feeds(reg) : f[2] \in S => f[1] \in S \cup {Nobody}})

(***************************************************************************)
(* What these answers are for                                              *)
(***************************************************************************)

\* The projects a change of q's files can break, by what the registry says:
\* those that own the files, and whoever consumes what those produce, and on.
Affected(reg, q) ==
  LET feeds == Feeds(reg)
  IN Least({S \in SUBSET Project :
              /\ {p \in Project : owns(reg, p, q)} \subseteq S
              /\ \A f \in feeds : f[1] \in S => f[2] \in S})
=============================================================================
