----------------------------- MODULE CloseSweep -----------------------------
(***************************************************************************)
(* Baselines and the close sweep of one cycle: run start records what      *)
(* fails in the projects the plan can reach, GREEN runs the cycle's own    *)
(* suites, and closing the cycle commits what is left, runs the gates and  *)
(* then the suites of every project the registry names, and subtracts the  *)
(* baselines.  Between any two of these the agent edits the tree.          *)
(*                                                                         *)
(* Each project has one suite with one test that matters: what is told     *)
(* apart is whether that test fails, whether the suite reports at all, and *)
(* whether the project's gates (lint and typecheck, taken as one) pass.    *)
(***************************************************************************)
EXTENDS Registry, Integers, Sequences, Functions

CONSTANTS
  Registries,  \* the registries considered
  Plans,       \* the sets of projects a plan of one cycle may declare
  Sorted,      \* the projects in the order of their names
  Shaky,       \* the projects whose test fails now and then on any tree
  MaxEdits     \* bound: edits of the tree

ASSUME CloseSweepAssumption ==
  /\ \A r \in Registries : IsRegistry(r) /\ Rooted(r)
  /\ Plans \subseteq (SUBSET Project) \ {{}}
  /\ Sorted \in Seq(Project)
  /\ Shaky \subseteq Project
  /\ MaxEdits \in Nat

VARIABLES
  reg,      \* the registry
  Cycle,    \* the projects of the cycle, which are those the plan declares
  failing,  \* the projects whose test fails on the present tree
  mute,     \* those whose suite leaves no report the adapter can read
  unlint,   \* those whose gates fail
  start,    \* failing and mute on the tree of start_sha
  version,  \* how often each project's files have changed
  dirty,    \* the projects with uncommitted changes
  changed,  \* the projects the cycle has changed, committed or not (observation)
  phase,    \* "none", "impl", "refactor" or "closed"
  green,    \* the hash recorded with the whole-suite run that decided GREEN
  base,     \* each project's baseline: "none", "clean" or "failing"
  listed,   \* the projects whose tests were collected at run start
  gate,     \* the hash each project's gates last passed on
  swept,    \* its latest CLOSE_SWEEP row: "none", "clean" or "failing"
  heard     \* the projects a sweep ran since what they depend on last
            \* changed (observation)

tree == <<failing, mute, unlint, version>>
fixed == <<reg, Cycle, start>>
rows == <<base, listed, gate, swept>>
vars == <<fixed, tree, dirty, changed, phase, green, rows, heard>>

Never == [q \in {} |-> 0]
Result(p, F) == IF p \in F THEN "failing" ELSE "clean"

\* The hash of some projects' trees: the versions of all their roots hold.
tree_hash(P) == [q \in {q \in Project : \E p \in P : owns(reg, p, q)} |-> version[q]]

TypeOK ==
  /\ reg \in Registries /\ Cycle \in Plans
  /\ failing \subseteq Project /\ mute \subseteq Project /\ unlint \subseteq Project
  /\ start \in [failing : SUBSET Project, mute : SUBSET Project]
  /\ version \in [Project -> Nat]
  /\ dirty \subseteq changed /\ changed \subseteq Project
  /\ phase \in {"none", "impl", "refactor", "closed"}
  /\ \A q \in DOMAIN green : q \in Project /\ green[q] \in 0 .. version[q]
  /\ base \in [Project -> {"none", "clean", "failing"}]
  /\ swept \in [Project -> {"none", "clean", "failing"}]
  /\ listed \subseteq Project /\ heard \subseteq Project
  /\ \A p \in Project : \A q \in DOMAIN gate[p] :
       q \in Project /\ owns(reg, p, q) /\ gate[p][q] \in 0 .. version[q]

Init ==
  /\ reg \in Registries /\ Cycle \in Plans
  /\ failing \in SUBSET Project
  /\ mute \in SUBSET Project
  /\ unlint = {}
  /\ start = [failing |-> failing, mute |-> mute]
  /\ version = [p \in Project |-> 0]
  /\ dirty = {} /\ changed = {}
  /\ phase = "none"
  /\ green = Never
  /\ base = [p \in Project |-> "none"]
  /\ listed = {}
  /\ gate = [p \in Project |-> Never]
  /\ swept = [p \in Project |-> "none"]
  /\ heard = {}

\* F is what a whole run of the suites of P reports as failed: a suite
\* without a report reports nothing, a shaky test either way.
Reports(P, F) ==
  /\ F \subseteq P \ mute
  /\ (P \ (mute \cup Shaky)) \cap failing = F \ Shaky

(***************************************************************************)
(* run start                                                               *)
(***************************************************************************)

\* Every project the plan can reach is observed, or the run is refused.
Observed(P, F) == P \cap mute = {} /\ Reports(P, F)

\* With --reuse-baselines a project may get the result an earlier run cached
\* under the same hash of what it depends on.  That is the present result
\* unless something it can be affected by is not in the hash.
cached_baseline ==
  {p \in Project : \E q \in Project :
     p \in Affected(reg, q) /\ q \notin DOMAIN tree_hash(upstream_producer_roots(reg, p))}

cmd_run_start ==
  LET P == reachable_projects(reg, Cycle)
  IN /\ phase = "none" /\ phase' = "impl"
     /\ \E F \in SUBSET P, reused \in SUBSET (P \cap cached_baseline) :
          /\ Observed(P \ reused, F \ reused)
          /\ base' = [p \in Project |-> IF p \in P THEN Result(p, F) ELSE "none"]
     /\ listed' = P
     /\ UNCHANGED <<fixed, tree, dirty, changed, green, gate, swept, heard>>

(***************************************************************************)
(* The agent                                                               *)
(***************************************************************************)

\* Edits made so far.
Edits == FoldFunction(+, 0, version)

Toggled(S, p) == (S \ {p}) \cup ({p} \ S)

\* One edit of one project's files: it changes at most one answer of one
\* suite it can affect, or of the gates of a project that holds the files.
Edit(q) ==
  LET affected == Affected(reg, q)
  IN /\ phase \in {"impl", "refactor"}
     /\ Edits < MaxEdits
     /\ version' = [version EXCEPT ![q] = @ + 1]
     /\ dirty' = dirty \cup {q}
     /\ changed' = changed \cup {q}
     /\ heard' = heard \ affected
     /\ \/ UNCHANGED <<failing, mute, unlint>>
        \/ \E p \in affected :
             \/ failing' = Toggled(failing, p) /\ UNCHANGED <<mute, unlint>>
             \/ mute' = Toggled(mute, p) /\ UNCHANGED <<failing, unlint>>
             \/ unlint' = Toggled(unlint, p) /\ UNCHANGED <<failing, mute>>
     /\ UNCHANGED <<fixed, phase, green, rows>>

(***************************************************************************)
(* advance                                                                 *)
(***************************************************************************)

\* The failures that stay: a failure of a test collected at run start is
\* rerun alone, and cleared if it passes then (rerun_untouched).
rerun_untouched(failures, remaining) ==
  /\ remaining \subseteq failures
  /\ failures \ remaining \subseteq listed \cap Shaky

\* GREEN: the cycle's suites report, nothing outside the baselines is left,
\* and what the cycle's projects have changed is committed.
AdvanceImpl ==
  /\ phase = "impl" /\ phase' = "refactor"
  /\ Cycle \cap mute = {}
  /\ \E F \in SUBSET Cycle :
       /\ Reports(Cycle, F)
       /\ rerun_untouched({p \in F : base[p] # "failing"}, {})
  /\ green' = tree_hash(Cycle)
  /\ dirty' = dirty \ Cycle
  /\ UNCHANGED <<fixed, tree, changed, rows, heard>>

\* What a run of a project's suite in a worktree of start_sha may come to.
probe_at_start_sha(p) ==
  {"unobserved"} \cup
    (IF p \in start.mute THEN {}
     ELSE IF p \in Shaky THEN {"clean", "failing"}
     ELSE {Result(p, start.failing)})

\* Mutant: a cycle that committed something since GREEN skips all the same.
skip_own_always(sha) == TRUE

\* The cycle's own suites just passed on an identical tree.
skip_own(sha) == ~sha /\ green = tree_hash(Cycle)

\* Mutant: gates that once passed are not run again.
last_gate_any(p) == gate[p] # Never

\* The gates passed on the tree the project has now.
last_gate(p) == gate[p] = tree_hash({p})

Before(p, P) ==
  \E i \in DOMAIN Sorted : Sorted[i] = p /\ \A j \in 1 .. i : Sorted[j] \notin P

\* The gates run in order, up to the first that fails; `due` is to be run.
Gates(due) ==
  gate' = [p \in Project |-> IF p \in due /\ Before(p, due \cap unlint)
                             THEN tree_hash({p}) ELSE gate[p]]

\* Mutant: what the probe says is recorded whether or not it observed anything.
LateBaselines_raw(late, probe) ==
  base' = [p \in Project |-> IF p \in late THEN probe[p] ELSE base[p]]

\* A project first met in the sweep gets its baseline from start_sha.
LateBaselines(late, probe) ==
  base' = [p \in Project |-> IF p \in late /\ probe[p] # "unobserved" THEN probe[p] ELSE base[p]]

\* The suites of P, against baselines that are completed on the way.  A suite
\* that left no report has no failed test.
Suites(P) ==
  LET late == {p \in P : base[p] = "none"}
  IN \E F \in SUBSET P, probe \in [late -> {"clean", "failing", "unobserved"}] :
       /\ Reports(P, F)
       /\ \A p \in late : probe[p] \in probe_at_start_sha(p)
       /\ LateBaselines(late, probe)
       /\ swept' = [p \in Project |-> IF p \in P THEN Result(p, F) ELSE swept[p]]
       /\ heard' = heard \cup P
       /\ LET unbaselined == {p \in late : base'[p] = "none"}
              failures == {p \in F : base'[p] = "clean"}
          IN \E remaining \in SUBSET failures :
               /\ IF unbaselined = {} THEN rerun_untouched(failures, remaining)
                                      ELSE remaining = failures
               /\ phase' = IF unbaselined = {} /\ remaining = {} THEN "closed" ELSE phase

\* advance at AWAITING_REFACTOR: commit, gates, suites, close.  `touched` is
\* what was uncommitted when it began.
AdvanceRefactor ==
  LET names == close_sweep_projects(reg, Cycle, dirty)
      due == {p \in names : ~last_gate(p)}
      sha == dirty \cap Cycle # {}
  IN /\ phase = "refactor"
     /\ dirty' = dirty \ Cycle
     /\ Gates(due)
     /\ IF due \cap unlint # {}
        THEN UNCHANGED <<base, swept, phase, heard>>
        ELSE Suites(IF skip_own(sha) THEN names \ Cycle ELSE names)
     /\ UNCHANGED <<fixed, tree, changed, green, listed>>

\* What fails at start_sha too joins the baseline, the rest is refused.
amend_baseline(new, probe) ==
  base' = [p \in Project |-> IF p \in new /\ probe[p] = "failing" THEN "failing" ELSE base[p]]

\* resume --unblock --accept-failures: the failures of the latest sweep rows
\* of projects that have a baseline.
_accept_failures_into_baseline ==
  LET new == {p \in Project : swept[p] = "failing" /\ base[p] = "clean"}
  IN /\ phase = "refactor" /\ new # {}
     /\ \E probe \in [new -> {"clean", "failing", "unobserved"}] :
          /\ \A p \in new : probe[p] \in probe_at_start_sha(p)
          /\ amend_baseline(new, probe)
     /\ UNCHANGED <<fixed, tree, dirty, changed, phase, green, listed, gate, swept, heard>>

Next ==
  \/ cmd_run_start
  \/ \E q \in Project : Edit(q)
  \/ AdvanceImpl
  \/ AdvanceRefactor
  \/ _accept_failures_into_baseline

Spec == Init /\ [][Next]_vars

(***************************************************************************)
(* Properties                                                              *)
(***************************************************************************)

\* A baseline, whether probed or reused at run start, taken late from a
\* worktree of start_sha or amended by an unblock, says what the project's
\* suite reported on that tree, and none is recorded that observed nothing.
BaselineIsOfTheStart ==
  \A p \in Project :
    /\ base[p] = "failing" => p \in start.failing \cup Shaky
    /\ base[p] = "clean" => p \notin start.mute /\ p \notin start.failing \ Shaky

\* While the cycle keeps to the files of its own projects, every project its
\* close sweeps run was baselined at run start: reachable_projects covers
\* close_sweep_projects.  A producer at "." also owns the files of projects
\* nested in it, which the plan's reach does not know: there a sweep may go on.
SweepStaysInReach ==
  (changed \subseteq Cycle /\ reg.outer = Nobody)
    => {p \in Project : swept[p] # "none"} \subseteq listed

Closing == phase # "closed" /\ phase' = "closed"

\* A cycle that closes leaves no regression in a project its sweep had to run
\* and could hear: what fails on the closing tree failed at start_sha.  The
\* exception is skip_own, which hashes the cycle's own roots only: what broke
\* its test through a project it consumes is not seen.
ClosedIsClean ==
  [][Closing => \A p \in close_sweep_projects(reg, Cycle, dirty) \ (mute \cup Shaky) :
       p \in failing =>
         \/ p \in start.failing
         \/ /\ p \in Cycle /\ dirty \cap Cycle = {}
            /\ \E q \in Project \ DOMAIN tree_hash(Cycle) : p \in Affected(reg, q)]_vars

\* A cycle closes only when the gates of every project in its sweep pass on
\* the closing tree, for gates that look at nothing but the project's root.
GatesAreCurrent ==
  [][Closing => \A p \in close_sweep_projects(reg, Cycle, dirty) :
       p \in unlint => \E q \in Project : p \in Affected(reg, q) /\ ~owns(reg, p, q)]_vars

\* A cycle closes only after every project downstream of an artifact it
\* modified was run (docs/PRD.md R9.2).
DownstreamIsSwept ==
  [][Closing => close_sweep_projects(reg, Cycle, changed) \ Cycle \subseteq heard']_vars
=============================================================================
