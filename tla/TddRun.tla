------------------------------- MODULE TddRun -------------------------------
(***************************************************************************)
(* One run of one registered plan in one worktree: the phase machine that  *)
(* `tdd advance` drives (machine.py, advance.py), the commands that move a *)
(* run beside it (cli.py: run start, cycle skip, blocker, resume           *)
(* --unblock, run abandon, sensitivity, target, annotate) and the agent    *)
(* who edits the tree and commits by hand.  Each command is one action,    *)
(* from its guards to its last ledger write; what suites, collections,     *)
(* gates and hooks report is chosen freely.                                *)
(*                                                                         *)
(* The working tree and HEAD are functions from files to contents, so that *)
(* "dirty", the tree hash, a sensitivity snapshot and a commit are what    *)
(* they are in gitutil.py, snapshot.py and staging.py.  Files git ignores  *)
(* are left out: they are never staged, hashed or flagged.                 *)
(***************************************************************************)
EXTENDS Integers, FiniteSets

CONSTANTS
    N,          \* the plan declares the cycles 1..N
    Kind,       \* the declared kind of each cycle
    Tests,      \* the ids collection may report
    Project,    \* the project each test id is qualified with
    Rank,       \* the order of the tests in a plan's lists
    Declared,   \* the tests each cycle declares
    Known,      \* the tests collected when the run starts
    Annotate,   \* the cycles whose close requires a judgement annotation
    Swept,      \* the cycles whose projects all have in_close_sweep
    Files,      \* the paths of the repository
    Class,      \* how staging.classify sorts each path
    Under,      \* the paths under the cycles' project roots
    Refs,       \* the plan's reference_paths
    Contents,   \* what a path may hold
    Absent,     \* the content of a path that does not exist
    InitHead    \* HEAD before the run

Cycles == 1..N
Kinds == {"standard", "contract", "pin", "refactor"}
Classes == {"test", "stub", "implementation", "ancillary", "generated", "outside"}

ASSUME NAssumption == N \in Nat
ASSUME KindAssumption == Kind \in [Cycles -> Kinds]
ASSUME TestsAssumption ==
    /\ Rank \in [Tests -> Nat]
    /\ Declared \in [Cycles -> SUBSET Tests]
    /\ \A c \in Cycles : (Declared[c] = {}) <=> (Kind[c] = "refactor")
    /\ \A c \in Cycles : Kind[c] \in {"standard", "pin"} => \E t \in Tests : Declared[c] = {t}
    /\ Known \subseteq Tests
ASSUME FilesAssumption ==
    /\ Class \in [Files -> Classes]
    /\ Under \subseteq Files
    /\ Refs \subseteq Files
    /\ InitHead \in [Files -> Contents]
    /\ Absent \in Contents
    /\ Annotate \subseteq Cycles
    /\ Swept \subseteq Cycles

VARIABLES
    \* the ledger
    status,     \* the run row: ended_at and outcome
    excluded,   \* preexisting_dirty, fixed at run start
    base,       \* the content of start_sha, fixed at run start
    phase,      \* the cycle rows' phase; "UNOPENED" before a row exists
    targets,    \* target_tests of each cycle
    events,     \* the integrity events of each cycle that anything reads
    flagged,    \* the paths of each cycle's undeclared_file_touched events
    annotated,  \* has the cycle its required annotations?
    seen,       \* the tree hash of the open cycle's last invocation that is still read
    check,      \* the snapshot of the cycle's open sensitivity check, if any
    verified,   \* has some check of the cycle restored_ok = 1?
    \* git
    wt,         \* the working tree
    head,       \* the content of HEAD
    tip,        \* what HEAD's commit was made for; "hand" when not by the tool
    \* observations no code reads, kept for the properties
    bitten,     \* did a `sensitivity check` of the open check see the target fail?
    proven,     \* was some check that had bitten closed with restored_ok?
    red,        \* the tests seen failing in the advance that left AWAITING_TEST
    green,      \* the targets seen passing in the advance that reached GREEN
    own         \* the trees on which the cycle's whole suites have passed

ledgerRun == <<status, excluded, base>>
cycleRows == <<phase, targets, events, flagged, annotated, seen>>
checks == <<check, verified, bitten, proven>>
git == <<wt, head, tip>>
observed == <<red, green, own>>
vars == <<ledgerRun, cycleRows, checks, git, observed>>

Statuses == {"none", "live", "blocked", "complete", "abandoned", "refused"}
Phases == {"AWAITING_TEST", "AWAITING_IMPL", "AWAITING_REFACTOR", "AWAITING_PIN",
           "SENSITIVITY_REQUIRED", "CLOSED", "SKIPPED"}
Ended == {"CLOSED", "SKIPPED"}
EventKinds == {"red_first_violation", "declared_test_mismatch", "target_named_by_agent",
               "stub_directive_issued"}
Outcomes == {"passed", "failed", "not_collected", "not_found"}
Tips == {"hand", "red", "pin", "green", "refactor", "artifact"}

-----------------------------------------------------------------------------
(* What git reports, as functions of a working tree and a HEAD.            *)

dirty_paths(w, h) == {f \in Files : w[f] # h[f]}

\* Mutant: dirt that was there before the run is authored too.
authored_changes_all(w, h) == dirty_paths(w, h)

authored_changes(w, h) == dirty_paths(w, h) \ excluded

tree_hash(w) == [f \in Under |-> w[f]]

tracked_at_head(h) == {f \in Files : h[f] # Absent}

\* HEAD after committing the paths `staged` of the working tree w.
Committed(w, h, staged) == [f \in Files |-> IF f \in staged THEN w[f] ELSE h[f]]

\* A sensitivity snapshot: every dirty path with its content.
capture(w, h) == [f \in Files |-> IF f \in dirty_paths(w, h) THEN {w[f]} ELSE {}]

\* Restoring a snapshot: a captured path gets its captured content, any other
\* dirty path goes back to HEAD.
restore(saved, h) ==
    [f \in Files |-> IF saved[f] # {} THEN CHOOSE x \in Contents : x \in saved[f] ELSE h[f]]

\* Mutant: what was committed since the run's start is not looked at.
touched_reference_paths_dirty(w, h) == Refs \cap authored_changes(w, h)

\* The reference paths that differ from the run's start.
touched_reference_paths(w, h) ==
    Refs \cap (authored_changes(w, h) \cup dirty_paths(h, base))

-----------------------------------------------------------------------------
(* The run's position.                                                     *)

Live == status = "live"

OpenCycles == {c \in Cycles : phase[c] \notin Ended \cup {"UNOPENED"}}

\* ledger.open_cycle: the open row of lowest ordinal.
IsOpen(c) == c \in OpenCycles /\ \A d \in OpenCycles : c <= d

OPENING_PHASE(c) ==
    CASE Kind[c] = "pin" -> "AWAITING_PIN"
      [] Kind[c] = "refactor" -> "AWAITING_REFACTOR"
      [] OTHER -> "AWAITING_TEST"

\* Mutant: the next cycle opens and c's row keeps its phase.
SucceedUnmoved(c, p) ==
    phase' = [d \in Cycles |-> IF d = c + 1 THEN OPENING_PHASE(d) ELSE phase[d]]

\* Cycle c ends in phase p and the next declared one, if any, opens.
Succeed(c, p) ==
    phase' = [d \in Cycles |-> IF d = c THEN p
                               ELSE IF d = c + 1 THEN OPENING_PHASE(d)
                               ELSE phase[d]]

\* Mutant: the comparison with the declared ordinals is off by one.
LastButOne(c) == c + 1 >= N

Last(c) == c = N

Move(c, p) == phase' = [phase EXCEPT ![c] = p]

\* Mutant: the event never reaches the ledger.
RecordNothing(c, kind) == UNCHANGED events

Record(c, kind) == events' = [events EXCEPT ![c] = @ \cup {kind}]

-----------------------------------------------------------------------------
(* Suites and targets.                                                     *)

\* run_projects runs one target of each project: the first in the cycle's list,
\* which holds the declared tests before any adopted one.
Before(c, t, u) ==
    IF (t \in Declared[c]) = (u \in Declared[c]) THEN Rank[t] < Rank[u] ELSE t \in Declared[c]

Heard(c, T) ==
    {t \in T : ~ \E u \in T : Project[u] = Project[t] /\ Before(c, u, t)}

\* The targets a run reported with outcome o.
With(out, o) == {t \in DOMAIN out : out[t] = o}

\* The tests every opened cycle of the run targets: never candidates for adoption.
Claimed == UNION {targets[d] : d \in {e \in Cycles : phase[e] # "UNOPENED"}}

\* advance refuses a tree no suite has seen changed since the phase's last run.
Changed(c, retry) == retry \/ seen[c] # {tree_hash(wt)}

\* The checks before any handler runs.
Ready(c) ==
    /\ Live
    /\ IsOpen(c)
    /\ check[c] = {}
    /\ touched_reference_paths(wt, head) = {}

\* What a phase's commit stages out of the authored changes.
paths_for_phase(p, A, stubs) ==
    {f \in A : \/ p \in {"red", "green", "refactor", "pin"} /\ Class[f] = "test"
               \/ p # "pin" /\ Class[f] = "stub"
               \/ p = "red" /\ f \in stubs
               \/ p \in {"green", "refactor"} /\ Class[f] \in {"implementation", "ancillary"}}

\* Mutant: a file already at HEAD answers the directive too.
sanctioned_stubs_any(c) ==
    IF "stub_directive_issued" \in events[c]
    THEN {f \in Files : Class[f] = "implementation"}
    ELSE {}

\* New implementation files answer a create_stub directive this cycle was given.
sanctioned_stubs(c) ==
    IF "stub_directive_issued" \in events[c]
    THEN {f \in Files : Class[f] = "implementation" /\ f \notin tracked_at_head(head)}
    ELSE {}

Staged(c, p) == paths_for_phase(p, authored_changes(wt, head), sanctioned_stubs(c))

\* Flag what lies outside the cycle's roots; the commit itself is in the caller.
Flag(c) ==
    flagged' = [flagged EXCEPT ![c] =
                   @ \cup {f \in authored_changes(wt, head) : Class[f] = "outside"}]

stage_and_commit(c, p) ==
    /\ Flag(c)
    /\ head' = Committed(wt, head, Staged(c, p))
    /\ tip' = IF Staged(c, p) = {} THEN tip ELSE p
    /\ UNCHANGED wt

-----------------------------------------------------------------------------
(* AWAITING_TEST and AWAITING_PIN.                                         *)

\* The targets are in place and the run reported `verdict` about the judged ones;
\* `failing` is what the whole advance saw fail.  `others`: another test failed.
JudgeTest(c, verdict, others, failing, evs) ==
    LET All(o) == \A t \in DOMAIN verdict : verdict[t] = o
        uncollected == \E t \in DOMAIN verdict : verdict[t] = "not_collected"
        Held(e) == /\ events' = [events EXCEPT ![c] = @ \cup evs \cup e]
                   /\ UNCHANGED <<phase, flagged, git, red, own>>
        Arrive(e) == /\ events' = [events EXCEPT ![c] = @ \cup evs \cup e]
                     /\ Move(c, "SENSITIVITY_REQUIRED")
                     /\ UNCHANGED <<red, own>>
    IN  \/ uncollected /\ Held({"stub_directive_issued"})
        \/ ~uncollected /\ others /\ Held({})
        \/ ~uncollected /\ ~others /\ phase[c] = "AWAITING_PIN"
             /\ \/ ~All("passed") /\ Held({})
                \/ All("passed") /\ Arrive({}) /\ stage_and_commit(c, "pin")
        \/ ~uncollected /\ ~others /\ phase[c] = "AWAITING_TEST"
             /\ \/ All("passed") /\ Arrive({"red_first_violation"}) /\ UNCHANGED <<flagged, git>>
                \/ ~All("passed") /\ ~All("failed") /\ Held({})
                \/ /\ ~All("passed") /\ All("failed")
                   /\ events' = [events EXCEPT ![c] = @ \cup evs]
                   /\ Move(c, "AWAITING_IMPL")
                   /\ stage_and_commit(c, "red")
                   /\ red' = [red EXCEPT ![c] = failing]
                   /\ UNCHANGED own

\* The declared target was found: judge it.
JudgeDeclared(c, out, others) ==
    /\ With(out, "not_found") = {}
    /\ JudgeTest(c, out, others, With(out, "failed"), {})
    /\ UNCHANGED targets

\* A target was not found and no new test takes its place: none was collected, or
\* several and no telling which, or the run cannot find the one collected.
NoAdoption(c, out) ==
    /\ With(out, "not_found") # {}
    /\ UNCHANGED <<phase, targets, events, flagged, git, red, own>>

\* The new test t was run with outcome o; `failing` is what the first run saw fail.
JudgeAdopted(c, t, o, others, failing) ==
    JudgeTest(c, [x \in {t} |-> o], others,
              IF o = "failed" THEN failing \cup {t} ELSE failing, {"declared_test_mismatch"})

\* A target was not found and the new test t replaces what is missing.  It is judged
\* alone, unless a kept target of its project is run in its stead.
Adopt(c, out, others) ==
    LET kept == targets[c] \ With(out, "not_found")
    IN  /\ With(out, "not_found") # {}
        /\ \E t \in Tests \ (Known \cup Claimed), o \in Outcomes \ {"not_found"} :
             /\ targets' = [targets EXCEPT ![c] = kept \cup {t}]
             /\ \/ /\ \A k \in kept : Project[k] # Project[t]
                   /\ JudgeAdopted(c, t, o, others, With(out, "failed"))
                \/ /\ \E k \in kept : Project[k] = Project[t]
                   /\ Record(c, "declared_test_mismatch")
                   /\ UNCHANGED <<phase, flagged, git, red, own>>

AdvanceTest(c, retry) ==
    /\ Ready(c)
    /\ phase[c] \in {"AWAITING_TEST", "AWAITING_PIN"}
    /\ Changed(c, retry)
    /\ \E out \in [Heard(c, targets[c]) -> Outcomes], others \in BOOLEAN :
         JudgeDeclared(c, out, others) \/ NoAdoption(c, out) \/ Adopt(c, out, others)
    /\ seen' = [seen EXCEPT ![c] = IF phase'[c] = phase[c] THEN {tree_hash(wt)} ELSE {}]
    /\ UNCHANGED <<ledgerRun, annotated, checks, green>>

-----------------------------------------------------------------------------
(* AWAITING_IMPL.                                                          *)

\* A target still fails, or the whole suite found another failure.
ImplHeld(c) == UNCHANGED <<phase, flagged, git, green, own>>

\* The heard targets passed alone and with the whole suite, nothing else failed.
ImplGreen(c) ==
    /\ stage_and_commit(c, "green")
    /\ Move(c, "AWAITING_REFACTOR")
    /\ green' = [green EXCEPT ![c] = Heard(c, targets[c])]
    /\ own' = [own EXCEPT ![c] = @ \cup {tree_hash(wt)}]

AdvanceImpl(c, retry) ==
    /\ Ready(c)
    /\ phase[c] = "AWAITING_IMPL"
    /\ Changed(c, retry)
    /\ ImplHeld(c) \/ ImplGreen(c)
    /\ seen' = [seen EXCEPT ![c] = {tree_hash(wt)}]
    /\ UNCHANGED <<ledgerRun, targets, events, annotated, checks, red>>

-----------------------------------------------------------------------------
(* SENSITIVITY_REQUIRED.                                                   *)

\* Mutant: the completed check is never read.
AdvanceSensitivityUnread(c) ==
    /\ Ready(c)
    /\ phase[c] = "SENSITIVITY_REQUIRED"
    /\ Move(c, "AWAITING_REFACTOR")
    /\ UNCHANGED <<ledgerRun, targets, events, flagged, annotated, seen, checks, git, observed>>

AdvanceSensitivity(c) ==
    /\ Ready(c)
    /\ phase[c] = "SENSITIVITY_REQUIRED"
    /\ verified[c]
    /\ Move(c, "AWAITING_REFACTOR")
    /\ UNCHANGED <<ledgerRun, targets, events, flagged, annotated, seen, checks, git, observed>>

-----------------------------------------------------------------------------
(* AWAITING_REFACTOR: commit, artifacts, reference paths, close sweep,     *)
(* undeclared-file gate, close.                                            *)

\* The trees the regenerate hooks can leave: they write generated paths only.
Regenerated ==
    LET Gen == {f \in Files : Class[f] = "generated"}
    IN  {[f \in Files |-> IF f \in Gen THEN g[f] ELSE wt[f]] : g \in [Gen -> Contents]}

\* check_artifacts commits every dirty generated path, whoever dirtied it.
made(w, h) == {f \in dirty_paths(w, h) : Class[f] = "generated"}

\* Mutant: a single outcome for every way a run ends.
EndRunEnded(outcome) == status' = "ended"

EndRun(outcome) == status' = outcome

\* Mutant: the gate reads the flagged paths as they were before this advance.
CloseCycleStale(c, w, h) ==
    LET mine == flagged[c] \cap dirty_paths(w, h)
        all == (UNION {flagged[d] : d \in Cycles}) \cap dirty_paths(w, h)
    IN  \/ ~Last(c) /\ mine # {} /\ EndRun("blocked") /\ UNCHANGED phase
        \/ ~Last(c) /\ mine = {} /\ Succeed(c, "CLOSED") /\ UNCHANGED status
        \/ Last(c) /\ Succeed(c, "CLOSED")
             /\ EndRun(IF all # {} THEN "blocked" ELSE "complete")

\* The close sweep is green: hold the close, or close and open what follows.
CloseCycle(c, w, h) ==
    LET mine == flagged'[c] \cap dirty_paths(w, h)
        all == (UNION {flagged'[d] : d \in Cycles}) \cap dirty_paths(w, h)
    IN  \/ ~Last(c) /\ mine # {} /\ EndRun("blocked") /\ UNCHANGED phase
        \/ ~Last(c) /\ mine = {} /\ Succeed(c, "CLOSED") /\ UNCHANGED status
        \/ Last(c) /\ Succeed(c, "CLOSED")
             /\ EndRun(IF all # {} THEN "blocked" ELSE "complete")

\* Mutant: any earlier run will do, whatever tree it was on.
skip_own_any(c, staged, w) == Kind[c] # "refactor" /\ staged = {} /\ seen[c] # {}

\* GREEN's run of the cycle's own suites stands in for the sweep's when nothing was
\* committed and the tree is the one they ran on.  Never for a refactor cycle.
skip_own(c, staged, w) ==
    /\ Kind[c] # "refactor"
    /\ staged = {}
    /\ seen[c] = {tree_hash(w)}

\* Whether the close sweep runs every suite of the cycle's own projects:
\* close_sweep_projects leaves out those with in_close_sweep = false.
own_suites_run(c, staged, w) == c \in Swept /\ ~skip_own(c, staged, w)

\* `fresh`: no hook failed and no artifact is left stale.  `regenerated`: a hook's
\* output was committed; without a commit its output may still be in the tree.
AdvanceRefactor(c) ==
    /\ Ready(c)
    /\ phase[c] = "AWAITING_REFACTOR"
    /\ c \in Annotate => annotated[c]
    /\ Flag(c)
    /\ \E fresh, regenerated \in BOOLEAN, w \in Regenerated :
         LET staged == Staged(c, "refactor")
             h0 == Committed(wt, head, staged)
             h == IF regenerated THEN Committed(w, h0, made(w, h0)) ELSE h0
         IN  /\ regenerated => made(w, h0) # {}
             /\ wt' = w
             /\ head' = h
             /\ tip' = IF regenerated THEN "artifact" ELSE IF staged # {} THEN "refactor" ELSE tip
             /\ \/ ~fresh /\ UNCHANGED <<status, phase, own>>
                \/ /\ fresh /\ touched_reference_paths(w, h) # {}
                   /\ EndRun("blocked")
                   /\ UNCHANGED <<phase, own>>
                \/ /\ fresh /\ touched_reference_paths(w, h) = {}
                   /\ UNCHANGED <<status, phase, own>>         \* the sweep found failures
                \/ /\ fresh /\ touched_reference_paths(w, h) = {}
                   /\ own' = IF own_suites_run(c, staged, w)
                             THEN [own EXCEPT ![c] = @ \cup {tree_hash(w)}] ELSE own
                   /\ CloseCycle(c, w, h)
    /\ seen' = [seen EXCEPT ![c] = IF phase'[c] = "CLOSED" THEN {} ELSE @]
    /\ UNCHANGED <<excluded, base, targets, events, annotated, checks, red, green>>

-----------------------------------------------------------------------------
(* Beside advance.                                                         *)

\* advance finds a reference path changed, before anything is staged.
AdvanceReferenceBlocked(c) ==
    /\ Live /\ IsOpen(c) /\ check[c] = {}
    /\ touched_reference_paths(wt, head) # {}
    /\ EndRun("blocked")
    /\ UNCHANGED <<excluded, base, cycleRows, checks, git, observed>>

\* run start: refused while the tree is dirty unless --allow-dirty; the artifacts are
\* checked once the run row exists, and a stale one ends the run refused.
run_start ==
    /\ status = "none"
    /\ base' = head
    /\ excluded' = dirty_paths(wt, head)
    /\ \E fresh, regenerated \in BOOLEAN, w \in Regenerated :
         /\ regenerated => made(w, head) # {}
         /\ wt' = w
         /\ head' = IF regenerated THEN Committed(w, head, made(w, head)) ELSE head
         /\ tip' = IF regenerated THEN "artifact" ELSE tip
         /\ IF fresh
            THEN /\ status' = "live"
                 /\ phase' = [c \in Cycles |-> IF c = 1 THEN OPENING_PHASE(1) ELSE phase[c]]
            ELSE status' = "refused" /\ UNCHANGED phase
    /\ UNCHANGED <<targets, events, flagged, annotated, seen, checks, observed>>

\* Mutant: a blocked run's cycle can be skipped.
cycle_skip_blocked(c) ==
    /\ status \in {"live", "blocked"} /\ IsOpen(c)
    /\ Succeed(c, "SKIPPED")
    /\ IF Last(c) THEN EndRun("complete") ELSE UNCHANGED status
    /\ seen' = [seen EXCEPT ![c] = {}]
    /\ UNCHANGED <<excluded, base, targets, events, flagged, annotated, checks, git, observed>>

\* cycle skip: whatever the cycle's phase, and whatever check is open.
cycle_skip(c) ==
    /\ Live /\ IsOpen(c)
    /\ Succeed(c, "SKIPPED")
    /\ IF Last(c) THEN EndRun("complete") ELSE UNCHANGED status
    /\ seen' = [seen EXCEPT ![c] = {}]
    /\ UNCHANGED <<excluded, base, targets, events, flagged, annotated, checks, git, observed>>

annotate(c) ==
    /\ Live /\ IsOpen(c) /\ c \in Annotate
    /\ annotated' = [annotated EXCEPT ![c] = TRUE]
    /\ UNCHANGED <<ledgerRun, phase, targets, events, flagged, seen, checks, git, observed>>

\* Mutant: the new target is stored and the event is not.
target_unrecorded(c) ==
    /\ Live /\ IsOpen(c)
    /\ \E t \in Tests : targets' = [targets EXCEPT ![c] = {t}]
    /\ UNCHANGED <<ledgerRun, phase, events, flagged, annotated, seen, checks, git, observed>>

\* tdd target names any collected test of the cycle's projects, in any phase.
target(c) ==
    /\ Live /\ IsOpen(c)
    /\ \E t \in Tests : targets' = [targets EXCEPT ![c] = {t}]
    /\ Record(c, "target_named_by_agent")
    /\ UNCHANGED <<ledgerRun, phase, flagged, annotated, seen, checks, git, observed>>

blocker ==
    /\ Live
    /\ EndRun("blocked")
    /\ UNCHANGED <<excluded, base, cycleRows, checks, git, observed>>

resume_unblock ==
    /\ status = "blocked"
    /\ status' = "live"
    /\ UNCHANGED <<excluded, base, cycleRows, checks, git, observed>>

run_abandon ==
    /\ status \in {"live", "blocked"}
    /\ EndRun("abandoned")
    /\ UNCHANGED <<excluded, base, cycleRows, checks, git, observed>>

-----------------------------------------------------------------------------
(* Sensitivity checks.  None of the three steps looks at the phase.        *)

sensitivity_begin(c) ==
    /\ Live /\ IsOpen(c) /\ check[c] = {}
    /\ check' = [check EXCEPT ![c] = {capture(wt, head)}]
    /\ bitten' = [bitten EXCEPT ![c] = FALSE]
    /\ UNCHANGED <<ledgerRun, cycleRows, verified, proven, git, observed>>

\* Did every heard target fail, or not collect, under the mutation in the tree?
sensitivity_check(c) ==
    /\ Live /\ IsOpen(c) /\ check[c] # {}
    /\ \E bites \in BOOLEAN : bitten' = [bitten EXCEPT ![c] = bites]
    /\ UNCHANGED <<ledgerRun, cycleRows, check, verified, proven, git, observed>>

\* Restore, compare the fingerprint of the dirty paths, close the check.
sensitivity_end(c) ==
    /\ Live /\ IsOpen(c)
    /\ \E saved \in check[c] :
         LET w == restore(saved, head)
             restored_ok == capture(w, head) = saved
         IN  /\ wt' = w
             /\ verified' = [verified EXCEPT ![c] = @ \/ restored_ok]
             /\ proven' = [proven EXCEPT ![c] = @ \/ (restored_ok /\ bitten[c])]
    /\ check' = [check EXCEPT ![c] = {}]
    /\ bitten' = [bitten EXCEPT ![c] = FALSE]
    /\ UNCHANGED <<ledgerRun, cycleRows, head, tip, observed>>

-----------------------------------------------------------------------------
(* The agent.                                                              *)

\* Write, change or delete one path.
Edit ==
    /\ status \in {"none", "live", "blocked"}
    /\ \E f \in Files, x \in Contents : x # wt[f] /\ wt' = [wt EXCEPT ![f] = x]
    /\ UNCHANGED <<ledgerRun, cycleRows, checks, head, tip, observed>>

\* Commit one dirty path by hand, with no TDD-Phase trailer.
CommitByHand ==
    /\ status \in {"live", "blocked"}
    /\ \E f \in dirty_paths(wt, head) : head' = [head EXCEPT ![f] = wt[f]]
    /\ tip' = "hand"
    /\ UNCHANGED <<ledgerRun, cycleRows, checks, wt, observed>>

\* A run that has ended for good takes no further step.
Over ==
    /\ status \in {"complete", "abandoned", "refused"}
    /\ UNCHANGED vars

-----------------------------------------------------------------------------
Init ==
    /\ status = "none"
    /\ excluded = {}
    /\ base = InitHead
    /\ phase = [c \in Cycles |-> "UNOPENED"]
    /\ targets = Declared
    /\ events = [c \in Cycles |-> {}]
    /\ flagged = [c \in Cycles |-> {}]
    /\ annotated = [c \in Cycles |-> FALSE]
    /\ seen = [c \in Cycles |-> {}]
    /\ check = [c \in Cycles |-> {}]
    /\ verified = [c \in Cycles |-> FALSE]
    /\ wt = InitHead
    /\ head = InitHead
    /\ tip = "hand"
    /\ bitten = [c \in Cycles |-> FALSE]
    /\ proven = [c \in Cycles |-> FALSE]
    /\ red = [c \in Cycles |-> {}]
    /\ green = [c \in Cycles |-> {}]
    /\ own = [c \in Cycles |-> {}]

Advance(c) ==
    \/ \E retry \in BOOLEAN : AdvanceTest(c, retry) \/ AdvanceImpl(c, retry)
    \/ AdvanceSensitivity(c)
    \/ AdvanceRefactor(c)
    \/ AdvanceReferenceBlocked(c)

Sensitivity(c) == sensitivity_begin(c) \/ sensitivity_check(c) \/ sensitivity_end(c)

Command == \E c \in Cycles : cycle_skip(c) \/ annotate(c) \/ target(c) \/ Sensitivity(c)

Supervise == run_start \/ blocker \/ resume_unblock \/ run_abandon

Next ==
    \/ \E c \in Cycles : Advance(c)
    \/ Command
    \/ Supervise
    \/ Edit
    \/ CommitByHand
    \/ Over

Spec == Init /\ [][Next]_vars

-----------------------------------------------------------------------------
TypeOK ==
    /\ status \in Statuses
    /\ excluded \subseteq Files
    /\ base \in [Files -> Contents]
    /\ phase \in [Cycles -> Phases \cup {"UNOPENED"}]
    /\ targets \in [Cycles -> SUBSET Tests]
    /\ events \in [Cycles -> SUBSET EventKinds]
    /\ flagged \in [Cycles -> SUBSET Files]
    /\ annotated \in [Cycles -> BOOLEAN]
    /\ seen \in [Cycles -> SUBSET [Under -> Contents]]
    /\ check \in [Cycles -> SUBSET [Files -> SUBSET Contents]]
    /\ verified \in [Cycles -> BOOLEAN]
    /\ wt \in [Files -> Contents]
    /\ head \in [Files -> Contents]
    /\ tip \in Tips
    /\ bitten \in [Cycles -> BOOLEAN]
    /\ proven \in [Cycles -> BOOLEAN]
    /\ red \in [Cycles -> SUBSET Tests]
    /\ green \in [Cycles -> SUBSET Tests]
    /\ own \in [Cycles -> SUBSET [Under -> Contents]]

\* Cycles run strictly in the plan's order: no cycle opens before the one ahead of it
\* has closed or been skipped, so a run has at most one open cycle row.
OrderedCycles ==
    \A c, d \in Cycles : c < d /\ phase[d] # "UNOPENED" => phase[c] \in Ended

\* A run is ended complete only once every declared cycle was closed or skipped.
CompleteIsDone == status = "complete" => \A c \in Cycles : phase[c] \in Ended

\* A cycle whose test passed on arrival, pin or violation, gets past the sensitivity
\* phase only with a check whose restore was verified.
ArrivalVerified ==
    \A c \in Cycles :
        /\ phase[c] \in {"AWAITING_REFACTOR", "CLOSED"}
        /\ Kind[c] = "pin" \/ "red_first_violation" \in events[c]
        => verified[c]

\* A standard cycle reaches its refactor with every final target seen failing before the
\* implementation and passing after it, or the ledger holds the event that says why not.
RedBeforeGreen ==
    \A c \in Cycles :
        /\ Kind[c] = "standard"
        /\ phase[c] \in {"AWAITING_REFACTOR", "CLOSED"}
        /\ events[c] \cap {"red_first_violation", "target_named_by_agent"} = {}
        => targets[c] \subseteq red[c] \cap green[c]

\* A cycle's targets differ from the plan's only where the ledger says so.
AuditedTargets ==
    \A c \in Cycles :
        targets[c] # Declared[c] =>
            events[c] \cap {"declared_test_mismatch", "target_named_by_agent"} # {}

Closes(c) == phase[c] # "CLOSED" /\ phase'[c] = "CLOSED"

\* When a cycle closes whose projects are all in the close sweep, its own whole suites
\* have passed on exactly the tree it closes on, whether the sweep ran them or took
\* GREEN's run for it.  Of a project with in_close_sweep = false (R9.2) nothing is said:
\* what its refactoring changed was never run.
CloseOnGreenTree ==
    [][\A c \in Cycles : c \in Swept /\ Closes(c) => tree_hash(wt') \in own'[c]]_vars

\* A cycle that closes without ending the run blocked leaves none of its flagged paths
\* dirty, and the last one none of any cycle's.
CloseIsClean ==
    [][\A c \in Cycles : Closes(c) /\ status' # "blocked" =>
          \A d \in Cycles : d = c \/ Last(c) =>
              flagged'[d] \cap dirty_paths(wt', head') = {}]_vars

\* No cycle closes while a reference path differs from the run's start, the paths its
\* own artifact regeneration wrote included.
CloseRespectsReferences ==
    [][\A c \in Cycles : Closes(c) =>
          \A f \in Refs : head'[f] = base[f] /\ (f \in excluded \/ wt'[f] = base[f])]_vars

\* What was dirty before the run is never absorbed by a phase commit.
ExcludedNeverAbsorbed ==
    [][\A f \in excluded :
          head'[f] # head[f] /\ Class[f] # "generated" => tip' = "hand"]_vars

\* Implementation reaches HEAD through the tool only after RED, except a new file that
\* answers a create_stub directive the cycle was given.
ImplementationAfterRed ==
    [][\A f \in Files :
          /\ Class[f] = "implementation" /\ head'[f] # head[f] /\ tip' # "hand"
          => \E c \in Cycles :
                /\ IsOpen(c)
                /\ \/ phase[c] \in {"AWAITING_IMPL", "AWAITING_REFACTOR"}
                   \/ head[f] = Absent /\ "stub_directive_issued" \in events'[c]]_vars

\* The run, seen from outside, does what PlanProgress promises.
current == IF OpenCycles = {} THEN 0 ELSE CHOOSE c \in Cycles : IsOpen(c)
Progress == INSTANCE PlanProgress WITH done <- {c \in Cycles : phase[c] \in Ended}
ImplementsPlanProgress == Progress!Spec

-----------------------------------------------------------------------------
(* What the documentation says of a run and the code does not do.          *)

\* "SENSITIVITY_REQUIRED ... target fails under mutation, restore verified": a cycle
\* leaves the phase only after a check whose mutation made the target fail.
SensitivityProven ==
    [][\A c \in Cycles :
          phase[c] = "SENSITIVITY_REQUIRED" /\ phase'[c] = "AWAITING_REFACTOR"
          => proven[c]]_vars

\* "At the last cycle ... an unblock completes the run."
UnblockCompletes ==
    [][status = "blocked" /\ status' \notin {"blocked", "abandoned"} /\ OpenCycles = {}
          => status' = "complete"]_vars

\* "All targets must fail together to leave AWAITING_TEST."
TargetsFailTogether ==
    [][\A c \in Cycles :
          phase[c] = "AWAITING_TEST" /\ phase'[c] = "AWAITING_IMPL"
          => targets'[c] \subseteq red'[c]]_vars

\* "Committing is refused while a sensitivity check is open."
NoCommitUnderCheck ==
    [][head' # head /\ (\E c \in Cycles : check[c] # {}) => tip' = "hand"]_vars
=============================================================================
