--------------------------- MODULE TddRun_proofs ---------------------------
(***************************************************************************)
(* Theorems about TddRun, for every plan, repository and behaviour of the  *)
(* suites.  First the type invariant, then what a step may do to the run's *)
(* position and to a cycle's evidence, then the invariants that follow,    *)
(* and last what its commits take and what its closes leave.               *)
(***************************************************************************)
EXTENDS TddRun, TLAPS

\* The operators that build trees return trees.
LEMMA CommittedType ==
    ASSUME NEW w \in [Files -> Contents], NEW h \in [Files -> Contents], NEW S
    PROVE  Committed(w, h, S) \in [Files -> Contents]
  BY DEF Committed

\* A snapshot saves at most the content of each file.
LEMMA CaptureType ==
    ASSUME NEW w \in [Files -> Contents], NEW h \in [Files -> Contents]
    PROVE  capture(w, h) \in [Files -> SUBSET Contents]
  BY DEF capture

\* Restoring a snapshot gives a tree.
LEMMA RestoreType ==
    ASSUME NEW saved \in [Files -> SUBSET Contents], NEW h \in [Files -> Contents]
    PROVE  restore(saved, h) \in [Files -> Contents]
  <1>1. ASSUME NEW f \in Files, saved[f] # {}
        PROVE  (CHOOSE x \in Contents : x \in saved[f]) \in Contents
    <2>1. \E x \in Contents : x \in saved[f]
      BY <1>1
    <2>2. QED
      BY <2>1
  <1>2. ASSUME NEW f \in Files
        PROVE  (IF saved[f] # {} THEN CHOOSE x \in Contents : x \in saved[f] ELSE h[f]) \in Contents
    BY <1>1
  <1>3. QED
    BY <1>2 DEF restore

\* What the hooks leave is a tree.
LEMMA RegeneratedType ==
    ASSUME wt \in [Files -> Contents], NEW w \in Regenerated
    PROVE  w \in [Files -> Contents]
  BY DEF Regenerated

\* The tree hash is the content under the cycles' roots.
LEMMA TreeHashType ==
    ASSUME NEW w \in [Files -> Contents]
    PROVE  tree_hash(w) \in [Under -> Contents]
  BY FilesAssumption DEF tree_hash

\* A cycle opens in a phase that has not ended.
LEMMA OpeningPhaseType == \A c \in Cycles : OPENING_PHASE(c) \in Phases \ Ended
  BY KindAssumption DEF OPENING_PHASE, Phases, Ended, Kinds

\* A run hears about targets only.
LEMMA HeardType ==
    ASSUME NEW c, NEW T \in SUBSET Tests
    PROVE  Heard(c, T) \in SUBSET T
  BY DEF Heard

-----------------------------------------------------------------------------
(* The type invariant.                                                     *)

\* A phase's commit keeps the types of what it writes.
LEMMA StageType ==
    ASSUME TypeOK, NEW c \in Cycles, NEW p \in Tips, stage_and_commit(c, p)
    PROVE  /\ flagged' \in [Cycles -> SUBSET Files]
           /\ wt' \in [Files -> Contents]
           /\ head' \in [Files -> Contents]
           /\ tip' \in Tips
  <1>1. Committed(wt, head, Staged(c, p)) \in [Files -> Contents]
    BY CommittedType DEF TypeOK
  <1>2. flagged' \in [Cycles -> SUBSET Files]
    BY DEF TypeOK, stage_and_commit, Flag, authored_changes, dirty_paths
  <1>3. QED
    BY <1>1, <1>2 DEF TypeOK, stage_and_commit

\* Judging a verdict keeps the types of what it writes.
LEMMA JudgeType ==
    ASSUME TypeOK, NEW c \in Cycles, NEW verdict, NEW others,
           NEW failing \in SUBSET Tests, NEW evs \in SUBSET EventKinds,
           JudgeTest(c, verdict, others, failing, evs)
    PROVE  /\ phase' \in [Cycles -> Phases \cup {"UNOPENED"}]
           /\ events' \in [Cycles -> SUBSET EventKinds]
           /\ flagged' \in [Cycles -> SUBSET Files]
           /\ wt' \in [Files -> Contents]
           /\ head' \in [Files -> Contents]
           /\ tip' \in Tips
           /\ red' \in [Cycles -> SUBSET Tests]
           /\ own' \in [Cycles -> SUBSET [Under -> Contents]]
  <1>1. \A e \in SUBSET EventKinds :
           [events EXCEPT ![c] = @ \cup evs \cup e] \in [Cycles -> SUBSET EventKinds]
    BY DEF TypeOK
  <1>2. {"stub_directive_issued"} \in SUBSET EventKinds /\ {"red_first_violation"} \in SUBSET EventKinds
    BY DEF EventKinds
  <1>3. \A p \in Phases : Move(c, p) => phase' \in [Cycles -> Phases \cup {"UNOPENED"}]
    BY DEF TypeOK, Move
  <1>4. "SENSITIVITY_REQUIRED" \in Phases /\ "AWAITING_IMPL" \in Phases
    BY DEF Phases
  <1>5. "pin" \in Tips /\ "red" \in Tips
    BY DEF Tips
  <1>6. [events EXCEPT ![c] = @ \cup evs] \in [Cycles -> SUBSET EventKinds]
    BY DEF TypeOK
  <1>7. [red EXCEPT ![c] = failing] \in [Cycles -> SUBSET Tests]
    BY DEF TypeOK
  <1>8. events' \in [Cycles -> SUBSET EventKinds]
    BY <1>1, <1>2, <1>6 DEF JudgeTest
  <1>9. phase' \in [Cycles -> Phases \cup {"UNOPENED"}]
    BY <1>3, <1>4 DEF JudgeTest, TypeOK
  <1>10. red' \in [Cycles -> SUBSET Tests] /\ own' \in [Cycles -> SUBSET [Under -> Contents]]
    BY <1>7 DEF JudgeTest, TypeOK
  <1>11. \/ UNCHANGED <<flagged, git>>
         \/ stage_and_commit(c, "pin")
         \/ stage_and_commit(c, "red")
    BY DEF JudgeTest
  <1>12. /\ flagged' \in [Cycles -> SUBSET Files]
         /\ wt' \in [Files -> Contents]
         /\ head' \in [Files -> Contents]
         /\ tip' \in Tips
    BY <1>5, <1>11, StageType DEF TypeOK, git
  <1>13. QED
    BY <1>8, <1>9, <1>10, <1>12

\* The targets reported with an outcome are among the targets run.
LEMMA WithType ==
    ASSUME NEW c, NEW T \in SUBSET Tests, NEW out \in [Heard(c, T) -> Outcomes], NEW o
    PROVE  With(out, o) \in SUBSET T
  BY HeardType DEF With

\* advance in AWAITING_TEST or AWAITING_PIN keeps the types.
LEMMA AdvanceTestType ==
    ASSUME TypeOK, NEW c \in Cycles, NEW retry, AdvanceTest(c, retry)
    PROVE  TypeOK'
  <1> USE DEF TypeOK
  <1>1. PICK out \in [Heard(c, targets[c]) -> Outcomes], others \in BOOLEAN :
           JudgeDeclared(c, out, others) \/ NoAdoption(c, out) \/ Adopt(c, out, others)
    BY DEF AdvanceTest
  <1>2. With(out, "failed") \in SUBSET Tests
    BY WithType
  <1>3. {} \in SUBSET EventKinds /\ {"declared_test_mismatch"} \in SUBSET EventKinds
    BY DEF EventKinds
  <1>4. /\ phase' \in [Cycles -> Phases \cup {"UNOPENED"}]
        /\ targets' \in [Cycles -> SUBSET Tests]
        /\ events' \in [Cycles -> SUBSET EventKinds]
        /\ flagged' \in [Cycles -> SUBSET Files]
        /\ wt' \in [Files -> Contents]
        /\ head' \in [Files -> Contents]
        /\ tip' \in Tips
        /\ red' \in [Cycles -> SUBSET Tests]
        /\ own' \in [Cycles -> SUBSET [Under -> Contents]]
    <2>1. CASE JudgeDeclared(c, out, others)
      <3>1. JudgeTest(c, out, others, With(out, "failed"), {}) /\ UNCHANGED targets
        BY <2>1 DEF JudgeDeclared
      <3>2. QED
        BY <1>2, <1>3, <3>1, JudgeType
    <2>2. CASE NoAdoption(c, out)
      BY <2>2 DEF NoAdoption, git
    <2>3. CASE Adopt(c, out, others)
      <3> DEFINE kept == targets[c] \ With(out, "not_found")
      <3>1. PICK t \in Tests \ (Known \cup Claimed), o \in Outcomes \ {"not_found"} :
               /\ targets' = [targets EXCEPT ![c] = kept \cup {t}]
               /\ \/ JudgeAdopted(c, t, o, others, With(out, "failed"))
                  \/ /\ Record(c, "declared_test_mismatch")
                     /\ UNCHANGED <<phase, flagged, git, red, own>>
        BY <2>3 DEF Adopt
      <3>2. targets' \in [Cycles -> SUBSET Tests]
        BY <3>1
      <3>3. CASE JudgeAdopted(c, t, o, others, With(out, "failed"))
        <4> DEFINE failing == IF o = "failed" THEN With(out, "failed") \cup {t}
                              ELSE With(out, "failed")
        <4>1. failing \in SUBSET Tests
          BY <1>2
        <4>2. JudgeTest(c, [x \in {t} |-> o], others, failing, {"declared_test_mismatch"})
          BY <3>3 DEF JudgeAdopted
        <4> HIDE DEF failing
        <4>3. QED
          BY <1>3, <3>2, <4>1, <4>2, JudgeType
      <3>4. CASE /\ Record(c, "declared_test_mismatch")
                 /\ UNCHANGED <<phase, flagged, git, red, own>>
        BY <1>3, <3>2, <3>4 DEF Record, git
      <3>5. QED
        BY <3>1, <3>3, <3>4
    <2>4. QED
      BY <1>1, <2>1, <2>2, <2>3
  <1>5. seen' \in [Cycles -> SUBSET [Under -> Contents]]
    BY TreeHashType DEF AdvanceTest
  <1>6. QED
    BY <1>4, <1>5 DEF AdvanceTest, ledgerRun, checks

\* advance in AWAITING_IMPL keeps the types.
LEMMA AdvanceImplType ==
    ASSUME TypeOK, NEW c \in Cycles, NEW retry, AdvanceImpl(c, retry)
    PROVE  TypeOK'
  <1> USE DEF TypeOK
  <1>1. seen' \in [Cycles -> SUBSET [Under -> Contents]]
    BY TreeHashType DEF AdvanceImpl
  <1>2. CASE ImplHeld(c)
    BY <1>1, <1>2 DEF AdvanceImpl, ImplHeld, ledgerRun, checks, git
  <1>3. CASE ImplGreen(c)
    <2>1. "green" \in Tips /\ "AWAITING_REFACTOR" \in Phases
      BY DEF Tips, Phases
    <2>2. /\ flagged' \in [Cycles -> SUBSET Files]
          /\ wt' \in [Files -> Contents]
          /\ head' \in [Files -> Contents]
          /\ tip' \in Tips
      BY <1>3, <2>1, StageType DEF ImplGreen
    <2>3. phase' \in [Cycles -> Phases \cup {"UNOPENED"}]
      BY <1>3, <2>1 DEF ImplGreen, Move
    <2>4. green' \in [Cycles -> SUBSET Tests]
      BY <1>3, HeardType DEF ImplGreen
    <2>5. own' \in [Cycles -> SUBSET [Under -> Contents]]
      BY <1>3, TreeHashType DEF ImplGreen
    <2>6. QED
      BY <1>1, <2>2, <2>3, <2>4, <2>5 DEF AdvanceImpl, ledgerRun, checks
  <1>4. QED
    BY <1>2, <1>3 DEF AdvanceImpl

\* Closing a cycle, or holding its close, keeps the types of the run and its cycles.
LEMMA CloseType ==
    ASSUME TypeOK, NEW c \in Cycles, NEW w, NEW h, CloseCycle(c, w, h)
    PROVE  /\ status' \in Statuses
           /\ phase' \in [Cycles -> Phases \cup {"UNOPENED"}]
  <1>1. {"blocked", "complete"} \subseteq Statuses
    BY DEF Statuses
  <1>2. status' \in Statuses
    BY <1>1 DEF TypeOK, CloseCycle, EndRun
  <1>3. Succeed(c, "CLOSED") => phase' \in [Cycles -> Phases \cup {"UNOPENED"}]
    BY OpeningPhaseType DEF TypeOK, Succeed, Phases
  <1>4. QED
    BY <1>2, <1>3 DEF TypeOK, CloseCycle

\* advance in AWAITING_REFACTOR keeps the types.
LEMMA AdvanceRefactorType ==
    ASSUME TypeOK, NEW c \in Cycles, AdvanceRefactor(c)
    PROVE  TypeOK'
  <1> USE DEF TypeOK
  <1>1. PICK fresh \in BOOLEAN, regenerated \in BOOLEAN, w \in Regenerated :
          LET staged == Staged(c, "refactor")
              h0 == Committed(wt, head, staged)
              h == IF regenerated THEN Committed(w, h0, made(w, h0)) ELSE h0
          IN  /\ wt' = w
              /\ head' = h
              /\ tip' = IF regenerated THEN "artifact" ELSE IF staged # {} THEN "refactor" ELSE tip
              /\ \/ UNCHANGED <<status, phase, own>>
                 \/ EndRun("blocked") /\ UNCHANGED <<phase, own>>
                 \/ /\ own' = IF own_suites_run(c, staged, w)
                               THEN [own EXCEPT ![c] = @ \cup {tree_hash(w)}] ELSE own
                    /\ CloseCycle(c, w, h)
    BY DEF AdvanceRefactor
  <1>2. w \in [Files -> Contents]
    BY RegeneratedType
  <1>3. wt' \in [Files -> Contents]
    BY <1>1, <1>2
  <1>4. head' \in [Files -> Contents]
    <2>1. Committed(wt, head, Staged(c, "refactor")) \in [Files -> Contents]
      BY CommittedType
    <2>2. QED
      BY <1>1, <1>2, <2>1, CommittedType
  <1>5. tip' \in Tips
    BY <1>1 DEF Tips
  <1>6. own' \in [Cycles -> SUBSET [Under -> Contents]]
    BY <1>1, <1>2, TreeHashType
  <1>7. "blocked" \in Statuses
    BY DEF Statuses
  <1>8. status' \in Statuses /\ phase' \in [Cycles -> Phases \cup {"UNOPENED"}]
    BY <1>1, <1>7, CloseType DEF EndRun
  <1>9. flagged' \in [Cycles -> SUBSET Files]
    BY DEF AdvanceRefactor, Flag, authored_changes, dirty_paths
  <1>10. seen' \in [Cycles -> SUBSET [Under -> Contents]]
    BY DEF AdvanceRefactor
  <1>11. QED
    BY <1>3, <1>4, <1>5, <1>6, <1>8, <1>9, <1>10 DEF AdvanceRefactor, checks

\* run start keeps the types.
LEMMA RunStartType ==
    ASSUME TypeOK, run_start
    PROVE  TypeOK'
  <1> USE DEF TypeOK
  <1>1. PICK fresh \in BOOLEAN, regenerated \in BOOLEAN, w \in Regenerated :
          /\ wt' = w
          /\ head' = IF regenerated THEN Committed(w, head, made(w, head)) ELSE head
          /\ tip' = IF regenerated THEN "artifact" ELSE tip
          /\ IF fresh
             THEN /\ status' = "live"
                  /\ phase' = [c \in Cycles |-> IF c = 1 THEN OPENING_PHASE(1) ELSE phase[c]]
             ELSE status' = "refused" /\ UNCHANGED phase
    BY DEF run_start
  <1>2. w \in [Files -> Contents]
    BY RegeneratedType
  <1>3. head' \in [Files -> Contents]
    BY <1>1, <1>2, CommittedType
  <1>4. tip' \in Tips /\ status' \in Statuses
    BY <1>1 DEF Tips, Statuses
  <1>5. phase' \in [Cycles -> Phases \cup {"UNOPENED"}]
    BY <1>1, OpeningPhaseType
  <1>6. excluded' \subseteq Files /\ base' \in [Files -> Contents]
    BY DEF run_start, dirty_paths
  <1>7. wt' \in [Files -> Contents]
    BY <1>1, <1>2
  <1>8. QED
    BY <1>3, <1>4, <1>5, <1>6, <1>7 DEF run_start, checks, observed

\* The three steps of a sensitivity check keep the types.
LEMMA SensitivityType ==
    ASSUME TypeOK, NEW c \in Cycles, Sensitivity(c)
    PROVE  TypeOK'
  <1> USE DEF TypeOK, ledgerRun, cycleRows, git, observed
  <1>1. CASE sensitivity_begin(c)
    <2>1. capture(wt, head) \in [Files -> SUBSET Contents]
      BY CaptureType
    <2>2. check' \in [Cycles -> SUBSET [Files -> SUBSET Contents]]
      BY <1>1, <2>1 DEF sensitivity_begin
    <2>3. QED
      BY <1>1, <2>2 DEF sensitivity_begin
  <1>2. CASE sensitivity_check(c)
    BY <1>2 DEF sensitivity_check
  <1>3. CASE sensitivity_end(c)
    <2>1. PICK saved \in check[c] :
            LET w == restore(saved, head)
                restored_ok == capture(w, head) = saved
            IN  /\ wt' = w
                /\ verified' = [verified EXCEPT ![c] = @ \/ restored_ok]
                /\ proven' = [proven EXCEPT ![c] = @ \/ (restored_ok /\ bitten[c])]
      BY <1>3 DEF sensitivity_end
    <2>2. wt' \in [Files -> Contents]
      BY <2>1, RestoreType
    <2>3. verified' \in [Cycles -> BOOLEAN]
      BY <2>1
    <2>4. proven' \in [Cycles -> BOOLEAN]
      BY <2>1
    <2>5. check' \in [Cycles -> SUBSET [Files -> SUBSET Contents]] /\ bitten' \in [Cycles -> BOOLEAN]
      BY <1>3 DEF sensitivity_end
    <2>6. QED
      BY <1>3, <2>2, <2>3, <2>4, <2>5 DEF sensitivity_end
  <1>4. QED
    BY <1>1, <1>2, <1>3 DEF Sensitivity

\* Every step keeps the types.
LEMMA TypeStep ==
    ASSUME TypeOK, [Next]_vars
    PROVE  TypeOK'
  <1> USE DEF TypeOK
  <1>1. CASE \E c \in Cycles : Advance(c)
    <2> SUFFICES ASSUME NEW c \in Cycles, Advance(c) PROVE TypeOK'
      BY <1>1
    <2>1. ASSUME NEW retry \in BOOLEAN, AdvanceTest(c, retry) PROVE TypeOK'
      BY <2>1, AdvanceTestType
    <2>2. ASSUME NEW retry \in BOOLEAN, AdvanceImpl(c, retry) PROVE TypeOK'
      BY <2>2, AdvanceImplType
    <2>3. CASE AdvanceSensitivity(c)
      BY <2>3 DEF AdvanceSensitivity, Move, Phases, ledgerRun, checks, git, observed
    <2>4. CASE AdvanceRefactor(c)
      BY <2>4, AdvanceRefactorType
    <2>5. CASE AdvanceReferenceBlocked(c)
      BY <2>5 DEF AdvanceReferenceBlocked, EndRun, Statuses, cycleRows, checks, git, observed
    <2>6. QED
      BY <2>1, <2>2, <2>3, <2>4, <2>5 DEF Advance
  <1>2. CASE Command
    <2> SUFFICES ASSUME NEW c \in Cycles,
                        cycle_skip(c) \/ annotate(c) \/ target(c) \/ Sensitivity(c)
                 PROVE  TypeOK'
      BY <1>2 DEF Command
    <2>1. CASE cycle_skip(c)
      <3>1. phase' \in [Cycles -> Phases \cup {"UNOPENED"}]
        BY <2>1, OpeningPhaseType DEF cycle_skip, Succeed, Phases
      <3>2. status' \in Statuses
        BY <2>1 DEF cycle_skip, EndRun, Statuses
      <3>3. QED
        BY <2>1, <3>1, <3>2 DEF cycle_skip, checks, git, observed
    <2>2. CASE annotate(c)
      BY <2>2 DEF annotate, ledgerRun, checks, git, observed
    <2>3. CASE target(c)
      <3>1. "target_named_by_agent" \in EventKinds
        BY DEF EventKinds
      <3>2. QED
        BY <2>3, <3>1 DEF target, Record, ledgerRun, checks, git, observed
    <2>4. CASE Sensitivity(c)
      BY <2>4, SensitivityType
    <2>5. QED
      BY <2>1, <2>2, <2>3, <2>4
  <1>3. CASE Supervise
    <2> USE DEF Statuses, EndRun, cycleRows, checks, git, observed
    <2>1. CASE run_start
      BY <2>1, RunStartType
    <2>2. CASE blocker
      BY <2>2 DEF blocker
    <2>3. CASE resume_unblock
      BY <2>3 DEF resume_unblock
    <2>4. CASE run_abandon
      BY <2>4 DEF run_abandon
    <2>5. QED
      BY <1>3, <2>1, <2>2, <2>3, <2>4 DEF Supervise
  <1>4. CASE Edit
    BY <1>4 DEF Edit, ledgerRun, cycleRows, checks, observed
  <1>5. CASE CommitByHand
    BY <1>5 DEF CommitByHand, Tips, dirty_paths, ledgerRun, cycleRows, checks, observed
  <1>6. CASE UNCHANGED vars
    BY <1>6 DEF vars, ledgerRun, cycleRows, checks, git, observed
  <1>7. QED
    BY <1>1, <1>2, <1>3, <1>4, <1>5, <1>6 DEF Next, Over

\* Every variable keeps its type: what the ledger rows, git and the observations may hold.
THEOREM TypeCorrect == Spec => []TypeOK
  <1>1. Init => TypeOK
    <2>1. InitHead \in [Files -> Contents] /\ Declared \in [Cycles -> SUBSET Tests]
      BY FilesAssumption, TestsAssumption
    <2>2. QED
      BY <2>1 DEF Init, TypeOK, Statuses, Tips
  <1>2. TypeOK /\ [Next]_vars => TypeOK'
    BY TypeStep
  <1>3. QED
    BY <1>1, <1>2, PTL DEF Spec

-----------------------------------------------------------------------------
(* The run's position.                                                     *)

\* What any step may do to the run row and to the phases of the cycle rows: nothing,
\* start the run, move the open cycle, end it and open the next, or change the row alone.
Starts ==
    /\ status = "none"
    /\ \/ status' = "refused" /\ UNCHANGED phase
       \/ /\ status' = "live"
          /\ phase' = [c \in Cycles |-> IF c = 1 THEN OPENING_PHASE(1) ELSE phase[c]]

Moves(c) ==
    /\ status = "live" /\ IsOpen(c) /\ UNCHANGED status
    /\ \E p \in Phases \ Ended : Move(c, p)

Ends(c) ==
    /\ status = "live" /\ IsOpen(c)
    /\ \E p \in Ended : Succeed(c, p)
    /\ IF Last(c) THEN status' \in {"complete", "blocked"} ELSE UNCHANGED status

Turns ==
    /\ UNCHANGED phase
    /\ \/ status = "live" /\ status' = "blocked"
       \/ status = "blocked" /\ status' = "live"
       \/ status \in {"live", "blocked"} /\ status' = "abandoned"

RunStep ==
    \/ UNCHANGED <<status, phase>>
    \/ Starts
    \/ \E c \in Cycles : Moves(c) \/ Ends(c)
    \/ Turns

\* Judging moves the judged cycle's phase at most, to one that has not ended.
LEMMA JudgeMoves ==
    ASSUME NEW c \in Cycles, NEW verdict, NEW others, NEW failing, NEW evs,
           JudgeTest(c, verdict, others, failing, evs)
    PROVE  UNCHANGED phase \/ \E p \in Phases \ Ended : Move(c, p)
  <1>1. "SENSITIVITY_REQUIRED" \in Phases \ Ended /\ "AWAITING_IMPL" \in Phases \ Ended
    BY DEF Phases, Ended
  <1>2. QED
    BY <1>1 DEF JudgeTest

\* advance in the test phases moves its cycle's phase at most, to one that has not ended.
LEMMA AdvanceTestMoves ==
    ASSUME NEW c \in Cycles, NEW retry, AdvanceTest(c, retry)
    PROVE  UNCHANGED status /\ (UNCHANGED phase \/ \E p \in Phases \ Ended : Move(c, p))
  <1>1. PICK out \in [Heard(c, targets[c]) -> Outcomes], others \in BOOLEAN :
           JudgeDeclared(c, out, others) \/ NoAdoption(c, out) \/ Adopt(c, out, others)
    BY DEF AdvanceTest
  <1>2. UNCHANGED status
    BY DEF AdvanceTest, ledgerRun
  <1>3. CASE JudgeDeclared(c, out, others)
    BY <1>2, <1>3, JudgeMoves DEF JudgeDeclared
  <1>4. CASE NoAdoption(c, out)
    BY <1>2, <1>4 DEF NoAdoption
  <1>5. CASE Adopt(c, out, others)
    <2>1. \/ UNCHANGED phase
          \/ \E t, o : JudgeAdopted(c, t, o, others, With(out, "failed"))
      BY <1>5 DEF Adopt
    <2>2. ASSUME NEW t, NEW o, JudgeAdopted(c, t, o, others, With(out, "failed"))
          PROVE  UNCHANGED phase \/ \E p \in Phases \ Ended : Move(c, p)
      BY <2>2, JudgeMoves DEF JudgeAdopted
    <2>3. QED
      BY <1>2, <2>1, <2>2
  <1>6. QED
    BY <1>1, <1>3, <1>4, <1>5

\* Seen on the run row and the cycle phases, every step is one of these.
LEMMA NextIsRunStep ==
    ASSUME [Next]_vars
    PROVE  RunStep
  <1>1. CASE \E c \in Cycles : Advance(c)
    <2> SUFFICES ASSUME NEW c \in Cycles, Advance(c) PROVE RunStep
      BY <1>1
    <2>1. ASSUME NEW retry \in BOOLEAN, AdvanceTest(c, retry) PROVE RunStep
      <3>1. status = "live" /\ IsOpen(c)
        BY <2>1 DEF AdvanceTest, Ready, Live
      <3>2. UNCHANGED status /\ (UNCHANGED phase \/ \E p \in Phases \ Ended : Move(c, p))
        BY <2>1, AdvanceTestMoves
      <3>3. QED
        BY <3>1, <3>2 DEF RunStep, Moves
    <2>2. ASSUME NEW retry \in BOOLEAN, AdvanceImpl(c, retry) PROVE RunStep
      <3>1. "AWAITING_REFACTOR" \in Phases \ Ended
        BY DEF Phases, Ended
      <3>2. QED
        BY <2>2, <3>1 DEF AdvanceImpl, ImplHeld, ImplGreen, Ready, Live, ledgerRun, RunStep, Moves
    <2>3. CASE AdvanceSensitivity(c)
      <3>1. "AWAITING_REFACTOR" \in Phases \ Ended
        BY DEF Phases, Ended
      <3>2. QED
        BY <2>3, <3>1 DEF AdvanceSensitivity, Ready, Live, ledgerRun, RunStep, Moves
    <2>4. CASE AdvanceRefactor(c)
      <3>1. status = "live" /\ IsOpen(c)
        BY <2>4 DEF AdvanceRefactor, Ready, Live
      <3>2. \/ UNCHANGED <<status, phase>>
            \/ EndRun("blocked") /\ UNCHANGED phase
            \/ \E w, h : CloseCycle(c, w, h)
        BY <2>4 DEF AdvanceRefactor
      <3>3. ASSUME NEW w, NEW h, CloseCycle(c, w, h) PROVE RunStep
        <4>1. "CLOSED" \in Ended
          BY DEF Ended
        <4>2. Last(c) => Succeed(c, "CLOSED") /\ status' \in {"complete", "blocked"}
          BY <3>3 DEF CloseCycle, EndRun
        <4>3. ~Last(c) => \/ status' = "blocked" /\ UNCHANGED phase
                          \/ Succeed(c, "CLOSED") /\ UNCHANGED status
          BY <3>3 DEF CloseCycle, EndRun
        <4>4. QED
          BY <3>1, <4>1, <4>2, <4>3 DEF RunStep, Ends, Turns
      <3>4. QED
        BY <3>1, <3>2, <3>3 DEF RunStep, Turns, EndRun
    <2>5. CASE AdvanceReferenceBlocked(c)
      BY <2>5 DEF AdvanceReferenceBlocked, Live, EndRun, cycleRows, RunStep, Turns
    <2>6. QED
      BY <2>1, <2>2, <2>3, <2>4, <2>5 DEF Advance
  <1>2. CASE Command
    <2> SUFFICES ASSUME NEW c \in Cycles,
                        cycle_skip(c) \/ annotate(c) \/ target(c) \/ Sensitivity(c)
                 PROVE  RunStep
      BY <1>2 DEF Command
    <2>1. CASE cycle_skip(c)
      <3>1. "SKIPPED" \in Ended
        BY DEF Ended
      <3>2. QED
        BY <2>1, <3>1 DEF cycle_skip, Live, EndRun, RunStep, Ends
    <2>2. CASE annotate(c)
      BY <2>2 DEF annotate, ledgerRun, RunStep
    <2>3. CASE target(c)
      BY <2>3 DEF target, ledgerRun, RunStep
    <2>4. CASE Sensitivity(c)
      BY <2>4 DEF Sensitivity, sensitivity_begin, sensitivity_check, sensitivity_end,
                  ledgerRun, cycleRows, RunStep
    <2>5. QED
      BY <2>1, <2>2, <2>3, <2>4
  <1>3. CASE Supervise
    BY <1>3 DEF Supervise, run_start, blocker, resume_unblock, run_abandon, Live, EndRun,
                cycleRows, RunStep, Starts, Turns
  <1>4. CASE Edit \/ CommitByHand \/ UNCHANGED vars
    BY <1>4 DEF Edit, CommitByHand, vars, ledgerRun, cycleRows, RunStep
  <1>5. QED
    BY <1>1, <1>2, <1>3, <1>4 DEF Next, Over

-----------------------------------------------------------------------------
(* The order of the cycles.                                                *)

\* OrderedCycles is not inductive: a step that ends cycle c writes the row of c + 1, so
\* the rows behind the open one must be known to be ended and those ahead unopened, from
\* the run's start on.
OrderInv ==
    /\ OrderedCycles
    /\ \A c \in Cycles : c + 1 \in Cycles /\ phase[c] \in Ended => phase[c + 1] # "UNOPENED"
    /\ status \in {"none", "refused"} => \A c \in Cycles : phase[c] = "UNOPENED"
    /\ status \notin {"none", "refused"} /\ 1 \in Cycles => phase[1] # "UNOPENED"
    /\ CompleteIsDone

\* Arithmetic of the ordinals 1..N.
LEMMA CyclesAreNumbers ==
    /\ \A c \in Cycles : c \in Nat /\ 1 <= c /\ c <= N
    /\ \A c \in Cycles : c # N => c + 1 \in Cycles
    /\ N # 0 => 1 \in Cycles /\ N \in Cycles
    /\ N = 0 => Cycles = {}
  BY NAssumption DEF Cycles

\* What lies around the open cycle.
LEMMA AroundOpen ==
    ASSUME OrderInv, NEW c \in Cycles, IsOpen(c)
    PROVE  /\ phase[c] \notin Ended /\ phase[c] # "UNOPENED"
           /\ \A d \in Cycles : d < c => phase[d] \in Ended
           /\ \A d \in Cycles : c < d => phase[d] = "UNOPENED"
           /\ OpenCycles = {c}
  <1>1. phase[c] \notin Ended /\ phase[c] # "UNOPENED"
    BY DEF IsOpen, OpenCycles
  <1>2. \A d \in Cycles : d < c => phase[d] \in Ended
    BY <1>1 DEF OrderInv, OrderedCycles
  <1>3. \A d \in Cycles : c < d => phase[d] = "UNOPENED"
    BY <1>1 DEF OrderInv, OrderedCycles
  <1>4. ASSUME NEW d \in OpenCycles PROVE d = c
    <2>1. d \in Cycles /\ phase[d] \notin Ended /\ phase[d] # "UNOPENED"
      BY DEF OpenCycles
    <2>2. ~(d < c) /\ ~(c < d)
      BY <1>2, <1>3, <2>1
    <2>3. QED
      BY <2>1, <2>2, CyclesAreNumbers
  <1>5. QED
    BY <1>1, <1>2, <1>3, <1>4 DEF IsOpen

\* Starting the run opens the first cycle only.
LEMMA StartShape ==
    ASSUME TypeOK, OrderInv, Starts, status' = "live"
    PROVE  \A c \in Cycles : phase'[c] = IF c = 1 THEN OPENING_PHASE(1) ELSE "UNOPENED"
  BY DEF TypeOK, OrderInv, Starts

\* Ending the open cycle ends nothing else and opens the next, if there is one.
LEMMA EndShape ==
    ASSUME TypeOK, OrderInv, NEW c \in Cycles, Ends(c)
    PROVE  /\ phase'[c] \in Ended
           /\ \A d \in Cycles : d < c => phase'[d] = phase[d] /\ phase'[d] \in Ended
           /\ \A d \in Cycles : d = c + 1 => phase'[d] = OPENING_PHASE(d)
           /\ \A d \in Cycles : c + 1 < d => phase'[d] = "UNOPENED"
  <1>1. PICK p \in Ended : Succeed(c, p)
    BY DEF Ends
  <1>2. IsOpen(c)
    BY DEF Ends
  <1>3. QED
    BY <1>1, <1>2, AroundOpen, CyclesAreNumbers DEF Succeed

\* A phase that has not ended, an opening one among them, is told from UNOPENED.
LEMMA EndedPhases ==
    ASSUME NEW c \in Cycles, NEW p \in Phases \ Ended
    PROVE  p # "UNOPENED" /\ OPENING_PHASE(c) # "UNOPENED" /\ OPENING_PHASE(c) \notin Ended
  BY OpeningPhaseType DEF Phases

\* The order of the cycles, and what a complete run has done, are preserved.
LEMMA OrderStep ==
    ASSUME TypeOK, OrderInv, [Next]_vars
    PROVE  OrderInv'
  <1> USE DEF OrderInv, OrderedCycles, CompleteIsDone
  <1>1. CASE UNCHANGED <<status, phase>>
    BY <1>1
  <1>2. CASE Starts
    <2>1. CASE status' = "refused" /\ UNCHANGED phase
      BY <1>2, <2>1 DEF Starts
    <2>2. CASE status' = "live"
      <3>1. \A c \in Cycles : phase'[c] = IF c = 1 THEN OPENING_PHASE(1) ELSE "UNOPENED"
        BY <1>2, <2>2, StartShape
      <3>2. \A c \in Cycles : phase'[c] # "UNOPENED" => c = 1 /\ phase'[c] \notin Ended
        BY <3>1, OpeningPhaseType
      <3>3. \A c \in Cycles : phase'[c] \notin Ended
        BY <3>1, <3>2 DEF Ended
      <3>4. 1 \in Cycles => phase'[1] # "UNOPENED"
        BY <3>1, OpeningPhaseType DEF Phases
      <3>5. QED
        BY <2>2, <3>2, <3>3, <3>4, CyclesAreNumbers
    <2>3. QED
      BY <1>2, <2>1, <2>2 DEF Starts
  <1>3. ASSUME NEW c \in Cycles, Moves(c) PROVE OrderInv'
    <2>1. PICK p \in Phases \ Ended : Move(c, p)
      BY <1>3 DEF Moves
    <2>2. status = "live" /\ status' = "live" /\ IsOpen(c)
      BY <1>3 DEF Moves
    <2>3. \A d \in Cycles : phase'[d] = IF d = c THEN p ELSE phase[d]
      BY <2>1 DEF TypeOK, Move
    <2>4. phase[c] \notin Ended /\ phase[c] # "UNOPENED" /\ p # "UNOPENED"
      BY <2>2, AroundOpen, EndedPhases
    <2>5. QED
      BY <2>2, <2>3, <2>4, CyclesAreNumbers
  <1>4. ASSUME NEW c \in Cycles, Ends(c) PROVE OrderInv'
    <2>1. /\ phase'[c] \in Ended
          /\ \A d \in Cycles : d < c => phase'[d] \in Ended
          /\ \A d \in Cycles : d = c + 1 => phase'[d] = OPENING_PHASE(d)
          /\ \A d \in Cycles : c + 1 < d => phase'[d] = "UNOPENED"
      BY <1>4, EndShape
    <2>2. \A d \in Cycles : OPENING_PHASE(d) # "UNOPENED" /\ OPENING_PHASE(d) \notin Ended
      BY OpeningPhaseType DEF Phases
    <2>3. "UNOPENED" \notin Ended
      BY DEF Ended
    <2>4. OrderedCycles'
      BY <2>1, CyclesAreNumbers
    <2>5. \A d \in Cycles : d + 1 \in Cycles /\ phase'[d] \in Ended => phase'[d + 1] # "UNOPENED"
      BY <2>1, <2>2, <2>3, CyclesAreNumbers
    <2>6. status' \notin {"none", "refused"}
      BY <1>4 DEF Ends
    <2>7. 1 \in Cycles => phase'[1] # "UNOPENED"
      BY <2>1, <2>2, <2>3, CyclesAreNumbers
    <2>8. CompleteIsDone'
      <3>1. status' = "complete" => c = N
        BY <1>4 DEF Ends, Last
      <3>2. QED
        BY <2>1, <3>1, CyclesAreNumbers
    <2>9. QED
      BY <2>4, <2>5, <2>6, <2>7, <2>8
  <1>5. CASE Turns
    BY <1>5 DEF Turns
  <1>6. QED
    BY <1>1, <1>2, <1>3, <1>4, <1>5, NextIsRunStep DEF RunStep

\* The inductive invariant behind CyclesInOrder and CompleteRunIsDone.
LEMMA OrderInvariant == Spec => []OrderInv
  <1>1. Init => OrderInv
    BY DEF Init, OrderInv, OrderedCycles, CompleteIsDone, Ended
  <1>2. TypeOK /\ OrderInv /\ [Next]_vars => OrderInv'
    BY OrderStep
  <1>3. QED
    BY <1>1, <1>2, TypeCorrect, PTL DEF Spec

\* The cycles of every plan run in the plan's order, one at a time.
THEOREM CyclesInOrder == Spec => []OrderedCycles
  <1>1. OrderInv => OrderedCycles
    BY DEF OrderInv
  <1>2. QED
    BY <1>1, OrderInvariant, PTL

\* A run whose row says complete has closed or skipped every declared cycle.
THEOREM CompleteRunIsDone == Spec => []CompleteIsDone
  <1>1. OrderInv => CompleteIsDone
    BY DEF OrderInv
  <1>2. QED
    BY <1>1, OrderInvariant, PTL

-----------------------------------------------------------------------------
(* TddRun implements PlanProgress.                                         *)

doneCycles == {c \in Cycles : phase[c] \in Ended}

\* `current` is the open cycle, when one is open.
LEMMA CurrentIsOpen ==
    ASSUME OrderInv, NEW c \in Cycles, IsOpen(c)
    PROVE  current = c
  <1>1. OpenCycles = {c}
    BY AroundOpen
  <1>2. \A d \in Cycles : IsOpen(d) <=> d = c
    BY <1>1, CyclesAreNumbers DEF IsOpen
  <1>3. QED
    BY <1>1, <1>2 DEF current

\* Ending cycle c makes c + 1 the open cycle, or leaves none.
LEMMA EndCurrent ==
    ASSUME TypeOK, OrderInv, NEW c \in Cycles, Ends(c)
    PROVE  /\ doneCycles' = doneCycles \cup {c}
           /\ c = N => current' = 0
           /\ c # N => current' = c + 1
  <1>1. /\ phase'[c] \in Ended
        /\ \A d \in Cycles : d < c => phase'[d] = phase[d] /\ phase'[d] \in Ended
        /\ \A d \in Cycles : d = c + 1 => phase'[d] = OPENING_PHASE(d)
        /\ \A d \in Cycles : c + 1 < d => phase'[d] = "UNOPENED"
    BY EndShape
  <1>2. /\ \A d \in Cycles : d < c => phase[d] \in Ended
        /\ \A d \in Cycles : c < d => phase[d] = "UNOPENED"
    BY AroundOpen DEF Ends
  <1>3. \A d \in Cycles : OPENING_PHASE(d) \notin Ended /\ OPENING_PHASE(d) # "UNOPENED"
    BY OpeningPhaseType DEF Phases
  <1>4. "UNOPENED" \notin Ended
    BY DEF Ended
  <1>5. \A d \in Cycles : phase'[d] \in Ended <=> d < c \/ d = c
    BY <1>1, <1>3, <1>4, CyclesAreNumbers
  <1>6. \A d \in Cycles : phase[d] \in Ended => d < c \/ d = c
    BY <1>2, <1>4, CyclesAreNumbers
  <1>7. doneCycles' = doneCycles \cup {c}
    BY <1>2, <1>5, <1>6 DEF doneCycles
  <1>8. OpenCycles' = {d \in Cycles : d = c + 1}
    BY <1>1, <1>3, <1>4, CyclesAreNumbers DEF OpenCycles
  <1>9. CASE c = N
    <2>1. OpenCycles' = {}
      BY <1>8, <1>9, CyclesAreNumbers
    <2>2. QED
      BY <1>7, <1>9, <2>1 DEF current
  <1>10. CASE c # N
    <2>1. c + 1 \in Cycles
      BY <1>10, CyclesAreNumbers
    <2>2. \A d \in Cycles : IsOpen(d)' <=> d = c + 1
      BY <1>8, <2>1, CyclesAreNumbers DEF IsOpen
    <2>3. OpenCycles' # {}
      BY <1>8, <2>1
    <2>4. QED
      BY <1>7, <1>10, <2>1, <2>2, <2>3 DEF current
  <1>11. QED
    BY <1>9, <1>10

\* Moving the open cycle to a phase that has not ended leaves the mapping alone.
LEMMA MoveCurrent ==
    ASSUME TypeOK, NEW c \in Cycles, Moves(c)
    PROVE  UNCHANGED <<status, doneCycles, current>>
  <1>1. PICK p \in Phases \ Ended : Move(c, p)
    BY DEF Moves
  <1>2. phase[c] \notin Ended /\ phase[c] # "UNOPENED" /\ p \notin Ended /\ p # "UNOPENED"
    BY <1>1, EndedPhases DEF Moves, IsOpen, OpenCycles
  <1>3. \A d \in Cycles : phase'[d] = IF d = c THEN p ELSE phase[d]
    BY <1>1 DEF TypeOK, Move
  <1>4. \A d \in Cycles :
           /\ phase'[d] \in Ended <=> phase[d] \in Ended
           /\ phase'[d] = "UNOPENED" <=> phase[d] = "UNOPENED"
    BY <1>2, <1>3
  <1>5. UNCHANGED doneCycles
    BY <1>4 DEF doneCycles
  <1>6. UNCHANGED OpenCycles
    BY <1>4 DEF OpenCycles
  <1>7. UNCHANGED current
    BY <1>6 DEF current, IsOpen
  <1>8. QED
    BY <1>5, <1>7 DEF Moves

\* Starting the run makes 1 the current cycle, or 0 in a plan without cycles.
LEMMA StartCurrent ==
    ASSUME TypeOK, OrderInv, Starts, status' = "live"
    PROVE  /\ UNCHANGED doneCycles
           /\ current' = IF N = 0 THEN 0 ELSE 1
  <1>1. \A c \in Cycles : phase'[c] = IF c = 1 THEN OPENING_PHASE(1) ELSE "UNOPENED"
    BY StartShape
  <1>2. \A c \in Cycles : phase[c] = "UNOPENED"
    BY DEF Starts, OrderInv
  <1>3. \A c \in Cycles : OPENING_PHASE(c) \notin Ended /\ OPENING_PHASE(c) # "UNOPENED"
    BY OpeningPhaseType DEF Phases
  <1>4. "UNOPENED" \notin Ended
    BY DEF Ended
  <1>5. UNCHANGED doneCycles
    BY <1>1, <1>2, <1>3, <1>4 DEF doneCycles
  <1>6. OpenCycles' = {c \in Cycles : c = 1}
    BY <1>1, <1>3, <1>4 DEF OpenCycles
  <1>7. CASE N = 0
    <2>1. OpenCycles' = {}
      BY <1>7, CyclesAreNumbers, <1>6
    <2>2. QED
      BY <1>5, <1>7, <2>1 DEF current
  <1>8. CASE N # 0
    <2>1. 1 \in Cycles
      BY <1>8, CyclesAreNumbers
    <2>2. \A d \in Cycles : IsOpen(d)' <=> d = 1
      BY <1>6, <2>1, CyclesAreNumbers DEF IsOpen
    <2>3. QED
      BY <1>5, <1>6, <1>8, <2>1, <2>2 DEF current
  <1>9. QED
    BY <1>7, <1>8

\* The mapping depends on the phases alone.
LEMMA SameCurrent ==
    ASSUME UNCHANGED phase
    PROVE  UNCHANGED <<doneCycles, current>>
  BY DEF doneCycles, current, IsOpen, OpenCycles

\* Every step of the run is a step of PlanProgress or a stutter.
LEMMA ProgressStep ==
    ASSUME TypeOK, OrderInv, [Next]_vars
    PROVE  [Progress!Next]_(Progress!vars)
  <1> USE DEF doneCycles, Progress!Next, Progress!vars
  <1>1. CASE UNCHANGED <<status, phase>>
    BY <1>1, SameCurrent
  <1>2. CASE Starts
    <2>1. \A c \in Cycles : phase[c] = "UNOPENED"
      BY <1>2 DEF Starts, OrderInv
    <2>2. current = 0
      BY <2>1 DEF current, OpenCycles
    <2>3. CASE status' = "refused" /\ UNCHANGED phase
      BY <1>2, <2>3, SameCurrent DEF Starts, Progress!Start
    <2>4. CASE status' = "live"
      BY <1>2, <2>4, StartCurrent DEF Starts, Progress!Start
    <2>5. QED
      BY <1>2, <2>3, <2>4 DEF Starts
  <1>3. ASSUME NEW c \in Cycles, Moves(c) PROVE [Progress!Next]_(Progress!vars)
    BY <1>3, MoveCurrent
  <1>4. ASSUME NEW c \in Cycles, Ends(c) PROVE [Progress!Next]_(Progress!vars)
    <2>1. current = c
      BY <1>4, CurrentIsOpen DEF Ends
    <2>2. c # 0 /\ (c = N \/ c < N)
      BY CyclesAreNumbers, NAssumption
    <2>3. /\ doneCycles' = doneCycles \cup {c}
          /\ c = N => current' = 0
          /\ c # N => current' = c + 1
      BY <1>4, EndCurrent
    <2>4. Progress!Finish
      BY <1>4, <2>1, <2>2, <2>3 DEF Ends, Last, Progress!Finish
    <2>5. QED
      BY <2>4
  <1>5. CASE Turns
    BY <1>5, SameCurrent DEF Turns, Progress!Pause, Progress!Resume, Progress!Abandon
  <1>6. QED
    BY <1>1, <1>2, <1>3, <1>4, <1>5, NextIsRunStep DEF RunStep

\* What a supervisor sees of a run is PlanProgress: cycles done one by one in the plan's
\* order, no work while the run is not live, completion with the last cycle only.
THEOREM RefinesPlanProgress == Spec => ImplementsPlanProgress
  <1>1. Init => Progress!Init
    BY DEF Init, Progress!Init, current, OpenCycles, Ended
  <1>2. TypeOK /\ OrderInv /\ [Next]_vars => [Progress!Next]_(Progress!vars)
    BY ProgressStep
  <1>3. QED
    BY <1>1, <1>2, TypeCorrect, OrderInvariant, PTL DEF Spec, ImplementsPlanProgress, Progress!Spec

-----------------------------------------------------------------------------
(* The evidence of a cycle.                                                *)

Single(c) == \E t \in Tests : targets[c] = {t}

\* How a step may change cycle c's targets.
Retargets(c) ==
    \/ targets'[c] = targets[c]
    \/ "target_named_by_agent" \in events'[c] /\ Single(c)'
    \/ /\ "declared_test_mismatch" \in events'[c]
       /\ phase[c] \in {"AWAITING_TEST", "AWAITING_PIN"}
       /\ Single(c) => Single(c)'

\* How a step may move cycle c, and what it then leaves as evidence.
Leaves(c) ==
    \/ phase'[c] = phase[c] /\ red'[c] = red[c] /\ green'[c] = green[c]
    \/ phase[c] = "UNOPENED" /\ phase'[c] = OPENING_PHASE(c)
    \/ /\ phase[c] = "AWAITING_TEST" /\ phase'[c] = "AWAITING_IMPL"
       /\ Single(c) => targets'[c] \subseteq red'[c]
    \/ /\ phase[c] = "AWAITING_TEST" /\ phase'[c] = "SENSITIVITY_REQUIRED"
       /\ "red_first_violation" \in events'[c]
    \/ phase[c] = "AWAITING_PIN" /\ phase'[c] = "SENSITIVITY_REQUIRED"
    \/ /\ phase[c] = "AWAITING_IMPL" /\ phase'[c] = "AWAITING_REFACTOR"
       /\ targets'[c] = targets[c] /\ red'[c] = red[c]
       /\ green'[c] = Heard(c, targets[c])
    \/ phase[c] = "SENSITIVITY_REQUIRED" /\ phase'[c] = "AWAITING_REFACTOR" /\ verified[c]
    \/ /\ phase[c] = "AWAITING_REFACTOR" /\ phase'[c] = "CLOSED"
       /\ targets'[c] = targets[c] /\ red'[c] = red[c] /\ green'[c] = green[c]
    \/ phase'[c] = "SKIPPED"

Evidence(c) ==
    /\ events[c] \subseteq events'[c]
    /\ verified[c] => verified'[c]
    /\ "red_first_violation" \in events'[c] =>
          "red_first_violation" \in events[c] \/ phase'[c] = "SENSITIVITY_REQUIRED"
    /\ Retargets(c)
    /\ Leaves(c)

\* A step that touches none of what Evidence reads satisfies it.
LEMMA SameEvidence ==
    ASSUME NEW c \in Cycles,
           phase'[c] = phase[c], targets'[c] = targets[c], events'[c] = events[c],
           verified'[c] = verified[c], red'[c] = red[c], green'[c] = green[c]
    PROVE  Evidence(c)
  BY DEF Evidence, Retargets, Leaves

\* Judging a verdict leaves the evidence it moves on.
LEMMA JudgeEvidence ==
    ASSUME TypeOK, NEW c \in Cycles, NEW verdict, NEW others, NEW failing, NEW evs,
           "red_first_violation" \notin evs, JudgeTest(c, verdict, others, failing, evs)
    PROVE  /\ \A d \in Cycles \ {c} :
                 phase'[d] = phase[d] /\ events'[d] = events[d] /\ red'[d] = red[d]
           /\ events[c] \cup evs \subseteq events'[c]
           /\ "red_first_violation" \in events'[c] =>
                 "red_first_violation" \in events[c] \/ phase'[c] = "SENSITIVITY_REQUIRED"
           /\ \/ phase'[c] = phase[c] /\ red'[c] = red[c]
              \/ /\ phase[c] = "AWAITING_TEST" /\ phase'[c] = "AWAITING_IMPL"
                 /\ red'[c] = failing
                 /\ \A t \in DOMAIN verdict : verdict[t] = "failed"
              \/ /\ phase[c] = "AWAITING_TEST" /\ phase'[c] = "SENSITIVITY_REQUIRED"
                 /\ "red_first_violation" \in events'[c]
              \/ phase[c] = "AWAITING_PIN" /\ phase'[c] = "SENSITIVITY_REQUIRED"
  BY DEF JudgeTest, Move, TypeOK

\* A single target is heard.
LEMMA HeardSingle ==
    ASSUME NEW c \in Cycles, NEW t \in Tests
    PROVE  Heard(c, {t}) = {t}
  BY TestsAssumption DEF Heard, Before

\* advance in the test phases leaves the evidence it moves on.
LEMMA AdvanceTestEvidence ==
    ASSUME TypeOK, NEW c \in Cycles, NEW retry, AdvanceTest(c, retry), NEW d \in Cycles
    PROVE  Evidence(d)
  <1>1. PICK out \in [Heard(c, targets[c]) -> Outcomes], others \in BOOLEAN :
           JudgeDeclared(c, out, others) \/ NoAdoption(c, out) \/ Adopt(c, out, others)
    BY DEF AdvanceTest
  <1>2. phase[c] \in {"AWAITING_TEST", "AWAITING_PIN"} /\ UNCHANGED <<verified, green>>
    BY DEF AdvanceTest, checks
  <1>3. CASE JudgeDeclared(c, out, others)
    <2>1. JudgeTest(c, out, others, With(out, "failed"), {}) /\ UNCHANGED targets
      BY <1>3 DEF JudgeDeclared
    <2>2. CASE d # c
      BY <1>2, <2>1, <2>2, JudgeEvidence, SameEvidence
    <2>3. CASE d = c
      <3>1. ASSUME Single(c), \A t \in DOMAIN out : out[t] = "failed"
            PROVE  targets[c] \subseteq With(out, "failed")
        BY <3>1, HeardSingle DEF Single, With
      <3>2. QED
        BY <1>2, <2>1, <2>3, <3>1, JudgeEvidence DEF Evidence, Retargets, Leaves
    <2>4. QED
      BY <2>2, <2>3
  <1>4. CASE NoAdoption(c, out)
    BY <1>2, <1>4, SameEvidence DEF NoAdoption
  <1>5. CASE Adopt(c, out, others)
    <2> DEFINE kept == targets[c] \ With(out, "not_found")
    <2>1. PICK t \in Tests \ (Known \cup Claimed), o \in Outcomes \ {"not_found"} :
             /\ targets' = [targets EXCEPT ![c] = kept \cup {t}]
             /\ \/ JudgeAdopted(c, t, o, others, With(out, "failed"))
                \/ /\ Record(c, "declared_test_mismatch")
                   /\ UNCHANGED <<phase, flagged, git, red, own>>
      BY <1>5 DEF Adopt
    <2>2. targets'[c] = kept \cup {t} /\ \A e \in Cycles \ {c} : targets'[e] = targets[e]
      BY <2>1 DEF TypeOK
    <2>3. Single(c) => targets'[c] = {t}
      <3>1. ASSUME Single(c) PROVE kept = {}
        <4>1. With(out, "not_found") # {} /\ With(out, "not_found") \subseteq DOMAIN out
          BY <1>5 DEF Adopt, With
        <4>2. DOMAIN out \subseteq targets[c]
          BY DEF Heard
        <4>3. QED
          BY <3>1, <4>1, <4>2 DEF Single
      <3>2. QED
        BY <2>2, <3>1
    <2> HIDE DEF kept
    <2>4. CASE JudgeAdopted(c, t, o, others, With(out, "failed"))
      <3> DEFINE failing == IF o = "failed" THEN With(out, "failed") \cup {t}
                            ELSE With(out, "failed")
      <3>1. JudgeTest(c, [x \in {t} |-> o], others, failing, {"declared_test_mismatch"})
        BY <2>4 DEF JudgeAdopted
      <3>2. (\A y \in DOMAIN [x \in {t} |-> o] : [x \in {t} |-> o][y] = "failed")
              => t \in failing
        OBVIOUS
      <3> HIDE DEF failing
      <3>3. CASE d # c
        BY <1>2, <2>2, <3>1, <3>3, JudgeEvidence, SameEvidence
      <3>4. CASE d = c
        BY <1>2, <2>3, <3>1, <3>2, <3>4, JudgeEvidence DEF Evidence, Retargets, Leaves, Single
      <3>5. QED
        BY <3>3, <3>4
    <2>5. CASE /\ Record(c, "declared_test_mismatch")
               /\ UNCHANGED <<phase, flagged, git, red, own>>
      <3>1. /\ events'[c] = events[c] \cup {"declared_test_mismatch"}
            /\ \A e \in Cycles \ {c} : events'[e] = events[e]
        BY <2>5 DEF Record, TypeOK
      <3>2. CASE d # c
        BY <1>2, <2>2, <2>5, <3>1, <3>2, SameEvidence
      <3>3. CASE d = c
        BY <1>2, <2>3, <2>5, <3>1, <3>3 DEF Evidence, Retargets, Leaves, Single
      <3>4. QED
        BY <3>2, <3>3
    <2>6. QED
      BY <2>1, <2>4, <2>5
  <1>6. QED
    BY <1>1, <1>3, <1>4, <1>5

\* Ending cycle c, by closing or skipping it, changes its phase and the next one's only.
LEMMA SucceedEvidence ==
    ASSUME TypeOK, OrderInv, NEW c \in Cycles, IsOpen(c), NEW p, Succeed(c, p),
           p = "SKIPPED" \/ (p = "CLOSED" /\ phase[c] = "AWAITING_REFACTOR"),
           UNCHANGED <<targets, events, verified, red, green>>, NEW d \in Cycles
    PROVE  Evidence(d)
  <1>1. phase'[d] = IF d = c THEN p ELSE IF d = c + 1 THEN OPENING_PHASE(d) ELSE phase[d]
    BY DEF Succeed
  <1>2. d = c + 1 => phase[d] = "UNOPENED"
    BY AroundOpen, CyclesAreNumbers
  <1>3. QED
    BY <1>1, <1>2 DEF Evidence, Retargets, Leaves

\* Every step treats every cycle's evidence in one of the ways Evidence lists.
LEMMA EvidenceStep ==
    ASSUME TypeOK, OrderInv, [Next]_vars, NEW d \in Cycles
    PROVE  Evidence(d)
  <1>1. CASE \E c \in Cycles : Advance(c)
    <2> SUFFICES ASSUME NEW c \in Cycles, Advance(c) PROVE Evidence(d)
      BY <1>1
    <2>1. ASSUME NEW retry \in BOOLEAN, AdvanceTest(c, retry) PROVE Evidence(d)
      BY <2>1, AdvanceTestEvidence
    <2>2. ASSUME NEW retry \in BOOLEAN, AdvanceImpl(c, retry) PROVE Evidence(d)
      <3>1. phase[c] = "AWAITING_IMPL" /\ UNCHANGED <<targets, events, verified, red>>
        BY <2>2 DEF AdvanceImpl, checks
      <3>2. CASE ImplHeld(c)
        BY <3>1, <3>2, SameEvidence DEF ImplHeld
      <3>3. CASE ImplGreen(c)
        <4>1. /\ phase' = [phase EXCEPT ![c] = "AWAITING_REFACTOR"]
              /\ green' = [green EXCEPT ![c] = Heard(c, targets[c])]
          BY <3>3 DEF ImplGreen, Move
        <4>2. CASE d # c
          BY <3>1, <4>1, <4>2, SameEvidence DEF TypeOK
        <4>3. CASE d = c
          BY <3>1, <4>1, <4>3 DEF TypeOK, Evidence, Retargets, Leaves
        <4>4. QED
          BY <4>2, <4>3
      <3>4. QED
        BY <2>2, <3>2, <3>3 DEF AdvanceImpl
    <2>3. CASE AdvanceSensitivity(c)
      <3>1. /\ phase[c] = "SENSITIVITY_REQUIRED" /\ verified[c]
            /\ phase' = [phase EXCEPT ![c] = "AWAITING_REFACTOR"]
            /\ UNCHANGED <<targets, events, verified, red, green>>
        BY <2>3 DEF AdvanceSensitivity, Move, checks, observed
      <3>2. QED
        BY <3>1 DEF TypeOK, Evidence, Retargets, Leaves
    <2>4. CASE AdvanceRefactor(c)
      <3>1. /\ phase[c] = "AWAITING_REFACTOR" /\ IsOpen(c)
            /\ UNCHANGED <<targets, events, verified, red, green>>
        BY <2>4 DEF AdvanceRefactor, Ready, checks
      <3>2. UNCHANGED phase \/ Succeed(c, "CLOSED")
        BY <2>4 DEF AdvanceRefactor, CloseCycle
      <3>3. QED
        BY <3>1, <3>2, SameEvidence, SucceedEvidence
    <2>5. CASE AdvanceReferenceBlocked(c)
      BY <2>5, SameEvidence DEF AdvanceReferenceBlocked, cycleRows, checks, observed
    <2>6. QED
      BY <2>1, <2>2, <2>3, <2>4, <2>5 DEF Advance
  <1>2. CASE Command
    <2> SUFFICES ASSUME NEW c \in Cycles,
                        cycle_skip(c) \/ annotate(c) \/ target(c) \/ Sensitivity(c)
                 PROVE  Evidence(d)
      BY <1>2 DEF Command
    <2>1. CASE cycle_skip(c)
      BY <2>1, SucceedEvidence DEF cycle_skip, checks, observed
    <2>2. CASE annotate(c)
      BY <2>2, SameEvidence DEF annotate, checks, observed
    <2>3. CASE target(c)
      <3>1. PICK t \in Tests : targets' = [targets EXCEPT ![c] = {t}]
        BY <2>3 DEF target
      <3>2. /\ events' = [events EXCEPT ![c] = @ \cup {"target_named_by_agent"}]
            /\ UNCHANGED <<phase, verified, red, green>>
        BY <2>3 DEF target, Record, checks, observed
      <3>3. CASE d # c
        BY <3>1, <3>2, <3>3, SameEvidence DEF TypeOK
      <3>4. CASE d = c
        BY <3>1, <3>2, <3>4 DEF TypeOK, Evidence, Retargets, Leaves, Single
      <3>5. QED
        BY <3>3, <3>4
    <2>4. CASE Sensitivity(c)
      <3>1. UNCHANGED <<phase, targets, events, red, green>>
        BY <2>4 DEF Sensitivity, sensitivity_begin, sensitivity_check, sensitivity_end,
                    cycleRows, observed
      <3>2. verified[d] => verified'[d]
        BY <2>4 DEF Sensitivity, sensitivity_begin, sensitivity_check, sensitivity_end, TypeOK
      <3>3. QED
        BY <3>1, <3>2 DEF Evidence, Retargets, Leaves
    <2>5. QED
      BY <2>1, <2>2, <2>3, <2>4
  <1>3. CASE Supervise
    <2>1. CASE run_start
      <3>1. UNCHANGED <<targets, events, verified, red, green>>
        BY <2>1 DEF run_start, checks, observed
      <3>2. phase[d] = "UNOPENED"
        BY <2>1 DEF run_start, OrderInv
      <3>3. phase'[d] = phase[d] \/ phase'[d] = OPENING_PHASE(d)
        BY <2>1 DEF run_start
      <3>4. QED
        BY <3>1, <3>2, <3>3 DEF Evidence, Retargets, Leaves
    <2>2. CASE blocker \/ resume_unblock \/ run_abandon
      BY <2>2, SameEvidence DEF blocker, resume_unblock, run_abandon, cycleRows, checks, observed
    <2>3. QED
      BY <1>3, <2>1, <2>2 DEF Supervise
  <1>4. CASE Edit \/ CommitByHand \/ UNCHANGED vars
    BY <1>4, SameEvidence DEF Edit, CommitByHand, vars, cycleRows, checks, observed
  <1>5. QED
    BY <1>1, <1>2, <1>3, <1>4 DEF Next, Over

\* The phases a cycle can be in before it has any verdict on its test.
Early == {"UNOPENED", "AWAITING_TEST", "AWAITING_PIN", "AWAITING_IMPL"}

\* ArrivalVerified is not inductive: a cycle that owes a check must be known to be behind
\* the sensitivity phase, so a pin is never on the implementation's path and the violation
\* is recorded only as the phase is entered.
ArrivalInv ==
    /\ \A c \in Cycles : phase[c] \in Early => "red_first_violation" \notin events[c]
    /\ \A c \in Cycles : Kind[c] = "pin" => phase[c] \notin {"AWAITING_TEST", "AWAITING_IMPL"}
    /\ ArrivalVerified

\* A cycle whose test passed on arrival cannot close without a verified check.
THEOREM ArrivalIsVerified == Spec => []ArrivalVerified
  <1>1. Init => ArrivalInv
    BY DEF Init, ArrivalInv, ArrivalVerified
  <1>2. ASSUME TypeOK, OrderInv, ArrivalInv, [Next]_vars
        PROVE  ArrivalInv'
    <2> SUFFICES ASSUME NEW c \in Cycles
                 PROVE  /\ phase'[c] \in Early => "red_first_violation" \notin events'[c]
                        /\ Kind[c] = "pin" => phase'[c] \notin {"AWAITING_TEST", "AWAITING_IMPL"}
                        /\ phase'[c] \in {"AWAITING_REFACTOR", "CLOSED"}
                           /\ (Kind[c] = "pin" \/ "red_first_violation" \in events'[c])
                              => verified'[c]
      BY DEF ArrivalInv, ArrivalVerified
    <2>1. Evidence(c)
      BY <1>2, EvidenceStep
    <2>2. /\ phase[c] \in Early => "red_first_violation" \notin events[c]
          /\ Kind[c] = "pin" => phase[c] \notin {"AWAITING_TEST", "AWAITING_IMPL"}
          /\ phase[c] \in {"AWAITING_REFACTOR", "CLOSED"}
             /\ (Kind[c] = "pin" \/ "red_first_violation" \in events[c])
                => verified[c]
      BY <1>2 DEF ArrivalInv, ArrivalVerified
    <2>3. OPENING_PHASE(c) \in Phases \ Ended /\ OPENING_PHASE(c) # "SENSITIVITY_REQUIRED"
      BY OpeningPhaseType DEF OPENING_PHASE
    <2>4. Kind[c] = "pin" => OPENING_PHASE(c) = "AWAITING_PIN"
      BY DEF OPENING_PHASE
    <2>5. QED
      BY <2>1, <2>2, <2>3, <2>4 DEF Evidence, Leaves, Early, Phases, Ended
  <1>3. ArrivalInv => ArrivalVerified
    BY DEF ArrivalInv
  <1>4. QED
    BY <1>1, <1>2, <1>3, TypeCorrect, OrderInvariant, PTL DEF Spec

\* A cycle's targets differ from the declared ones only where the ledger says so.
THEOREM TargetsAreAudited == Spec => []AuditedTargets
  <1>1. Init => AuditedTargets
    BY DEF Init, AuditedTargets
  <1>2. ASSUME TypeOK, OrderInv, AuditedTargets, [Next]_vars
        PROVE  AuditedTargets'
    BY <1>2, EvidenceStep DEF AuditedTargets, Evidence, Retargets
  <1>3. QED
    BY <1>1, <1>2, TypeCorrect, OrderInvariant, PTL DEF Spec

\* A standard cycle has one target at any time, reaches the sensitivity phase only as a
\* recorded violation, and carries its red evidence through the implementation phase.
RedInv ==
    \A c \in Cycles : Kind[c] = "standard" =>
        /\ Single(c)
        /\ phase[c] # "AWAITING_PIN"
        /\ phase[c] = "SENSITIVITY_REQUIRED" => "red_first_violation" \in events[c]
        /\ phase[c] = "AWAITING_IMPL" /\ "target_named_by_agent" \notin events[c]
              => targets[c] \subseteq red[c]
        /\ phase[c] \in {"AWAITING_REFACTOR", "CLOSED"}
           /\ events[c] \cap {"red_first_violation", "target_named_by_agent"} = {}
              => targets[c] \subseteq red[c] \cap green[c]

\* No standard cycle passes GREEN on a test nobody saw fail, unless the ledger shows the
\* violation or the agent's change of target.
THEOREM RedComesBeforeGreen == Spec => []RedBeforeGreen
  <1>1. Init => RedInv
    <2>1. ASSUME NEW c \in Cycles, Kind[c] = "standard"
          PROVE  \E t \in Tests : Declared[c] = {t}
      BY <2>1, TestsAssumption
    <2>2. QED
      BY <2>1 DEF Init, RedInv, Single
  <1>2. ASSUME TypeOK, OrderInv, RedInv, [Next]_vars
        PROVE  RedInv'
    <2> SUFFICES ASSUME NEW c \in Cycles, Kind[c] = "standard"
                 PROVE  /\ Single(c)'
                        /\ phase'[c] # "AWAITING_PIN"
                        /\ phase'[c] = "SENSITIVITY_REQUIRED" => "red_first_violation" \in events'[c]
                        /\ phase'[c] = "AWAITING_IMPL" /\ "target_named_by_agent" \notin events'[c]
                              => targets'[c] \subseteq red'[c]
                        /\ phase'[c] \in {"AWAITING_REFACTOR", "CLOSED"}
                           /\ events'[c] \cap {"red_first_violation", "target_named_by_agent"} = {}
                              => targets'[c] \subseteq red'[c] \cap green'[c]
      BY DEF RedInv
    <2>1. Evidence(c)
      BY <1>2, EvidenceStep
    <2>2. /\ Single(c)
          /\ phase[c] # "AWAITING_PIN"
          /\ phase[c] = "SENSITIVITY_REQUIRED" => "red_first_violation" \in events[c]
          /\ phase[c] = "AWAITING_IMPL" /\ "target_named_by_agent" \notin events[c]
                => targets[c] \subseteq red[c]
          /\ phase[c] \in {"AWAITING_REFACTOR", "CLOSED"}
             /\ events[c] \cap {"red_first_violation", "target_named_by_agent"} = {}
                => targets[c] \subseteq red[c] \cap green[c]
      BY <1>2 DEF RedInv
    <2>3. OPENING_PHASE(c) = "AWAITING_TEST"
      BY DEF OPENING_PHASE
    <2>4. Heard(c, targets[c]) = targets[c]
      BY <2>2, HeardSingle DEF Single
    <2>5. Single(c)'
      BY <2>1, <2>2 DEF Evidence, Retargets, Single
    <2>6. phase'[c] # "AWAITING_PIN"
      BY <2>1, <2>2, <2>3 DEF Evidence, Leaves
    <2>7. phase'[c] = "SENSITIVITY_REQUIRED" => "red_first_violation" \in events'[c]
      BY <2>1, <2>2, <2>3 DEF Evidence, Leaves
    <2>8. phase'[c] = "AWAITING_IMPL" /\ "target_named_by_agent" \notin events'[c]
             => targets'[c] \subseteq red'[c]
      BY <2>1, <2>2, <2>3 DEF Evidence, Retargets, Leaves
    <2>9. phase'[c] \in {"AWAITING_REFACTOR", "CLOSED"}
          /\ events'[c] \cap {"red_first_violation", "target_named_by_agent"} = {}
             => targets'[c] \subseteq red'[c] \cap green'[c]
      BY <2>1, <2>2, <2>3, <2>4 DEF Evidence, Retargets, Leaves
    <2>10. QED
      BY <2>5, <2>6, <2>7, <2>8, <2>9
  <1>3. RedInv => RedBeforeGreen
    BY DEF RedInv, RedBeforeGreen
  <1>4. QED
    BY <1>1, <1>2, <1>3, TypeCorrect, OrderInvariant, PTL DEF Spec

-----------------------------------------------------------------------------
(* Commits.                                                                *)

\* A phase's commit takes only what it staged.
LEMMA StageTakes ==
    ASSUME TypeOK, NEW c, NEW p, stage_and_commit(c, p), NEW f \in Files, head'[f] # head[f]
    PROVE  f \in Staged(c, p)
  BY DEF TypeOK, stage_and_commit, Committed

\* What a handler of advance stages in the cycle's phase.
Stages(c, f) ==
    \/ f \in Staged(c, "pin")
    \/ f \in Staged(c, "red") /\ events[c] \subseteq events'[c]
    \/ /\ phase[c] \in {"AWAITING_IMPL", "AWAITING_REFACTOR"}
       /\ f \in Staged(c, "green") \cup Staged(c, "refactor")

\* Judging a verdict commits for the pin or for RED, and forgets no event.
LEMMA JudgeStages ==
    ASSUME TypeOK, NEW c \in Cycles, NEW verdict, NEW others, NEW failing, NEW evs,
           JudgeTest(c, verdict, others, failing, evs),
           NEW f \in Files, head'[f] # head[f]
    PROVE  Stages(c, f)
  <1>1. stage_and_commit(c, "pin") \/ stage_and_commit(c, "red")
    BY DEF JudgeTest, git
  <1>2. stage_and_commit(c, "red") => events[c] \subseteq events'[c]
    BY DEF JudgeTest, TypeOK
  <1>3. QED
    BY <1>1, <1>2, StageTakes DEF Stages

\* What comes into HEAD by the tool is a generated path, or was staged for the phase the
\* open cycle is in.
LEMMA ToolStages ==
    ASSUME TypeOK, [Next]_vars, NEW f \in Files, head'[f] # head[f], tip' # "hand"
    PROVE  \/ Class[f] = "generated"
           \/ \E c \in Cycles : IsOpen(c) /\ Stages(c, f)
  <1>1. ASSUME NEW c \in Cycles, NEW retry, AdvanceTest(c, retry)
        PROVE  IsOpen(c) /\ Stages(c, f)
    <2>1. PICK out \in [Heard(c, targets[c]) -> Outcomes], others \in BOOLEAN :
             JudgeDeclared(c, out, others) \/ NoAdoption(c, out) \/ Adopt(c, out, others)
      BY <1>1 DEF AdvanceTest
    <2>2. ASSUME JudgeDeclared(c, out, others) PROVE Stages(c, f)
      <3>1. JudgeTest(c, out, others, With(out, "failed"), {})
        BY <2>2 DEF JudgeDeclared
      <3>2. QED
        BY <3>1, JudgeStages
    <2>3. ~NoAdoption(c, out)
      BY DEF NoAdoption, git
    <2>4. ASSUME Adopt(c, out, others) PROVE Stages(c, f)
      <3>1. PICK t, o : JudgeAdopted(c, t, o, others, With(out, "failed"))
        BY <2>4 DEF Adopt, git
      <3> DEFINE failing == IF o = "failed" THEN With(out, "failed") \cup {t} ELSE With(out, "failed")
                 evs == {"declared_test_mismatch"}
                 verdict == [x \in {t} |-> o]
      <3>2. JudgeTest(c, verdict, others, failing, evs)
        BY <3>1 DEF JudgeAdopted
      <3> HIDE DEF failing, evs, verdict
      <3>3. QED
        BY <3>2, JudgeStages
    <2>5. QED
      BY <1>1, <2>1, <2>2, <2>3, <2>4 DEF AdvanceTest, Ready
  <1>2. ASSUME NEW c \in Cycles, NEW retry, AdvanceImpl(c, retry)
        PROVE  IsOpen(c) /\ Stages(c, f)
    <2>1. stage_and_commit(c, "green")
      BY <1>2 DEF AdvanceImpl, ImplHeld, ImplGreen, git
    <2>2. QED
      BY <1>2, <2>1, StageTakes DEF AdvanceImpl, Ready, Stages
  <1>3. ASSUME NEW c \in Cycles, AdvanceRefactor(c)
        PROVE  Class[f] = "generated" \/ (IsOpen(c) /\ Stages(c, f))
    <2>1. PICK regenerated \in BOOLEAN, w \in Regenerated :
             LET h0 == Committed(wt, head, Staged(c, "refactor"))
             IN  head' = IF regenerated THEN Committed(w, h0, made(w, h0)) ELSE h0
      BY <1>3 DEF AdvanceRefactor
    <2> DEFINE h0 == Committed(wt, head, Staged(c, "refactor"))
    <2>2. f \in Staged(c, "refactor") \/ h0[f] = head[f]
      BY DEF Committed
    <2>3. f \in made(w, h0) \/ head'[f] = h0[f]
      BY <2>1 DEF Committed
    <2>4. f \in made(w, h0) => Class[f] = "generated"
      BY DEF made
    <2>5. QED
      BY <1>3, <2>2, <2>3, <2>4 DEF AdvanceRefactor, Ready, Stages
  <1>4. ASSUME run_start
        PROVE  Class[f] = "generated"
    <2>1. \E w : head' = Committed(w, head, made(w, head)) \/ head' = head
      BY <1>4 DEF run_start
    <2>2. QED
      BY <2>1 DEF Committed, made
  <1>5. CASE \E c \in Cycles : Advance(c)
    BY <1>1, <1>2, <1>3, <1>5 DEF Advance, AdvanceSensitivity, AdvanceReferenceBlocked, git
  <1>6. CASE Command
    BY <1>6 DEF Command, cycle_skip, annotate, target, Sensitivity, sensitivity_begin,
                sensitivity_check, sensitivity_end, git
  <1>7. CASE Supervise
    BY <1>4, <1>7 DEF Supervise, blocker, resume_unblock, run_abandon, git
  <1>8. CASE Edit \/ CommitByHand \/ UNCHANGED vars
    BY <1>8 DEF Edit, CommitByHand, vars, git
  <1>9. QED
    BY <1>5, <1>6, <1>7, <1>8 DEF Next, Over

\* No phase's commit takes what was dirty before the run, for any repository: neither in
\* the commit that names the phase nor in one that a handler repeats later.
THEOREM ExcludedStaysOut == Spec => ExcludedNeverAbsorbed
  <1>1. ASSUME TypeOK, [Next]_vars, NEW f \in excluded, head'[f] # head[f], tip' # "hand"
        PROVE  Class[f] = "generated"
    <2>1. f \in Files
      BY <1>1 DEF TypeOK
    <2>2. ASSUME NEW c \in Cycles, Stages(c, f) PROVE FALSE
      BY <1>1, <2>2 DEF Stages, Staged, paths_for_phase, authored_changes
    <2>3. QED
      BY <1>1, <2>1, <2>2, ToolStages
  <1>2. TypeOK /\ [Next]_vars =>
          [\A f \in excluded :
             head'[f] # head[f] /\ Class[f] # "generated" => tip' = "hand"]_vars
    BY <1>1
  <1>3. QED
    BY <1>2, TypeCorrect, PTL DEF Spec, ExcludedNeverAbsorbed

\* Implementation gets into HEAD through the tool only behind RED, whatever the suites
\* report, or as a new file a stub directive of the same cycle asked for.
THEOREM ImplementationBehindRed == Spec => ImplementationAfterRed
  <1>1. ASSUME TypeOK, [Next]_vars, NEW f \in Files,
               Class[f] = "implementation", head'[f] # head[f], tip' # "hand"
        PROVE  \E c \in Cycles :
                  /\ IsOpen(c)
                  /\ \/ phase[c] \in {"AWAITING_IMPL", "AWAITING_REFACTOR"}
                     \/ head[f] = Absent /\ "stub_directive_issued" \in events'[c]
    <2>1. PICK c \in Cycles : IsOpen(c) /\ Stages(c, f)
      BY <1>1, ToolStages
    <2>2. f \notin Staged(c, "pin")
      BY <1>1 DEF Staged, paths_for_phase
    <2>3. f \in Staged(c, "red") => f \in sanctioned_stubs(c)
      BY <1>1 DEF Staged, paths_for_phase
    <2>4. f \in sanctioned_stubs(c) => head[f] = Absent /\ "stub_directive_issued" \in events[c]
      BY DEF sanctioned_stubs, tracked_at_head
    <2>5. QED
      BY <2>1, <2>2, <2>3, <2>4 DEF Stages
  <1>2. TypeOK /\ [Next]_vars =>
          [\A f \in Files :
              /\ Class[f] = "implementation" /\ head'[f] # head[f] /\ tip' # "hand"
              => \E c \in Cycles :
                    /\ IsOpen(c)
                    /\ \/ phase[c] \in {"AWAITING_IMPL", "AWAITING_REFACTOR"}
                       \/ head[f] = Absent /\ "stub_directive_issued" \in events'[c]]_vars
    BY <1>1
  <1>3. QED
    BY <1>2, TypeCorrect, PTL DEF Spec, ImplementationAfterRed

-----------------------------------------------------------------------------
(* Closes.                                                                 *)

\* A close is a refactor advance's, behind the reference paths, the sweep and the gate.
Closing(c) ==
    /\ phase[c] = "AWAITING_REFACTOR"
    /\ base' = base /\ excluded' = excluded
    /\ touched_reference_paths(wt', head') = {}
    /\ \/ seen[c] = {tree_hash(wt')} /\ own' = own
       \/ c \notin Swept /\ own' = own
       \/ own' = [own EXCEPT ![c] = @ \cup {tree_hash(wt')}]
    /\ CloseCycle(c, wt', head')

LEMMA ClosesByRefactor ==
    ASSUME TypeOK, [Next]_vars, NEW c \in Cycles, Closes(c)
    PROVE  Closing(c)
  <1>1. phase'[c] = "CLOSED" /\ phase[c] # "CLOSED" /\ phase' # phase
    BY DEF Closes
  <1>2. \A d \in Cycles : \A p : Move(d, p) => d = c /\ p = "CLOSED"
    BY <1>1 DEF Move, TypeOK
  <1>3. OPENING_PHASE(c) # "CLOSED"
    BY OpeningPhaseType DEF Ended
  <1>4. \A d \in Cycles : \A p : Succeed(d, p) => d = c /\ p = "CLOSED"
    BY <1>1, <1>3 DEF Succeed
  <1>5. PICK d \in Cycles : AdvanceRefactor(d)
    <2>1. ASSUME NEW d \in Cycles, NEW retry, AdvanceTest(d, retry) PROVE FALSE
      BY <1>1, <1>2, <2>1, AdvanceTestMoves DEF Ended
    <2>2. ASSUME NEW d \in Cycles, NEW retry, AdvanceImpl(d, retry) PROVE FALSE
      BY <1>1, <1>2, <2>2 DEF AdvanceImpl, ImplHeld, ImplGreen
    <2>3. ASSUME NEW d \in Cycles, AdvanceSensitivity(d) \/ AdvanceReferenceBlocked(d) PROVE FALSE
      BY <1>1, <1>2, <2>3 DEF AdvanceSensitivity, AdvanceReferenceBlocked, cycleRows
    <2>4. ~Command
      BY <1>1, <1>4 DEF Command, cycle_skip, annotate, target, Sensitivity, sensitivity_begin,
                        sensitivity_check, sensitivity_end, cycleRows
    <2>5. ~Supervise
      BY <1>1, <1>3 DEF Supervise, run_start, blocker, resume_unblock, run_abandon, cycleRows
    <2>6. ~Edit /\ ~CommitByHand /\ ~UNCHANGED vars
      BY <1>1 DEF Edit, CommitByHand, vars, cycleRows
    <2>7. QED
      BY <2>1, <2>2, <2>3, <2>4, <2>5, <2>6 DEF Next, Over, Advance
  <1>6. PICK w, h, staged :
           /\ wt' = w /\ head' = h
           /\ touched_reference_paths(w, h) = {}
           /\ own' = IF own_suites_run(d, staged, w) THEN [own EXCEPT ![d] = @ \cup {tree_hash(w)}] ELSE own
           /\ CloseCycle(d, w, h)
    BY <1>1, <1>5 DEF AdvanceRefactor
  <1>7. d = c
    BY <1>1, <1>4, <1>6 DEF CloseCycle
  <1>8. QED
    BY <1>1, <1>5, <1>6, <1>7 DEF AdvanceRefactor, Closing, own_suites_run, skip_own, TypeOK

-----------------------------------------------------------------------------
(* The tree a cycle closes on.                                             *)

Unjudged == {"AWAITING_TEST", "AWAITING_PIN", "AWAITING_IMPL"}

\* CloseOnGreenTree needs to know of the tree GREEN's run left in the cycle's row: past
\* the phases that clear it, it is one the cycle's whole suites have passed on.
SeenGreen == \A c \in Cycles : phase[c] \notin Unjudged => seen[c] \subseteq own[c]

\* Judging runs no whole suite.
LEMMA AdvanceTestKeepsOwn ==
    ASSUME NEW c \in Cycles, NEW retry, AdvanceTest(c, retry)
    PROVE  UNCHANGED own
  <1>1. PICK out \in [Heard(c, targets[c]) -> Outcomes], others \in BOOLEAN :
           JudgeDeclared(c, out, others) \/ NoAdoption(c, out) \/ Adopt(c, out, others)
    BY DEF AdvanceTest
  <1>2. ASSUME NEW verdict, NEW failing, NEW evs, JudgeTest(c, verdict, others, failing, evs)
        PROVE  UNCHANGED own
    BY <1>2 DEF JudgeTest
  <1>3. ASSUME JudgeDeclared(c, out, others) PROVE UNCHANGED own
    <2>1. JudgeTest(c, out, others, With(out, "failed"), {})
      BY <1>3 DEF JudgeDeclared
    <2>2. QED
      BY <1>2, <2>1
  <1>4. ASSUME Adopt(c, out, others) PROVE UNCHANGED own
    <2>1. UNCHANGED own \/ \E t, o : JudgeAdopted(c, t, o, others, With(out, "failed"))
      BY <1>4 DEF Adopt
    <2>2. ASSUME NEW t, NEW o, JudgeAdopted(c, t, o, others, With(out, "failed"))
          PROVE  UNCHANGED own
      BY <1>2, <2>2 DEF JudgeAdopted
    <2>3. QED
      BY <2>1, <2>2
  <1>5. QED
    BY <1>1, <1>3, <1>4 DEF NoAdoption

\* A step keeps the tree in a cycle's row green.
LEMMA SeenGreenStep ==
    ASSUME TypeOK, OrderInv, SeenGreen, [Next]_vars
    PROVE  SeenGreen'
  <1>1. ASSUME UNCHANGED <<phase, seen, own>>
        PROVE  SeenGreen'
    BY <1>1 DEF SeenGreen
  \* Ending a cycle opens one whose row was not written yet.
  <1>2. ASSUME NEW c \in Cycles, IsOpen(c), NEW p, Succeed(c, p),
               NEW d \in Cycles, d # c, phase'[d] \notin Unjudged
        PROVE  phase[d] \notin Unjudged
    <2>1. CASE d = c + 1
      BY <1>2, <2>1, AroundOpen, CyclesAreNumbers DEF Unjudged
    <2>2. CASE d # c + 1
      BY <1>2, <2>2 DEF Succeed
    <2>3. QED
      BY <2>1, <2>2
  <1>3. ASSUME NEW c \in Cycles, NEW retry, AdvanceTest(c, retry) PROVE SeenGreen'
    <2>1. UNCHANGED own
      BY <1>3, AdvanceTestKeepsOwn
    <2>2. /\ seen' = [seen EXCEPT ![c] = IF phase'[c] = phase[c] THEN {tree_hash(wt)} ELSE {}]
          /\ phase[c] \in Unjudged
      BY <1>3 DEF AdvanceTest, Unjudged
    <2>3. \A d \in Cycles : d # c => phase'[d] = phase[d]
      BY <1>3, AdvanceTestMoves DEF Move, TypeOK
    <2>4. QED
      BY <2>1, <2>2, <2>3 DEF SeenGreen, TypeOK
  <1>4. ASSUME NEW c \in Cycles, NEW retry, AdvanceImpl(c, retry) PROVE SeenGreen'
    <2>1. /\ seen' = [seen EXCEPT ![c] = {tree_hash(wt)}]
          /\ phase[c] \in Unjudged
          /\ \/ UNCHANGED <<phase, own>>
             \/ /\ Move(c, "AWAITING_REFACTOR")
                /\ own' = [own EXCEPT ![c] = @ \cup {tree_hash(wt)}]
      BY <1>4 DEF AdvanceImpl, ImplHeld, ImplGreen, Unjudged
    <2>2. QED
      BY <2>1 DEF SeenGreen, Move, TypeOK
  <1>5. ASSUME NEW c \in Cycles, AdvanceRefactor(c) PROVE SeenGreen'
    <2>1. /\ IsOpen(c) /\ phase[c] = "AWAITING_REFACTOR"
          /\ \/ UNCHANGED phase
             \/ Succeed(c, "CLOSED")
          /\ \A d \in Cycles : own[d] \subseteq own'[d]
      BY <1>5 DEF AdvanceRefactor, Ready, CloseCycle, TypeOK
    <2>2. \A d \in Cycles : seen'[d] \subseteq seen[d]
      BY <1>5 DEF AdvanceRefactor, TypeOK
    <2>3. \A d \in Cycles : phase'[d] \notin Unjudged => phase[d] \notin Unjudged
      <3>1. phase[c] \notin Unjudged
        BY <2>1 DEF Unjudged
      <3>2. QED
        BY <1>2, <2>1, <3>1
    <2>4. QED
      BY <2>1, <2>2, <2>3 DEF SeenGreen
  <1>6. ASSUME NEW c \in Cycles, cycle_skip(c) PROVE SeenGreen'
    <2>1. /\ IsOpen(c)
          /\ Succeed(c, "SKIPPED")
          /\ seen' = [seen EXCEPT ![c] = {}]
          /\ own' = own
      BY <1>6 DEF cycle_skip, observed
    <2>2. \A d \in Cycles : d # c /\ phase'[d] \notin Unjudged => phase[d] \notin Unjudged
      BY <1>2, <2>1
    <2>3. QED
      BY <2>1, <2>2 DEF SeenGreen, TypeOK
  <1>7. ASSUME run_start PROVE SeenGreen'
    <2>1. /\ \A c \in Cycles : phase[c] = "UNOPENED"
          /\ UNCHANGED <<seen, own>>
      BY <1>7 DEF run_start, OrderInv, observed
    <2>2. QED
      BY <2>1 DEF SeenGreen, Unjudged
  <1>8. ASSUME NEW c \in Cycles, AdvanceSensitivity(c) PROVE SeenGreen'
    BY <1>8 DEF AdvanceSensitivity, Move, SeenGreen, observed, TypeOK, Unjudged
  <1>9. CASE \E c \in Cycles : Advance(c)
    BY <1>1, <1>3, <1>4, <1>5, <1>8, <1>9 DEF Advance, AdvanceReferenceBlocked, cycleRows, observed
  <1>10. CASE Command
    BY <1>1, <1>6, <1>10 DEF Command, annotate, target, Sensitivity, sensitivity_begin,
                             sensitivity_check, sensitivity_end, cycleRows, observed
  <1>11. CASE Supervise
    BY <1>1, <1>7, <1>11 DEF Supervise, blocker, resume_unblock, run_abandon, cycleRows, observed
  <1>12. CASE Edit \/ CommitByHand \/ UNCHANGED vars
    BY <1>1, <1>12 DEF Edit, CommitByHand, vars, cycleRows, observed
  <1>13. QED
    BY <1>9, <1>10, <1>11, <1>12 DEF Next, Over

\* For every plan and any number of hand commits between its runs, a cycle whose projects
\* are in the close sweep closes only on a tree its own whole suites have passed on:
\* GREEN's run never stands in for another.
THEOREM ClosesOnGreen == Spec => CloseOnGreenTree
  <1>1. Init => SeenGreen
    BY DEF Init, SeenGreen
  <1>2. TypeOK /\ OrderInv /\ SeenGreen /\ [Next]_vars => SeenGreen'
    BY SeenGreenStep
  <1>3. ASSUME TypeOK, SeenGreen, [Next]_vars, NEW c \in Cycles, c \in Swept, Closes(c)
        PROVE  tree_hash(wt') \in own'[c]
    <2>1. Closing(c)
      BY <1>3, ClosesByRefactor
    <2>2. seen[c] \subseteq own[c]
      BY <1>3, <2>1 DEF Closing, SeenGreen, Unjudged
    <2>3. QED
      BY <1>3, <2>1, <2>2 DEF Closing, TypeOK
  <1>4. TypeOK /\ SeenGreen /\ [Next]_vars =>
          [\A c \in Cycles : c \in Swept /\ Closes(c) => tree_hash(wt') \in own'[c]]_vars
    BY <1>3
  <1>5. QED
    BY <1>1, <1>2, <1>4, TypeCorrect, OrderInvariant, PTL DEF Spec, CloseOnGreenTree

\* No cycle of any plan closes over a path it was flagged for and that is still dirty, but
\* the last, and that one ends the run blocked.
THEOREM ClosesClean == Spec => CloseIsClean
  <1>1. ASSUME TypeOK, [Next]_vars, NEW c \in Cycles, Closes(c), status' # "blocked",
               NEW d \in Cycles, d = c \/ Last(c)
        PROVE  flagged'[d] \cap dirty_paths(wt', head') = {}
    <2>1. CloseCycle(c, wt', head')
      BY <1>1, ClosesByRefactor DEF Closing
    <2>2. phase' # phase
      BY <1>1 DEF Closes
    <2>3. QED
      BY <1>1, <2>1, <2>2 DEF CloseCycle, EndRun
  <1>2. TypeOK /\ [Next]_vars =>
          [\A c \in Cycles : Closes(c) /\ status' # "blocked" =>
             \A d \in Cycles : d = c \/ Last(c) =>
                 flagged'[d] \cap dirty_paths(wt', head') = {}]_vars
    BY <1>1
  <1>3. QED
    BY <1>2, TypeCorrect, PTL DEF Spec, CloseIsClean

\* Whatever the hooks regenerate and the agent commits, a reference path is at a close
\* what it was at the run's start, in HEAD and, unless dirty before, in the tree.
THEOREM ClosesWithinReferences == Spec => CloseRespectsReferences
  <1>1. ASSUME TypeOK, [Next]_vars, NEW c \in Cycles, Closes(c), NEW f \in Refs
        PROVE  head'[f] = base[f] /\ (f \in excluded \/ wt'[f] = base[f])
    <2>1. touched_reference_paths(wt', head') = {}
      BY <1>1, ClosesByRefactor DEF Closing
    <2>2. f \notin authored_changes(wt', head') /\ f \notin dirty_paths(head', base)
      BY <2>1 DEF touched_reference_paths
    <2>3. f \in Files
      BY FilesAssumption
    <2>4. QED
      BY <2>2, <2>3 DEF authored_changes, dirty_paths
  <1>2. TypeOK /\ [Next]_vars =>
          [\A c \in Cycles : Closes(c) =>
             \A f \in Refs : head'[f] = base[f] /\ (f \in excluded \/ wt'[f] = base[f])]_vars
    BY <1>1
  <1>3. QED
    BY <1>2, TypeCorrect, PTL DEF Spec, CloseRespectsReferences

=============================================================================
