--------------------------- MODULE Claims_proofs ---------------------------
(***************************************************************************)
(* Theorems about Claims, for any number of processes.  First what one     *)
(* step of a process may do to the claims and to where the processes are,  *)
(* then the inductive invariant: who is past a claim owns it unless robbed, *)
(* and who is about to claim is not refused by the dead.                   *)
(***************************************************************************)
EXTENDS Claims, TLAPS

\* What the steps need of the shape of the state.
Shape ==
    /\ pc \in [Procs -> Labels]
    /\ gone \in [Procs -> SUBSET Procs]
    /\ my = [p \in Procs |-> [run |-> my[p].run, row |-> my[p].row,
                              phase |-> my[p].phase, held |-> my[p].held]]

\* A step of p leaves the others where they are.
OthersStay(p) ==
    \A q \in Procs \ {p} : pc'[q] = pc[q] /\ my'[q] = my[q] /\ gone'[q] = gone[q]

\* The claims stay; nobody gets past one.  What p reads of a claim, it reads now.
Waits(p) ==
    /\ claims' = claims
    /\ pc'[p] \in AdvanceSection => pc[p] \in AdvanceSection
    /\ pc'[p] \in BaselineSection => pc[p] \in BaselineSection
    /\ pc'[p] = "judge" => my'[p].held = advance_claim
    /\ pc'[p] = "basejudge" => my'[p].held = baseline_claim
    /\ pc'[p] = "claim" =>
          \/ advance_claim = Nobody
          \/ pc[p] = "judge" /\ ~claim_is_stale(my[p].held)
    /\ pc'[p] = "baseclaim" =>
          \/ baseline_claim = Nobody
          \/ pc[p] = "basejudge" /\ ~claim_is_stale(my[p].held)

\* Where nothing is known of a claim.
Outside == Labels \ (AdvanceSection \cup BaselineSection \cup
                     {"judge", "basejudge", "claim", "baseclaim"})

TakesAdvance(p) ==
    /\ advance_claim = Nobody
    /\ advance_claim' = p
    /\ UNCHANGED <<baseline_claim, robbed>>
    /\ pc'[p] = "work"

TakesBaseline(p) ==
    /\ baseline_claim = Nobody
    /\ baseline_claim' = p
    /\ UNCHANGED <<advance_claim, robbed>>
    /\ pc'[p] = "probe"

DropsAdvance(p) == release_advance_claim(p) /\ pc'[p] \in Outside \cup {"claim"}

DropsBaseline(p) == release_claim(p) /\ pc'[p] \in Outside \cup {"baseclaim"}

OnClaims(p) ==
    Waits(p) \/ TakesAdvance(p) \/ TakesBaseline(p) \/ DropsAdvance(p) \/ DropsBaseline(p)

\* Only a process that has not ended acts, and it looks for the ended ones when it begins.
Effect(p) ==
    /\ ~Gone(p)
    /\ Shape'
    /\ OthersStay(p)
    /\ \/ gone' = gone
       \/ gone'[p] = {q \in Procs : Gone(q)} /\ pc'[p] \in Outside
    /\ OnClaims(p)

-----------------------------------------------------------------------------
(* The pieces of a step.                                                   *)

\* Moving the program counter of p alone.
LEMMA GotoEffect ==
    ASSUME Shape, NEW p \in Procs, NEW l \in Labels, Goto(p, l)
    PROVE  /\ pc' \in [Procs -> Labels]
           /\ pc'[p] = l
           /\ \A q \in Procs \ {p} : pc'[q] = pc[q]
  BY DEF Shape, Goto

\* Writing one field of what p has read.
LEMMA MyEffect ==
    ASSUME Shape, NEW p \in Procs, NEW m,
           m = [run |-> m.run, row |-> m.row, phase |-> m.phase, held |-> m.held],
           my' = [my EXCEPT ![p] = m]
    PROVE  /\ my' = [q \in Procs |-> [run |-> my'[q].run, row |-> my'[q].row,
                                      phase |-> my'[q].phase, held |-> my'[q].held]]
           /\ my'[p] = m
           /\ \A q \in Procs \ {p} : my'[q] = my[q]
  <1>1. my' = [q \in Procs |-> IF q = p THEN m ELSE my[q]]
    BY DEF Shape
  <1>2. my'[p] = m /\ \A q \in Procs \ {p} : my'[q] = my[q]
    BY <1>1
  <1>3. \A q \in Procs : my[q] = [run |-> my[q].run, row |-> my[q].row,
                                  phase |-> my[q].phase, held |-> my[q].held]
    BY DEF Shape
  <1>4. \A q \in Procs : my'[q] = [run |-> my'[q].run, row |-> my'[q].row,
                                   phase |-> my'[q].phase, held |-> my'[q].held]
    BY <1>2, <1>3
  <1>5. QED
    BY <1>1, <1>2, <1>4, Zenon

\* A step of p that moves it and reads nothing.
LEMMA MoveEffect ==
    ASSUME Shape, NEW p \in Procs, NEW l \in Labels, Goto(p, l), UNCHANGED <<my, gone>>
    PROVE  Shape' /\ OthersStay(p) /\ pc'[p] = l
  <1>1. /\ pc' \in [Procs -> Labels]
        /\ pc'[p] = l
        /\ \A q \in Procs \ {p} : pc'[q] = pc[q]
    BY GotoEffect
  <1>2. QED
    BY <1>1 DEF Shape, OthersStay

\* A step that ends p's command.
LEMMA ExitEffect ==
    ASSUME Shape, NEW p \in Procs, Exit(p)
    PROVE  /\ pc' \in [Procs -> Labels]
           /\ my' = [q \in Procs |-> [run |-> my'[q].run, row |-> my'[q].row,
                                      phase |-> my'[q].phase, held |-> my'[q].held]]
           /\ \A q \in Procs \ {p} : pc'[q] = pc[q] /\ my'[q] = my[q]
           /\ pc'[p] = "done"
  <1>1. "done" \in Labels
    BY DEF Labels
  <1>2. /\ pc' \in [Procs -> Labels]
        /\ pc'[p] = "done"
        /\ \A q \in Procs \ {p} : pc'[q] = pc[q]
    BY <1>1, GotoEffect DEF Exit
  <1>3. Fresh = [run |-> Fresh.run, row |-> Fresh.row, phase |-> Fresh.phase, held |-> Fresh.held]
    BY DEF Fresh
  <1>4. my' = [my EXCEPT ![p] = Fresh]
    BY DEF Exit
  <1>5. /\ my' = [q \in Procs |-> [run |-> my'[q].run, row |-> my'[q].row,
                                   phase |-> my'[q].phase, held |-> my'[q].held]]
        /\ \A q \in Procs \ {p} : my'[q] = my[q]
    BY <1>3, <1>4, MyEffect
  <1>6. QED
    BY <1>2, <1>5

\* Reading the run, or a claim, keeps the other fields.
LEMMA ReadEffect ==
    ASSUME Shape, NEW p \in Procs, NEW l \in Labels, Goto(p, l),
           NEW f \in {"run", "held"}, NEW v, Read(p, f, v)
    PROVE  /\ pc' \in [Procs -> Labels]
           /\ my' = [q \in Procs |-> [run |-> my'[q].run, row |-> my'[q].row,
                                      phase |-> my'[q].phase, held |-> my'[q].held]]
           /\ \A q \in Procs \ {p} : pc'[q] = pc[q] /\ my'[q] = my[q]
           /\ pc'[p] = l
           /\ f = "held" => my'[p].held = v
  <1> DEFINE m == [my[p] EXCEPT ![f] = v]
  <1>1. my[p] = [run |-> my[p].run, row |-> my[p].row, phase |-> my[p].phase, held |-> my[p].held]
    BY DEF Shape
  <1>2. m = [run |-> m.run, row |-> m.row, phase |-> m.phase, held |-> m.held]
    BY <1>1
  <1>3. f = "held" => m.held = v
    BY <1>1
  <1>4. my' = [my EXCEPT ![p] = m]
    BY DEF Read
  <1> HIDE DEF m
  <1>5. /\ my' = [q \in Procs |-> [run |-> my'[q].run, row |-> my'[q].row,
                                   phase |-> my'[q].phase, held |-> my'[q].held]]
        /\ my'[p] = m
        /\ \A q \in Procs \ {p} : my'[q] = my[q]
    BY <1>2, <1>4, MyEffect
  <1>6. /\ pc' \in [Procs -> Labels]
        /\ pc'[p] = l
        /\ \A q \in Procs \ {p} : pc'[q] = pc[q]
    BY GotoEffect
  <1>7. QED
    BY <1>3, <1>5, <1>6

\* The labels a command begins at.
Openings == {"cycle", "skipcycle", "inflight", "block", "reopen"}

\* A command that begins, or finds nothing to do.
LEMMA BeginEffect ==
    ASSUME Shape, NEW p \in Procs, NEW r, NEW l \in Openings, BeginsOn(p, r, l)
    PROVE  Effect(p)
  <1>1. /\ pc[p] = "idle"
        /\ gone' = [gone EXCEPT ![p] = {q \in Procs : Gone(q)}]
        /\ claims' = claims
    BY DEF BeginsOn, Begins, At, ledger
  <1>2. /\ gone' \in [Procs -> SUBSET Procs]
        /\ gone'[p] = {q \in Procs : Gone(q)}
        /\ \A q \in Procs \ {p} : gone'[q] = gone[q]
    BY <1>1 DEF Shape
  <1>3. CASE Exit(p)
    <2>1. "done" \in Outside
      BY DEF Labels, Outside, AdvanceSection, BaselineSection
    <2>2. /\ pc' \in [Procs -> Labels]
          /\ my' = [q \in Procs |-> [run |-> my'[q].run, row |-> my'[q].row,
                                     phase |-> my'[q].phase, held |-> my'[q].held]]
          /\ \A q \in Procs \ {p} : pc'[q] = pc[q] /\ my'[q] = my[q]
          /\ pc'[p] = "done"
      BY <1>3, ExitEffect
    <2>3. OnClaims(p)
      BY <1>1, <2>2 DEF OnClaims, Waits, AdvanceSection, BaselineSection
    <2>4. QED
      BY <1>1, <1>2, <2>1, <2>2, <2>3 DEF Effect, Gone, Shape, OthersStay
  <1>4. CASE Read(p, "run", r) /\ Goto(p, l)
    <2>1. l \in Labels /\ l \in Outside
      BY DEF Labels, Outside, Openings, AdvanceSection, BaselineSection
    <2>2. /\ pc' \in [Procs -> Labels]
          /\ my' = [q \in Procs |-> [run |-> my'[q].run, row |-> my'[q].row,
                                     phase |-> my'[q].phase, held |-> my'[q].held]]
          /\ \A q \in Procs \ {p} : pc'[q] = pc[q] /\ my'[q] = my[q]
          /\ pc'[p] = l
      BY <1>4, <2>1, ReadEffect
    <2>3. OnClaims(p)
      BY <1>1, <2>1, <2>2 DEF OnClaims, Waits, Outside
    <2>4. QED
      BY <1>1, <1>2, <2>1, <2>2, <2>3 DEF Effect, Gone, Shape, OthersStay
  <1>5. QED
    BY <1>3, <1>4 DEF BeginsOn

-----------------------------------------------------------------------------
(* The steps of a command, by what they do to the claims.                  *)

\* Where a process may go on without a claim, or within the one it has.
Onward(from, to) ==
    /\ from \in Labels \ {"idle", "done", "dead"}
    /\ to \in Labels \ {"judge", "basejudge", "claim", "baseclaim"}
    /\ to \in AdvanceSection => from \in AdvanceSection
    /\ to \in BaselineSection => from \in BaselineSection

\* A step that leaves the claims and reads nothing.
LEMMA QuietMove ==
    ASSUME Shape, NEW p \in Procs, NEW l, Onward(pc[p], l), Goto(p, l),
           UNCHANGED <<my, gone>>, claims' = claims
    PROVE  Effect(p)
  <1>1. l \in Labels
    BY DEF Onward
  <1>2. Shape' /\ OthersStay(p) /\ pc'[p] = l
    BY <1>1, MoveEffect
  <1>3. Waits(p)
    BY <1>2 DEF Onward, Waits
  <1>4. ~Gone(p)
    BY DEF Onward, Gone
  <1>5. QED
    BY <1>2, <1>3, <1>4 DEF Effect, OnClaims

\* A step that leaves the claims and ends the command.
LEMMA QuietExit ==
    ASSUME Shape, NEW p \in Procs, ~Gone(p), Exit(p), gone' = gone, claims' = claims
    PROVE  Effect(p)
  <1>1. /\ pc' \in [Procs -> Labels]
        /\ my' = [q \in Procs |-> [run |-> my'[q].run, row |-> my'[q].row,
                                   phase |-> my'[q].phase, held |-> my'[q].held]]
        /\ \A q \in Procs \ {p} : pc'[q] = pc[q] /\ my'[q] = my[q]
        /\ pc'[p] = "done"
    BY ExitEffect
  <1>2. Waits(p)
    BY <1>1 DEF Waits, AdvanceSection, BaselineSection
  <1>3. QED
    BY <1>1, <1>2 DEF Effect, OnClaims, Shape, OthersStay

\* A step that reads the open cycle.
LEMMA ReadCycleEffect ==
    ASSUME Shape, NEW p \in Procs, NEW from, NEW to, Onward(from, to), ReadCycle(p, from, to)
    PROVE  Effect(p)
  <1>1. pc[p] = from /\ claims' = claims /\ gone' = gone
    BY DEF ReadCycle, At, ledger
  <1>2. CASE Exit(p)
    BY <1>1, <1>2, QuietExit DEF Onward, Gone
  <1>3. ASSUME NEW i, my' = [my EXCEPT ![p] = [run |-> @.run, row |-> i, phase |-> rows[i].phase,
                                        held |-> @.held]],
               Goto(p, to)
        PROVE  Effect(p)
    <2> DEFINE m == [run |-> my[p].run, row |-> i, phase |-> rows[i].phase, held |-> my[p].held]
    <2>1. p \in DOMAIN my
      BY DEF Shape
    <2>2. m = [run |-> m.run, row |-> m.row, phase |-> m.phase, held |-> m.held]
      OBVIOUS
    <2>3. my' = [my EXCEPT ![p] = m]
      BY <1>3, <2>1
    <2> HIDE DEF m
    <2>4. /\ my' = [q \in Procs |-> [run |-> my'[q].run, row |-> my'[q].row,
                                     phase |-> my'[q].phase, held |-> my'[q].held]]
          /\ \A q \in Procs \ {p} : my'[q] = my[q]
      BY <2>2, <2>3, MyEffect
    <2>5. /\ pc' \in [Procs -> Labels]
          /\ pc'[p] = to
          /\ \A q \in Procs \ {p} : pc'[q] = pc[q]
      BY <1>3, GotoEffect DEF Onward
    <2>6. Waits(p)
      BY <1>1, <2>5 DEF Onward, Waits
    <2>7. ~Gone(p)
      BY <1>1 DEF Onward, Gone
    <2>8. QED
      BY <1>1, <2>4, <2>5, <2>6, <2>7 DEF Effect, OnClaims, Shape, OthersStay
  <1>4. QED
    BY <1>2, <1>3 DEF ReadCycle

\* The three looks at a claim.
LEMMA LookEffect ==
    ASSUME Shape, NEW p \in Procs,
           \/ Look(p, "look", advance_claim, "judge", "claim")
           \/ Look(p, "baselook", baseline_claim, "basejudge", "baseclaim")
           \/ Look(p, "inflight", advance_claim, "judgeflight", "abandon")
    PROVE  Effect(p)
  <1>1. ASSUME NEW from \in {"look", "baselook", "inflight"}, NEW c,
               NEW l \in {"judge", "claim", "basejudge", "baseclaim", "judgeflight", "abandon"},
               pc[p] = from, Read(p, "held", c), Goto(p, l), UNCHANGED <<ledger, gone>>,
               l = "judge" => c = advance_claim,
               l = "basejudge" => c = baseline_claim,
               l = "claim" => advance_claim = Nobody,
               l = "baseclaim" => baseline_claim = Nobody
        PROVE  Effect(p)
    <2>1. l \in Labels
      BY DEF Labels
    <2>2. /\ pc' \in [Procs -> Labels]
          /\ my' = [q \in Procs |-> [run |-> my'[q].run, row |-> my'[q].row,
                                     phase |-> my'[q].phase, held |-> my'[q].held]]
          /\ \A q \in Procs \ {p} : pc'[q] = pc[q] /\ my'[q] = my[q]
          /\ pc'[p] = l
          /\ my'[p].held = c
      BY <1>1, <2>1, ReadEffect
    <2>3. claims' = claims
      BY <1>1 DEF ledger
    <2>4. l \notin AdvanceSection \cup BaselineSection
      BY DEF AdvanceSection, BaselineSection
    <2>5. Waits(p)
      BY <1>1, <2>2, <2>3, <2>4 DEF Waits
    <2>6. ~Gone(p)
      BY <1>1 DEF Gone
    <2>7. QED
      BY <1>1, <2>2, <2>5, <2>6 DEF Effect, OnClaims, Shape, OthersStay
  <1>2. CASE Look(p, "look", advance_claim, "judge", "claim")
    BY <1>1, <1>2 DEF Look, At
  <1>3. CASE Look(p, "baselook", baseline_claim, "basejudge", "baseclaim")
    BY <1>1, <1>3 DEF Look, At
  <1>4. CASE Look(p, "inflight", advance_claim, "judgeflight", "abandon")
    BY <1>1, <1>4 DEF Look, At
  <1>5. QED
    BY <1>2, <1>3, <1>4

\* The three judgements of an owner.
LEMMA JudgeEffect ==
    ASSUME Shape, NEW p \in Procs,
           \/ Judge(p, "judge", "reclaim", "claim")
           \/ Judge(p, "basejudge", "basereclaim", "baseclaim")
           \/ Judge(p, "judgeflight", "abandon", "done")
    PROVE  Effect(p)
  <1> DEFINE stale == claim_is_stale(my[p].held)
  <1>1. pc[p] \in {"judge", "basejudge", "judgeflight"} /\ ~Gone(p)
    BY DEF Judge, At, Gone
  <1>2. claims' = claims /\ gone' = gone
    BY DEF Judge, ledger
  <1>3. CASE Exit(p)
    BY <1>1, <1>2, <1>3, QuietExit
  <1>4. ASSUME NEW l \in {"reclaim", "basereclaim", "abandon"}, Goto(p, l), UNCHANGED my
        PROVE  Effect(p)
    <2>1. Onward(pc[p], l)
      BY <1>1 DEF Onward, Labels, AdvanceSection, BaselineSection, SkipSection
    <2>2. QED
      BY <1>2, <1>4, <2>1, QuietMove
  <1>5. ASSUME NEW l \in {"claim", "baseclaim"}, Goto(p, l), UNCHANGED my, ~stale,
               l = "claim" => pc[p] = "judge",
               l = "baseclaim" => pc[p] = "basejudge"
        PROVE  Effect(p)
    <2>1. l \in Labels
      BY DEF Labels
    <2>2. Shape' /\ OthersStay(p) /\ pc'[p] = l
      BY <1>2, <1>5, <2>1, MoveEffect
    <2>3. Waits(p)
      BY <1>2, <1>5, <2>2 DEF Waits, AdvanceSection, BaselineSection
    <2>4. QED
      BY <1>1, <1>2, <2>2, <2>3 DEF Effect, OnClaims
  <1>6. CASE Judge(p, "judge", "reclaim", "claim")
    BY <1>3, <1>4, <1>5, <1>6 DEF Judge, At
  <1>7. CASE Judge(p, "basejudge", "basereclaim", "baseclaim")
    BY <1>3, <1>4, <1>5, <1>7 DEF Judge, At
  <1>8. CASE Judge(p, "judgeflight", "abandon", "done")
    BY <1>3, <1>4, <1>8 DEF Judge, At
  <1>9. QED
    BY <1>6, <1>7, <1>8

\* Opening a cycle, and adding its row.
LEMMA OpenEffect ==
    ASSUME Shape, NEW p \in Procs, NEW from, NEW add, NEW out, NEW ordinal,
           Onward(from, add), out = "done" \/ Onward(from, out),
           OpenNext(p, from, ordinal, add, out)
    PROVE  Effect(p)
  <1>1. pc[p] = from /\ claims' = claims /\ gone' = gone
    BY DEF OpenNext, At, ledger
  <1>2. ~Gone(p)
    BY <1>1 DEF Onward, Gone
  <1>3. CASE Exit(p)
    BY <1>1, <1>2, <1>3, QuietExit
  <1>4. CASE Goto(p, add) /\ UNCHANGED my
    BY <1>1, <1>4, QuietMove
  <1>5. CASE out # "done" /\ Goto(p, out) /\ UNCHANGED my
    BY <1>1, <1>5, QuietMove
  <1>6. QED
    BY <1>3, <1>4, <1>5 DEF OpenNext

\* Adding a cycle's row.
LEMMA AddEffect ==
    ASSUME Shape, NEW p \in Procs, NEW from, NEW out, NEW ordinal,
           out = "done" \/ Onward(from, out), from \notin {"idle", "done", "dead"},
           AddNext(p, from, ordinal, out)
    PROVE  Effect(p)
  <1>1. pc[p] = from /\ claims' = claims /\ gone' = gone
    BY DEF AddNext, At
  <1>2. ~Gone(p)
    BY <1>1 DEF Gone
  <1>3. CASE out = "done"
    BY <1>1, <1>2, <1>3, QuietExit DEF AddNext
  <1>4. CASE out # "done"
    BY <1>1, <1>4, QuietMove DEF AddNext
  <1>5. QED
    BY <1>3, <1>4

\* Taking a claim, or being refused.
LEMMA TakeEffect ==
    ASSUME Shape, NEW p \in Procs, claim_advance(p) \/ ClaimBaseline(p)
    PROVE  Effect(p)
  <1>1. gone' = gone /\ ~Gone(p)
    BY DEF claim_advance, ClaimBaseline, At, Gone
  <1>2. CASE Exit(p) /\ claims' = claims
    BY <1>1, <1>2, QuietExit
  <1>3. CASE claim_advance(p) /\ Inserted(p, advance_claim)
    <2>1. "work" \in Labels
      BY DEF Labels, AdvanceSection
    <2>2. Shape' /\ OthersStay(p) /\ pc'[p] = "work"
      BY <1>1, <1>3, <2>1, MoveEffect DEF claim_advance
    <2>3. TakesAdvance(p)
      BY <1>3, <2>2 DEF claim_advance, TakesAdvance, Inserted
    <2>4. QED
      BY <1>1, <2>2, <2>3 DEF Effect, OnClaims
  <1>4. CASE ClaimBaseline(p) /\ Inserted(p, baseline_claim)
    <2>1. "probe" \in Labels
      BY DEF Labels, BaselineSection
    <2>2. Shape' /\ OthersStay(p) /\ pc'[p] = "probe"
      BY <1>1, <1>4, <2>1, MoveEffect DEF ClaimBaseline
    <2>3. TakesBaseline(p)
      BY <1>4, <2>2 DEF ClaimBaseline, TakesBaseline, Inserted
    <2>4. QED
      BY <1>1, <2>2, <2>3 DEF Effect, OnClaims
  <1>5. QED
    BY <1>2, <1>3, <1>4 DEF claim_advance, ClaimBaseline, claims

\* The six releases of a claim.
LEMMA DropEffect ==
    ASSUME Shape, NEW p \in Procs,
           Reclaim(p) \/ Release(p) \/ FreeAdvance(p) \/ ReclaimBaseline(p) \/ Unclaim(p) \/ Free(p)
    PROVE  Effect(p)
  <1>1. gone' = gone /\ ~Gone(p)
    BY DEF Reclaim, Release, FreeAdvance, ReclaimBaseline, Unclaim, Free, At, Gone
  <1>2. "done" \in Outside /\ "freeadvance" \in Outside
    BY DEF Outside, Labels, AdvanceSection, BaselineSection
  <1>3. CASE Exit(p)
    <2>1. /\ pc' \in [Procs -> Labels]
          /\ my' = [q \in Procs |-> [run |-> my'[q].run, row |-> my'[q].row,
                                     phase |-> my'[q].phase, held |-> my'[q].held]]
          /\ \A q \in Procs \ {p} : pc'[q] = pc[q] /\ my'[q] = my[q]
          /\ pc'[p] = "done"
      BY <1>3, ExitEffect
    <2>2. release_advance_claim(p) \/ release_claim(p)
      BY DEF Reclaim, Release, FreeAdvance, ReclaimBaseline, Unclaim, Free
    <2>3. OnClaims(p)
      BY <1>2, <2>1, <2>2 DEF OnClaims, DropsAdvance, DropsBaseline
    <2>4. QED
      BY <1>1, <2>1, <2>3 DEF Effect, Shape, OthersStay
  <1>4. CASE Reclaim(p)
    <2>1. "claim" \in Labels
      BY DEF Labels
    <2>2. Shape' /\ OthersStay(p) /\ pc'[p] = "claim"
      BY <1>1, <1>4, <2>1, MoveEffect DEF Reclaim
    <2>3. DropsAdvance(p)
      BY <1>4, <2>2 DEF Reclaim, DropsAdvance
    <2>4. QED
      BY <1>1, <2>2, <2>3 DEF Effect, OnClaims
  <1>5. CASE ReclaimBaseline(p)
    <2>1. "baseclaim" \in Labels
      BY DEF Labels
    <2>2. Shape' /\ OthersStay(p) /\ pc'[p] = "baseclaim"
      BY <1>1, <1>5, <2>1, MoveEffect DEF ReclaimBaseline
    <2>3. DropsBaseline(p)
      BY <1>5, <2>2 DEF ReclaimBaseline, DropsBaseline
    <2>4. QED
      BY <1>1, <2>2, <2>3 DEF Effect, OnClaims
  <1>6. CASE Free(p)
    <2>1. "freeadvance" \in Labels
      BY DEF Labels
    <2>2. Shape' /\ OthersStay(p) /\ pc'[p] = "freeadvance"
      BY <1>1, <1>6, <2>1, MoveEffect DEF Free
    <2>3. DropsBaseline(p)
      BY <1>2, <1>6, <2>2 DEF Free, DropsBaseline
    <2>4. QED
      BY <1>1, <2>2, <2>3 DEF Effect, OnClaims
  <1>7. QED
    BY <1>3, <1>4, <1>5, <1>6 DEF Release, FreeAdvance, Unclaim

\* Every label of a section is a label.
LEMMA OnwardInAdvance ==
    \A from, to \in AdvanceSection : Onward(from, to)
  BY DEF Onward, Labels, AdvanceSection, BaselineSection

LEMMA OnwardInBaseline ==
    \A from, to \in BaselineSection : Onward(from, to)
  BY DEF Onward, Labels, AdvanceSection, BaselineSection

LEMMA OnwardInSkip ==
    \A from, to \in SkipSection : Onward(from, to)
  BY DEF Onward, Labels, AdvanceSection, BaselineSection, SkipSection

\* tdd advance.
LEMMA AdvanceEffect ==
    ASSUME Shape, NEW p \in Procs, Advance(p)
    PROVE  Effect(p)
  <1>1. CASE advance(p)
    BY <1>1, BeginEffect DEF advance, Openings
  <1>2. CASE ReadCycle(p, "cycle", "look")
    <2>1. Onward("cycle", "look")
      BY DEF Onward, Labels, AdvanceSection, BaselineSection
    <2>2. QED
      BY <1>2, <2>1, ReadCycleEffect
  <1>3. CASE Look(p, "look", advance_claim, "judge", "claim")
    BY <1>3, LookEffect
  <1>4. CASE Judge(p, "judge", "reclaim", "claim")
    BY <1>4, JudgeEffect
  <1>5. CASE Reclaim(p) \/ Release(p)
    BY <1>5, DropEffect
  <1>6. CASE claim_advance(p)
    BY <1>6, TakeEffect
  <1>7. CASE Handle(p) \/ close_cycle(p) \/ MoveToClosed(p) \/ MarkClosed(p) \/ EndRun(p)
    <2>1. /\ pc[p] \in AdvanceSection
          /\ \E l \in AdvanceSection : Goto(p, l)
      BY <1>7 DEF Handle, close_cycle, MoveToClosed, MarkClosed, EndRun, At, AdvanceSection
    <2>2. claims' = claims /\ UNCHANGED <<my, gone>>
      BY <1>7 DEF Handle, close_cycle, MoveToClosed, MarkClosed, EndRun, ledger
    <2>3. QED
      BY <2>1, <2>2, OnwardInAdvance, QuietMove
  <1>8. CASE OpenNext(p, "next", Ordinal(p) + 1, "add", "release")
    <2>1. Onward("next", "add") /\ Onward("next", "release")
      BY OnwardInAdvance DEF AdvanceSection
    <2>2. QED
      BY <1>8, <2>1, OpenEffect
  <1>9. CASE AddNext(p, "add", Ordinal(p) + 1, "release")
    <2>1. Onward("add", "release")
      BY OnwardInAdvance DEF AdvanceSection
    <2>2. QED
      BY <1>9, <2>1, AddEffect
  <1>10. QED
    BY <1>1, <1>2, <1>3, <1>4, <1>5, <1>6, <1>7, <1>8, <1>9 DEF Advance

\* tdd cycle skip.
LEMMA SkipEffect ==
    ASSUME Shape, NEW p \in Procs, Skip(p)
    PROVE  Effect(p)
  <1>1. CASE BeginsOn(p, active_run, "skipcycle")
    BY <1>1, BeginEffect DEF Openings
  <1>2. CASE ReadCycle(p, "skipcycle", "skip")
    <2>1. Onward("skipcycle", "skip")
      BY DEF Onward, Labels, AdvanceSection, BaselineSection, SkipSection
    <2>2. QED
      BY <1>2, <2>1, ReadCycleEffect
  <1>3. CASE skip_cycle(p)
    <2>1. /\ pc[p] \in SkipSection
          /\ \E l \in SkipSection : Goto(p, l)
          /\ claims' = claims /\ UNCHANGED <<my, gone>>
      BY <1>3 DEF skip_cycle, At, SkipSection
    <2>2. QED
      BY <2>1, OnwardInSkip, QuietMove
  <1>4. CASE SkipEnd(p)
    BY <1>4, QuietExit DEF SkipEnd, At, Gone
  <1>5. CASE OpenNext(p, "skipnext", Ordinal(p) + 1, "skipadd", "done")
    <2>1. Onward("skipnext", "skipadd")
      BY OnwardInSkip DEF SkipSection
    <2>2. QED
      BY <1>5, <2>1, OpenEffect
  <1>6. CASE AddNext(p, "skipadd", Ordinal(p) + 1, "done")
    BY <1>6, AddEffect
  <1>7. QED
    BY <1>1, <1>2, <1>3, <1>4, <1>5, <1>6 DEF Skip

\* tdd run start.
LEMMA StartEffect ==
    ASSUME Shape, NEW p \in Procs, Start(p)
    PROVE  Effect(p)
  <1>1. CASE run_start(p)
    <2>1. /\ pc[p] = "idle"
          /\ gone' = [gone EXCEPT ![p] = {q \in Procs : Gone(q)}]
          /\ claims' = claims
      BY <1>1 DEF run_start, Begins, At, ledger
    <2>2. /\ gone' \in [Procs -> SUBSET Procs]
          /\ gone'[p] = {q \in Procs : Gone(q)}
          /\ \A q \in Procs \ {p} : gone'[q] = gone[q]
      BY <2>1 DEF Shape
    <2>3. "done" \in Outside /\ "delivered" \in Outside /\ "delivered" \in Labels
      BY DEF Outside, Labels, AdvanceSection, BaselineSection
    <2>4. /\ pc' \in [Procs -> Labels]
          /\ my' = [q \in Procs |-> [run |-> my'[q].run, row |-> my'[q].row,
                                     phase |-> my'[q].phase, held |-> my'[q].held]]
          /\ \A q \in Procs \ {p} : pc'[q] = pc[q] /\ my'[q] = my[q]
          /\ pc'[p] \in {"done", "delivered"}
      <3>1. CASE Exit(p)
        BY <3>1, ExitEffect
      <3>2. CASE Goto(p, "delivered") /\ UNCHANGED my
        BY <2>3, <3>2, GotoEffect DEF Shape
      <3>3. QED
        BY <1>1, <3>1, <3>2 DEF run_start
    <2>5. OnClaims(p)
      BY <2>1, <2>4 DEF OnClaims, Waits, AdvanceSection, BaselineSection
    <2>6. QED
      BY <2>1, <2>2, <2>3, <2>4, <2>5 DEF Effect, Gone, Shape, OthersStay
  <1>2. CASE delivered_run(p)
    <2>1. ~Gone(p) /\ gone' = gone /\ claims' = claims
      BY <1>2 DEF delivered_run, At, Gone, ledger
    <2>2. Onward(pc[p], "baselook")
      BY <1>2 DEF delivered_run, At, Onward, Labels, AdvanceSection, BaselineSection
    <2>3. CASE Exit(p)
      BY <2>1, <2>3, QuietExit
    <2>4. CASE Goto(p, "baselook") /\ UNCHANGED my
      BY <2>1, <2>2, <2>4, QuietMove
    <2>5. QED
      BY <1>2, <2>3, <2>4 DEF delivered_run
  <1>3. CASE Look(p, "baselook", baseline_claim, "basejudge", "baseclaim")
    BY <1>3, LookEffect
  <1>4. CASE Judge(p, "basejudge", "basereclaim", "baseclaim")
    BY <1>4, JudgeEffect
  <1>5. CASE ReclaimBaseline(p) \/ Unclaim(p)
    BY <1>5, DropEffect
  <1>6. CASE ClaimBaseline(p)
    BY <1>6, TakeEffect
  <1>7. CASE Probe(p)
    <2>1. pc[p] = "probe" /\ ~Gone(p) /\ gone' = gone /\ claims' = claims
      BY <1>7 DEF Probe, At, Gone
    <2>2. CASE Goto(p, "unclaim") /\ UNCHANGED my
      <3>1. Onward(pc[p], "unclaim")
        BY <2>1, OnwardInBaseline DEF BaselineSection
      <3>2. QED
        BY <2>1, <2>2, <3>1, QuietMove
    <2>3. ASSUME NEW r, Read(p, "run", r), Goto(p, "check")
          PROVE  Effect(p)
      <3>1. "check" \in Labels
        BY DEF Labels, BaselineSection
      <3>2. /\ pc' \in [Procs -> Labels]
            /\ my' = [q \in Procs |-> [run |-> my'[q].run, row |-> my'[q].row,
                                       phase |-> my'[q].phase, held |-> my'[q].held]]
            /\ \A q \in Procs \ {p} : pc'[q] = pc[q] /\ my'[q] = my[q]
            /\ pc'[p] = "check"
        BY <2>3, <3>1, ReadEffect
      <3>3. Waits(p)
        BY <2>1, <3>2 DEF Waits, AdvanceSection, BaselineSection
      <3>4. QED
        BY <2>1, <3>2, <3>3 DEF Effect, OnClaims, Shape, OthersStay
    <2>4. QED
      BY <1>7, <2>2, <2>3 DEF Probe
  <1>8. CASE CheckArtifacts(p)
    <2>1. /\ pc[p] \in BaselineSection
          /\ \E l \in BaselineSection : Goto(p, l)
          /\ claims' = claims /\ UNCHANGED <<my, gone>>
      BY <1>8 DEF CheckArtifacts, At, BaselineSection
    <2>2. QED
      BY <2>1, OnwardInBaseline, QuietMove
  <1>9. CASE OpenNext(p, "first", 1, "addfirst", "unclaim")
    <2>1. Onward("first", "addfirst") /\ Onward("first", "unclaim")
      BY OnwardInBaseline DEF BaselineSection
    <2>2. QED
      BY <1>9, <2>1, OpenEffect
  <1>10. CASE AddNext(p, "addfirst", 1, "unclaim")
    <2>1. Onward("addfirst", "unclaim")
      BY OnwardInBaseline DEF BaselineSection
    <2>2. QED
      BY <1>10, <2>1, AddEffect
  <1>11. QED
    BY <1>1, <1>2, <1>3, <1>4, <1>5, <1>6, <1>7, <1>8, <1>9, <1>10 DEF Start

\* The other commands, and a kill.
LEMMA OtherEffect ==
    ASSUME Shape, NEW p \in Procs, Abandon(p) \/ Supervise(p) \/ Crash(p)
    PROVE  Effect(p)
  <1>1. ASSUME NEW r, NEW l \in Openings, BeginsOn(p, r, l)
        PROVE  Effect(p)
    BY <1>1, BeginEffect
  <1>2. CASE Look(p, "inflight", advance_claim, "judgeflight", "abandon")
    BY <1>2, LookEffect
  <1>3. CASE Judge(p, "judgeflight", "abandon", "done")
    BY <1>3, JudgeEffect
  <1>4. CASE abandon_run(p)
    <2>1. pc[p] = "abandon" /\ Goto(p, "free") /\ claims' = claims /\ UNCHANGED <<my, gone>>
      BY <1>4 DEF abandon_run, At
    <2>2. Onward(pc[p], "free")
      BY <2>1 DEF Onward, Labels, AdvanceSection, BaselineSection
    <2>3. QED
      BY <2>1, <2>2, QuietMove
  <1>5. CASE Free(p) \/ FreeAdvance(p)
    BY <1>5, DropEffect
  <1>6. CASE blocker(p) \/ reopen_run(p)
    BY <1>6, QuietExit DEF blocker, reopen_run, At, Gone
  <1>7. CASE Crash(p)
    <2>1. ~Gone(p) /\ gone' = gone /\ claims' = claims
      BY <1>7 DEF Crash, Gone, ledger
    <2>2. "dead" \in Labels
      BY DEF Labels
    <2>3. /\ pc' \in [Procs -> Labels]
          /\ pc'[p] = "dead"
          /\ \A q \in Procs \ {p} : pc'[q] = pc[q]
      BY <1>7, <2>2, GotoEffect DEF Crash
    <2>4. Fresh = [run |-> Fresh.run, row |-> Fresh.row, phase |-> Fresh.phase, held |-> Fresh.held]
      BY DEF Fresh
    <2>5. my' = [my EXCEPT ![p] = Fresh]
      BY <1>7 DEF Crash
    <2>6. /\ my' = [q \in Procs |-> [run |-> my'[q].run, row |-> my'[q].row,
                                     phase |-> my'[q].phase, held |-> my'[q].held]]
          /\ \A q \in Procs \ {p} : my'[q] = my[q]
      BY <2>4, <2>5, MyEffect
    <2>7. Waits(p)
      BY <2>1, <2>3 DEF Waits, AdvanceSection, BaselineSection
    <2>8. QED
      BY <2>1, <2>3, <2>6, <2>7 DEF Effect, OnClaims, Shape, OthersStay
  <1>8. CASE Abandon(p)
    BY <1>1, <1>2, <1>3, <1>4, <1>5, <1>8 DEF Abandon, Openings
  <1>9. CASE Supervise(p)
    BY <1>1, <1>6, <1>9 DEF Supervise, Openings
  <1>10. QED
    BY <1>7, <1>8, <1>9

\* A step of p, whichever it is.
LEMMA StepEffect ==
    ASSUME Shape, NEW p \in Procs, Step(p)
    PROVE  Effect(p)
  BY AdvanceEffect, SkipEffect, StartEffect, OtherEffect DEF Step

-----------------------------------------------------------------------------
(* The inductive invariant.                                                *)

\* Who is past a claim owns it, unless another command deleted it.
Owned ==
    \A p \in Procs : p \notin robbed =>
        /\ pc[p] \in AdvanceSection => advance_claim = p
        /\ pc[p] \in BaselineSection => baseline_claim = p

\* Who has ended stays so.
Past == \A p, q \in Procs : q \in gone[p] => Gone(q)

\* Between its look and its insert, a command has seen any claim of the dead.
Judged ==
    \A p \in Procs :
        /\ pc[p] = "judge" /\ advance_claim \in gone[p] => my[p].held = advance_claim
        /\ pc[p] = "claim" => advance_claim \notin gone[p]
        /\ pc[p] = "basejudge" /\ baseline_claim \in gone[p] => my[p].held = baseline_claim
        /\ pc[p] = "baseclaim" => baseline_claim \notin gone[p]

ClaimsInv == Shape /\ Owned /\ Past /\ Judged

\* The initial states.
LEMMA InitClaims == Init => ClaimsInv
  <1> SUFFICES ASSUME Init
               PROVE  ClaimsInv
    OBVIOUS
  <1>1. Fresh = [run |-> Fresh.run, row |-> Fresh.row, phase |-> Fresh.phase, held |-> Fresh.held]
    BY DEF Fresh
  <1>2. my = [p \in Procs |-> Fresh]
    BY DEF Init
  <1>3. \A p \in Procs : my[p] = [run |-> my[p].run, row |-> my[p].row,
                                  phase |-> my[p].phase, held |-> my[p].held]
    BY <1>1, <1>2
  <1>4. my = [p \in Procs |-> [run |-> my[p].run, row |-> my[p].row,
                              phase |-> my[p].phase, held |-> my[p].held]]
    BY <1>2, <1>3
  <1>5. "idle" \in Labels /\ "idle" \notin AdvanceSection \cup BaselineSection
    BY DEF Labels, AdvanceSection, BaselineSection
  <1>6. /\ pc = [p \in Procs |-> "idle"]
        /\ gone = [p \in Procs |-> {}]
    BY DEF Init
  <1>7. Shape
    BY <1>4, <1>5, <1>6 DEF Shape
  <1>8. Owned /\ Past /\ Judged
    BY <1>5, <1>6 DEF Owned, Past, Judged
  <1>9. QED
    BY <1>7, <1>8 DEF ClaimsInv

\* Who is robbed stays robbed, and a release robs every running owner but the releaser.
LEMMA RobbedGrows ==
    ASSUME NEW p, Effect(p)
    PROVE  robbed \subseteq robbed'
  BY DEF Effect, OnClaims, Waits, TakesAdvance, TakesBaseline, DropsAdvance, DropsBaseline,
         release_claim, release_advance_claim, Rob, claims

\* A process is past a claim as its owner after every step.
LEMMA StepOwned ==
    ASSUME ClaimsInv, NEW p \in Procs, Effect(p)
    PROVE  Owned'
  <1> SUFFICES ASSUME NEW q \in Procs, q \notin robbed'
               PROVE  /\ pc'[q] \in AdvanceSection => advance_claim' = q
                      /\ pc'[q] \in BaselineSection => baseline_claim' = q
    BY DEF Owned
  <1>1. q \notin robbed
    BY RobbedGrows
  <1>2. /\ pc[q] \in AdvanceSection => advance_claim = q
        /\ pc[q] \in BaselineSection => baseline_claim = q
    BY <1>1 DEF ClaimsInv, Owned
  <1>3. q # p => pc'[q] = pc[q]
    BY DEF Effect, OthersStay
  <1>4. pc[q] \in AdvanceSection \cup BaselineSection => ~Gone(q)
    BY DEF Gone, AdvanceSection, BaselineSection
  <1>5. CASE Waits(p)
    BY <1>2, <1>3, <1>5 DEF Waits, claims
  <1>6. CASE TakesAdvance(p)
    <2>1. "work" \notin BaselineSection
      BY DEF BaselineSection
    <2>2. QED
      BY <1>2, <1>3, <1>6, <2>1, ProcsAssumption DEF TakesAdvance
  <1>7. CASE TakesBaseline(p)
    <2>1. "probe" \notin AdvanceSection
      BY DEF AdvanceSection
    <2>2. QED
      BY <1>2, <1>3, <1>7, <2>1, ProcsAssumption DEF TakesBaseline
  <1>8. CASE DropsAdvance(p)
    <2>1. pc'[p] \notin AdvanceSection \cup BaselineSection
      BY <1>8 DEF DropsAdvance, Outside, AdvanceSection, BaselineSection
    <2>2. q # p /\ pc[q] \in AdvanceSection => q \in robbed'
      BY <1>2, <1>4, <1>8, ProcsAssumption DEF DropsAdvance, release_advance_claim, Rob
    <2>3. QED
      BY <1>2, <1>3, <1>8, <2>1, <2>2 DEF DropsAdvance, release_advance_claim
  <1>9. CASE DropsBaseline(p)
    <2>1. pc'[p] \notin AdvanceSection \cup BaselineSection
      BY <1>9 DEF DropsBaseline, Outside, AdvanceSection, BaselineSection
    <2>2. q # p /\ pc[q] \in BaselineSection => q \in robbed'
      BY <1>2, <1>4, <1>9, ProcsAssumption DEF DropsBaseline, release_claim, Rob
    <2>3. QED
      BY <1>2, <1>3, <1>9, <2>1, <2>2 DEF DropsBaseline, release_claim
  <1>10. QED
    BY <1>5, <1>6, <1>7, <1>8, <1>9 DEF Effect, OnClaims

\* Only a process that has not ended moves, so the ended ones stay ended.
LEMMA StepPast ==
    ASSUME ClaimsInv, NEW p \in Procs, Effect(p)
    PROVE  Past'
  <1>1. \A q \in Procs : Gone(q) => Gone(q)'
    BY DEF Effect, OthersStay, Gone
  <1>2. \A q, r \in Procs : r \in gone'[q] => Gone(r)
    BY DEF Effect, OthersStay, ClaimsInv, Past
  <1>3. QED
    BY <1>1, <1>2 DEF Past

\* A claim of the dead is seen by whoever looks at it after they died, and goes.
LEMMA StepJudged ==
    ASSUME ClaimsInv, NEW p \in Procs, Effect(p)
    PROVE  Judged'
  <1> SUFFICES ASSUME NEW q \in Procs
               PROVE  /\ pc'[q] = "judge" /\ advance_claim' \in gone'[q] => my'[q].held = advance_claim'
                      /\ pc'[q] = "claim" => advance_claim' \notin gone'[q]
                      /\ pc'[q] = "basejudge" /\ baseline_claim' \in gone'[q] => my'[q].held = baseline_claim'
                      /\ pc'[q] = "baseclaim" => baseline_claim' \notin gone'[q]
    BY DEF Judged
  <1> DEFINE Judging == {"judge", "claim", "basejudge", "baseclaim"}
  <1>1. pc'[q] \in Judging => gone'[q] = gone[q]
    BY DEF Effect, OthersStay, Outside
  <1>2. gone[q] \subseteq Procs /\ \A r \in gone[q] : Gone(r)
    BY DEF ClaimsInv, Shape, Past
  <1>3. p \notin gone[q] /\ Nobody \notin gone[q]
    BY <1>2, ProcsAssumption DEF Effect
  <1>4. q # p => pc'[q] = pc[q] /\ my'[q] = my[q]
    BY DEF Effect, OthersStay
  <1>5. /\ pc[q] = "judge" /\ advance_claim \in gone[q] => my[q].held = advance_claim
        /\ pc[q] = "claim" => advance_claim \notin gone[q]
        /\ pc[q] = "basejudge" /\ baseline_claim \in gone[q] => my[q].held = baseline_claim
        /\ pc[q] = "baseclaim" => baseline_claim \notin gone[q]
    BY DEF ClaimsInv, Judged
  <1>6. CASE Waits(p)
    <2>1. CASE q # p
      BY <1>1, <1>4, <1>5, <1>6, <2>1 DEF Waits, claims
    <2>2. CASE q = p
      <3>1. /\ pc[q] = "judge" /\ ~claim_is_stale(my[q].held) => advance_claim \notin gone[q]
            /\ pc[q] = "basejudge" /\ ~claim_is_stale(my[q].held) => baseline_claim \notin gone[q]
        BY <1>2, <1>5, ProcsAssumption DEF claim_is_stale
      <3>2. QED
        BY <1>1, <1>3, <1>6, <2>2, <3>1 DEF Waits, claims
    <2>3. QED
      BY <2>1, <2>2
  <1>7. CASE TakesAdvance(p)
    BY <1>1, <1>3, <1>4, <1>5, <1>7 DEF TakesAdvance
  <1>8. CASE TakesBaseline(p)
    BY <1>1, <1>3, <1>4, <1>5, <1>8 DEF TakesBaseline
  <1>9. CASE DropsAdvance(p)
    <2>1. pc'[p] \notin {"judge", "basejudge", "baseclaim"}
      BY <1>9 DEF DropsAdvance, Outside
    <2>2. QED
      BY <1>1, <1>3, <1>4, <1>5, <1>9, <2>1 DEF DropsAdvance, release_advance_claim
  <1>10. CASE DropsBaseline(p)
    <2>1. pc'[p] \notin {"judge", "basejudge", "claim"}
      BY <1>10 DEF DropsBaseline, Outside
    <2>2. QED
      BY <1>1, <1>3, <1>4, <1>5, <1>10, <2>1 DEF DropsBaseline, release_claim
  <1>11. QED
    BY <1>6, <1>7, <1>8, <1>9, <1>10 DEF Effect, OnClaims

\* Every step keeps the invariant.
LEMMA StepClaims == ClaimsInv /\ [Next]_vars => ClaimsInv'
  <1> SUFFICES ASSUME ClaimsInv, [Next]_vars
               PROVE  ClaimsInv'
    OBVIOUS
  <1>1. ASSUME NEW p \in Procs, Step(p)
        PROVE  ClaimsInv'
    <2>1. Effect(p)
      BY <1>1, StepEffect DEF ClaimsInv
    <2>2. QED
      BY <2>1, StepOwned, StepPast, StepJudged DEF ClaimsInv, Effect
  <1>2. CASE UNCHANGED vars
    BY <1>2 DEF vars, ClaimsInv, Shape, Owned, Past, Judged, Gone
  <1>3. QED
    BY <1>1, <1>2 DEF Next, Rest

\* The invariant holds in every reachable state.
THEOREM ClaimsInvariant == Spec => []ClaimsInv
  BY InitClaims, StepClaims, PTL DEF Spec

-----------------------------------------------------------------------------
(* What it gives.                                                          *)

\* Two processes are past one claim only if the claim of one was deleted by another
\* command: the insert of cmd_advance and of cmd_run_start excludes (ledger.py claim).
THEOREM ClaimsExclude == Spec => []ClaimExcludes
  <1>1. ClaimsInv => ClaimExcludes
    BY DEF ClaimsInv, Owned, ClaimExcludes
  <1>2. QED
    BY <1>1, ClaimsInvariant, PTL

\* The dead refuse nobody: a claim whose owner had ended when a command began is gone
\* when that command inserts its own, or belongs to a process that came later.
THEOREM OnlyTheLivingRefuse == Spec => RefusedByTheLiving
  <1>1. ClaimsInv /\ [Next]_vars =>
          [\A p \in Procs :
             /\ pc[p] = "claim" /\ pc'[p] = "done" => advance_claim \notin gone[p]
             /\ pc[p] = "baseclaim" /\ pc'[p] = "done" => baseline_claim \notin gone[p]]_vars
    BY DEF ClaimsInv, Judged
  <1>2. QED
    BY <1>1, ClaimsInvariant, PTL DEF Spec, RefusedByTheLiving
=============================================================================
