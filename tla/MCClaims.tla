------------------------------ MODULE MCClaims ------------------------------
(***************************************************************************)
(* Instances of Claims for TLC: a worktree without a run, and one whose    *)
(* run has its first cycle open.  The processes are interchangeable.       *)
(***************************************************************************)
EXTENDS Claims, TLC

Symmetry == Permutations(Procs)

NoRun == [run |-> [r \in RunIds |-> "none"], rows |-> << >>]

\* What run start leaves: run 1 is live and its first cycle is open.
Started ==
    [run |-> [r \in RunIds |-> IF r = 1 THEN "live" ELSE "none"],
     rows |-> << [run |-> 1, ordinal |-> 1, phase |-> Opening[1], closed |-> FALSE] >>]

OnlyNoRun == {NoRun}
OnlyStarted == {Started}
NoRunOrStarted == {NoRun, Started}

RefactorFirst == [o \in 1..N |-> IF o = 1 THEN "REFACTOR" ELSE "WORK"]
=============================================================================
