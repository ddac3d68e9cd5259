------------------------------ MODULE MCTddRun ------------------------------
(***************************************************************************)
(* Instances of TddRun for TLC.  The agent's own steps are bounded: `fuel` *)
(* counts down on each edit, hand commit, renamed target, sensitivity      *)
(* begin and unblock.  Everything the tool does is free.                   *)
(***************************************************************************)
EXTENDS TddRun

CONSTANTS t1, t2, x1, testfile, impl, stray, golden, v0, v1, Fuel
VARIABLE fuel

MCvars == <<vars, fuel>>

MCInit == Init /\ fuel = Fuel

Spend ==
    /\ fuel > 0
    /\ fuel' = fuel - 1

MCNext ==
    \/ UNCHANGED fuel /\ \E c \in Cycles : Advance(c)
    \/ UNCHANGED fuel /\ \E c \in Cycles : cycle_skip(c) \/ annotate(c)
    \/ UNCHANGED fuel /\ \E c \in Cycles : sensitivity_check(c) \/ sensitivity_end(c)
    \/ UNCHANGED fuel /\ (run_start \/ blocker \/ run_abandon \/ Over)
    \/ Spend /\ \E c \in Cycles : target(c) \/ sensitivity_begin(c)
    \/ Spend /\ (resume_unblock \/ Edit \/ CommitByHand)

MCSpec == MCInit /\ [][MCNext]_MCvars

-----------------------------------------------------------------------------
StandardPin == <<"standard", "pin">>
StandardRefactor == <<"standard", "refactor">>
OneContract == <<"contract">>
OnePin == <<"pin">>
OneStandard == <<"standard">>
ContractRefactor == <<"contract", "refactor">>
BothNone == <<{t1, t2}, {}>>
One == <<{t1}>>

OneEach == <<{t1}, {t2}>>
OneNone == <<{t1}, {}>>
Both == <<{t1, t2}>>

OneProject == [t \in Tests |-> "p"]
TwoProjects == [t \in Tests |-> IF t = t1 THEN "p" ELSE "q"]
RankOf == [t \in Tests |-> CASE t = t1 -> 1 [] t = t2 -> 2 [] OTHER -> 3]

ClassOf == [f \in Files |-> CASE f = testfile -> "test"
                              [] f = impl -> "implementation"
                              [] f = golden -> "generated"
                              [] OTHER -> "outside"]
Empty == [f \in Files |-> Absent]
=============================================================================
