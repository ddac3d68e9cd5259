---------------------------- MODULE PlanProgress ----------------------------
(***************************************************************************)
(* What a run promises whoever supervises it, with no tree, suite or       *)
(* evidence in sight: the plan's cycles are done one at a time in the      *)
(* plan's order, a run that is not live does no work, and only the last    *)
(* cycle's end can complete it.                                            *)
(***************************************************************************)
EXTENDS Integers

CONSTANT N      \* the number of cycles, a natural number

VARIABLES
    status,     \* the run's standing
    current,    \* the cycle in progress; 0 when there is none
    done        \* the cycles closed or skipped

vars == <<status, current, done>>

Init == status = "none" /\ current = 0 /\ done = {}

Start ==
    /\ status = "none"
    /\ \/ status' = "refused" /\ UNCHANGED current
       \/ status' = "live" /\ current' = IF N = 0 THEN 0 ELSE 1
    /\ UNCHANGED done

\* The current cycle ends: the next one begins, or the run has none left.
Finish ==
    /\ status = "live"
    /\ current # 0
    /\ done' = done \cup {current}
    /\ \/ current < N /\ current' = current + 1 /\ UNCHANGED status
       \/ current = N /\ current' = 0 /\ status' \in {"complete", "blocked"}

Pause == status = "live" /\ status' = "blocked" /\ UNCHANGED <<current, done>>

Resume == status = "blocked" /\ status' = "live" /\ UNCHANGED <<current, done>>

Abandon ==
    /\ status \in {"live", "blocked"}
    /\ status' = "abandoned"
    /\ UNCHANGED <<current, done>>

Next == Start \/ Finish \/ Pause \/ Resume \/ Abandon

Spec == Init /\ [][Next]_vars
=============================================================================
