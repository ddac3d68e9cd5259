------------------------------- MODULE Claims -------------------------------
(***************************************************************************)
(* Several tdd processes over one worktree and one ledger.  Each process   *)
(* runs one command and each of its steps is one ledger statement (or one  *)
(* look at whether a pid lives), since every statement is committed by     *)
(* itself (Ledger._write).  Any process may be killed between two of them. *)
(*                                                                         *)
(* What a command decides from suites, gates, artifacts and the tree is    *)
(* chosen freely here; TddRun has it.  A cycle's phases before the refactor *)
(* are one, WORK.  All processes are on one host, so a claim is stale when *)
(* its owner's pid is gone, and no pid is used twice.                      *)
(***************************************************************************)
EXTENDS Integers, Sequences, FiniteSets

CONSTANTS
    N,          \* the plan declares the cycles 1..N
    Opening,    \* the phase each cycle opens in
    Procs,      \* the processes, one command each
    Nobody,     \* the owner of a claim row that does not exist
    RunIds,     \* the ids a run row may get
    Ledgers     \* the run and cycle rows there may be before the first command

ASSUME NAssumption == N \in Nat \ {0} /\ Opening \in [1..N -> {"WORK", "REFACTOR"}]
ASSUME ProcsAssumption == Nobody \notin Procs
\* Ids are handed out from 1 on.
ASSUME RunsAssumption == IsFiniteSet(RunIds) /\ RunIds = 1..Cardinality(RunIds)

VARIABLES
    run,            \* the run rows: "none", or "live", or how the run ended
    rows,           \* the cycle rows: run, ordinal, phase, closed (closed_at is set)
    advance_claim,  \* the owner of the worktree's advance claim
    baseline_claim, \* the owner of its baseline claim
    pc,             \* where each process is
    my,             \* what it has read: run, row, phase of the row, owner of a claim
    robbed,         \* observation: the processes whose claim another released as they ran
    crossed,        \* observation: two writers of cycle rows have been at work at once
    gone            \* observation: the processes that had ended when each one began

vars == <<run, rows, advance_claim, baseline_claim, pc, my, robbed, crossed, gone>>

claims == <<advance_claim, baseline_claim, robbed>>
ledger == <<run, rows, claims>>

Fresh == [run |-> 0, row |-> 0, phase |-> "WORK", held |-> Nobody]

\* From a claim to its release, and where cycle rows are written.
AdvanceSection == {"work", "close", "move", "mark", "end", "next", "add", "release"}
BaselineSection == {"probe", "check", "first", "addfirst", "unclaim"}
SkipSection == {"skip", "skipend", "skipnext", "skipadd"}
WritingRows == (AdvanceSection \ {"release"}) \cup SkipSection
Labels == AdvanceSection \cup BaselineSection \cup SkipSection \cup
          {"idle", "done", "dead",
           "cycle", "look", "judge", "reclaim", "claim",
           "delivered", "baselook", "basejudge", "basereclaim", "baseclaim",
           "skipcycle", "inflight", "judgeflight", "abandon", "free", "freeadvance",
           "block", "reopen"}
Outcomes == {"none", "live", "blocked", "complete", "abandoned", "refused"}
Phases == {"WORK", "REFACTOR", "CLOSED", "SKIPPED"}
CycleRow == [run : RunIds, ordinal : 1..N, phase : Phases, closed : BOOLEAN]

\* A ledger that commands run one at a time leave: rows belong to runs, come in the plan's
\* order, at most one of a run is open, none of a complete one, which shows every cycle.
Coherent(l) ==
    /\ \A i \in DOMAIN l.rows :
          /\ l.run[l.rows[i].run] # "none"
          /\ \A o \in 1..l.rows[i].ordinal :
                \E j \in DOMAIN l.rows : l.rows[j].run = l.rows[i].run /\ l.rows[j].ordinal = o
    /\ \A i, j \in DOMAIN l.rows :
          l.rows[i].run = l.rows[j].run /\ ~l.rows[i].closed /\ ~l.rows[j].closed => i = j
    /\ \A r \in RunIds : l.run[r] = "complete" =>
          /\ \A i \in DOMAIN l.rows : l.rows[i].run = r => l.rows[i].closed
          /\ \E i \in DOMAIN l.rows : l.rows[i].run = r /\ l.rows[i].ordinal = N

ASSUME LedgersAssumption ==
    \A l \in Ledgers :
        l.run \in [RunIds -> Outcomes] /\ l.rows \in Seq(CycleRow) /\ Coherent(l)

Gone(p) == pc[p] \in {"done", "dead"}

Goto(p, label) == pc' = [pc EXCEPT ![p] = label]

\* The command is over, and what it had read with it.
Exit(p) ==
    /\ Goto(p, "done")
    /\ my' = [my EXCEPT ![p] = Fresh]

Read(p, field, value) == my' = [my EXCEPT ![p] = [@ EXCEPT ![field] = value]]

-----------------------------------------------------------------------------
(* The ledger's queries and statements.                                    *)

Newest(S) == CHOOSE r \in S : \A s \in S : s <= r

LiveRuns == {r \in RunIds : run[r] = "live"}
BlockedRuns == {r \in RunIds : run[r] = "blocked"}

\* The newest run of the kind; 0 when there is none.
active_run == IF LiveRuns = {} THEN 0 ELSE Newest(LiveRuns)
latest_blocked_run == IF BlockedRuns = {} THEN 0 ELSE Newest(BlockedRuns)

OpenRows(r) == {i \in DOMAIN rows : rows[i].run = r /\ ~rows[i].closed}

\* The open rows of lowest ordinal: LIMIT 1 takes one of them.
open_cycle(r) == {i \in OpenRows(r) : \A j \in OpenRows(r) : rows[i].ordinal <= rows[j].ordinal}

unclosed_cycle(r, ordinal) == {i \in OpenRows(r) : rows[i].ordinal = ordinal}

\* Mutant: the outcome is not stored.
end_run_unsaid(r, outcome) == run' = [run EXCEPT ![r] = "ended"]

end_run(r, outcome) == run' = [run EXCEPT ![r] = outcome]

add_cycle(r, ordinal) ==
    rows' = Append(rows, [run |-> r, ordinal |-> ordinal,
                           phase |-> Opening[ordinal], closed |-> FALSE])

move_cycle(i, phase) == rows' = [rows EXCEPT ![i].phase = phase]

mark_cycle_closed(i) == rows' = [rows EXCEPT ![i].closed = TRUE]

\* Mutant: the claim table has no UNIQUE constraint.
InsertedTwice(p, claim) == TRUE

\* The insert is the lock: it fails where a row is.
Inserted(p, claim) == claim = Nobody

\* Mutant: the owner of a claim is taken to live.
claim_is_stale_never(q) == FALSE

claim_is_stale(q) == q # Nobody /\ Gone(q)

\* A release deletes the worktree's row, whoever owns it.
Rob(p, owner) ==
    robbed' = IF owner \notin {p, Nobody} /\ ~Gone(owner) THEN robbed \cup {owner} ELSE robbed

release_claim(p) ==
    /\ baseline_claim' = Nobody
    /\ Rob(p, baseline_claim)
    /\ UNCHANGED advance_claim

release_advance_claim(p) ==
    /\ advance_claim' = Nobody
    /\ Rob(p, advance_claim)
    /\ UNCHANGED baseline_claim

-----------------------------------------------------------------------------
(* What commands share.  A command begins by reading the worktree's run.   *)

At(p, label) == pc[p] = label

Begins(p) ==
    /\ At(p, "idle")
    /\ gone' = [gone EXCEPT ![p] = {q \in Procs : Gone(q)}]
    /\ UNCHANGED ledger

\* A command for which there is no run answers so.
BeginsOn(p, r, label) ==
    /\ Begins(p)
    /\ \/ r = 0 /\ Exit(p)
       \/ r # 0 /\ Read(p, "run", r) /\ Goto(p, label)

\* Read the open cycle of the command's run.
ReadCycle(p, from, to) ==
    /\ At(p, from)
    /\ \/ open_cycle(my[p].run) = {} /\ Exit(p)
       \/ \E i \in open_cycle(my[p].run) :
            /\ my' = [my EXCEPT ![p] = [run |-> @.run, row |-> i, phase |-> rows[i].phase,
                                         held |-> @.held]]
            /\ Goto(p, to)
    /\ UNCHANGED <<ledger, gone>>

\* Read a claim row; without one there is nothing to judge.
Look(p, from, claim, judge, free) ==
    /\ At(p, from)
    /\ Read(p, "held", claim)
    /\ Goto(p, IF claim = Nobody THEN free ELSE judge)
    /\ UNCHANGED <<ledger, gone>>

\* Is the owner that was read still running?
Judge(p, from, stale, live) ==
    /\ At(p, from)
    /\ \/ claim_is_stale(my[p].held) /\ Goto(p, stale) /\ UNCHANGED my
       \/ ~claim_is_stale(my[p].held) /\ live # "done" /\ Goto(p, live) /\ UNCHANGED my
       \/ ~claim_is_stale(my[p].held) /\ live = "done" /\ Exit(p)
    /\ UNCHANGED <<ledger, gone>>

Ordinal(p) == rows[my[p].row].ordinal

\* Mutant: the last declared cycle is never opened.
LastButOne(p) == Ordinal(p) + 1 >= N

Last(p) == Ordinal(p) = N

\* open_cycle(ordinal): an unclosed row of that ordinal is taken as it is.
OpenNext(p, from, ordinal, add, out) ==
    /\ At(p, from)
    /\ \/ unclosed_cycle(my[p].run, ordinal) = {} /\ Goto(p, add) /\ UNCHANGED my
       \/ unclosed_cycle(my[p].run, ordinal) # {} /\ out # "done" /\ Goto(p, out) /\ UNCHANGED my
       \/ unclosed_cycle(my[p].run, ordinal) # {} /\ out = "done" /\ Exit(p)
    /\ UNCHANGED <<ledger, gone>>

AddNext(p, from, ordinal, out) ==
    /\ At(p, from)
    /\ add_cycle(my[p].run, ordinal)
    /\ IF out = "done" THEN Exit(p) ELSE Goto(p, out) /\ UNCHANGED my
    /\ UNCHANGED <<run, claims, gone>>

-----------------------------------------------------------------------------
(* tdd advance.                                                            *)

advance(p) == BeginsOn(p, active_run, "cycle")

Reclaim(p) ==
    /\ At(p, "reclaim")
    /\ release_advance_claim(p)
    /\ Goto(p, "claim")
    /\ UNCHANGED <<run, rows, my, gone>>

\* Refused while another's row is there.
claim_advance(p) ==
    /\ At(p, "claim")
    /\ \/ /\ Inserted(p, advance_claim)
          /\ advance_claim' = p
          /\ Goto(p, "work")
          /\ UNCHANGED my
       \/ /\ ~Inserted(p, advance_claim)
          /\ Exit(p)
          /\ UNCHANGED advance_claim
    /\ UNCHANGED <<run, rows, baseline_claim, robbed, gone>>

\* The handler of the phase that was read: it holds, blocks the run, moves the cycle on,
\* or goes on to close it.  A row left in phase CLOSED has no handler; a touched reference
\* path blocks in every phase.
Handle(p) ==
    /\ At(p, "work")
    /\ \/ Goto(p, "release") /\ UNCHANGED <<run, rows>>
       \/ end_run(my[p].run, "blocked") /\ Goto(p, "release") /\ UNCHANGED rows
       \/ /\ my[p].phase = "WORK"
          /\ move_cycle(my[p].row, "REFACTOR")
          /\ Goto(p, "release")
          /\ UNCHANGED run
       \/ /\ my[p].phase = "REFACTOR"
          /\ Goto(p, "close")
          /\ UNCHANGED <<run, rows>>
    /\ UNCHANGED <<claims, my, gone>>

\* Mutant: the row is closed again whatever it says.
close_cycle_again(p) ==
    /\ At(p, "close")
    /\ Goto(p, "move")
    /\ UNCHANGED <<ledger, my, gone>>

\* close_cycle reads the row again: nothing more to do if it is closed.
close_cycle(p) ==
    /\ At(p, "close")
    /\ Goto(p, IF rows[my[p].row].closed THEN "release" ELSE "move")
    /\ UNCHANGED <<ledger, my, gone>>

MoveToClosed(p) ==
    /\ At(p, "move")
    /\ move_cycle(my[p].row, "CLOSED")
    /\ Goto(p, "mark")
    /\ UNCHANGED <<run, claims, my, gone>>

MarkClosed(p) ==
    /\ At(p, "mark")
    /\ mark_cycle_closed(my[p].row)
    /\ Goto(p, IF Last(p) THEN "end" ELSE "next")
    /\ UNCHANGED <<run, claims, my, gone>>

EndRun(p) ==
    /\ At(p, "end")
    /\ \E outcome \in {"complete", "blocked"} : end_run(my[p].run, outcome)
    /\ Goto(p, "release")
    /\ UNCHANGED <<rows, claims, my, gone>>

\* The finally of cmd_advance.
Release(p) ==
    /\ At(p, "release")
    /\ release_advance_claim(p)
    /\ Exit(p)
    /\ UNCHANGED <<run, rows, gone>>

Advance(p) ==
    \/ advance(p)
    \/ ReadCycle(p, "cycle", "look")
    \/ Look(p, "look", advance_claim, "judge", "claim")
    \/ Judge(p, "judge", "reclaim", "claim")
    \/ Reclaim(p)
    \/ claim_advance(p)
    \/ Handle(p)
    \/ close_cycle(p) \/ MoveToClosed(p) \/ MarkClosed(p) \/ EndRun(p)
    \/ OpenNext(p, "next", Ordinal(p) + 1, "add", "release")
    \/ AddNext(p, "add", Ordinal(p) + 1, "release")
    \/ Release(p)

-----------------------------------------------------------------------------
(* tdd cycle skip.  It takes no claim.                                     *)

skip_cycle(p) ==
    /\ At(p, "skip")
    /\ rows' = [rows EXCEPT ![my[p].row] = [@ EXCEPT !.phase = "SKIPPED", !.closed = TRUE]]
    /\ Goto(p, IF Last(p) THEN "skipend" ELSE "skipnext")
    /\ UNCHANGED <<run, claims, my, gone>>

SkipEnd(p) ==
    /\ At(p, "skipend")
    /\ end_run(my[p].run, "complete")
    /\ Exit(p)
    /\ UNCHANGED <<rows, claims, gone>>

Skip(p) ==
    \/ BeginsOn(p, active_run, "skipcycle")
    \/ ReadCycle(p, "skipcycle", "skip")
    \/ skip_cycle(p)
    \/ SkipEnd(p)
    \/ OpenNext(p, "skipnext", Ordinal(p) + 1, "skipadd", "done")
    \/ AddNext(p, "skipadd", Ordinal(p) + 1, "done")

-----------------------------------------------------------------------------
(* tdd run start.  The claim is held from before the baselines to the end. *)

\* No live run in the worktree, or the start is refused.
run_start(p) ==
    /\ Begins(p)
    /\ IF active_run # 0 THEN Exit(p) ELSE Goto(p, "delivered") /\ UNCHANGED my

delivered_run(p) ==
    /\ At(p, "delivered")
    /\ IF \E r \in RunIds : run[r] = "complete"
       THEN Exit(p)
       ELSE Goto(p, "baselook") /\ UNCHANGED my
    /\ UNCHANGED <<ledger, gone>>

ReclaimBaseline(p) ==
    /\ At(p, "basereclaim")
    /\ release_claim(p)
    /\ Goto(p, "baseclaim")
    /\ UNCHANGED <<run, rows, my, gone>>

ClaimBaseline(p) ==
    /\ At(p, "baseclaim")
    /\ \/ /\ Inserted(p, baseline_claim)
          /\ baseline_claim' = p
          /\ Goto(p, "probe")
          /\ UNCHANGED my
       \/ /\ ~Inserted(p, baseline_claim)
          /\ Exit(p)
          /\ UNCHANGED baseline_claim
    /\ UNCHANGED <<run, rows, advance_claim, robbed, gone>>

\* The baselines are refused, or the run row is inserted.
Probe(p) ==
    /\ At(p, "probe")
    /\ \/ Goto(p, "unclaim") /\ UNCHANGED <<run, my>>
       \/ \E r \in RunIds :
            /\ \A s \in RunIds : run[s] = "none" <=> s >= r
            /\ run' = [run EXCEPT ![r] = "live"]
            /\ Read(p, "run", r)
            /\ Goto(p, "check")
    /\ UNCHANGED <<rows, claims, gone>>

\* A stale artifact ends the run refused.
CheckArtifacts(p) ==
    /\ At(p, "check")
    /\ \/ end_run(my[p].run, "refused") /\ Goto(p, "unclaim")
       \/ Goto(p, "first") /\ UNCHANGED run
    /\ UNCHANGED <<rows, claims, my, gone>>

\* The finally of cmd_run_start.
Unclaim(p) ==
    /\ At(p, "unclaim")
    /\ release_claim(p)
    /\ Exit(p)
    /\ UNCHANGED <<run, rows, gone>>

Start(p) ==
    \/ run_start(p) \/ delivered_run(p)
    \/ Look(p, "baselook", baseline_claim, "basejudge", "baseclaim")
    \/ Judge(p, "basejudge", "basereclaim", "baseclaim")
    \/ ReclaimBaseline(p) \/ ClaimBaseline(p)
    \/ Probe(p) \/ CheckArtifacts(p)
    \/ OpenNext(p, "first", 1, "addfirst", "unclaim")
    \/ AddNext(p, "addfirst", 1, "unclaim")
    \/ Unclaim(p)

-----------------------------------------------------------------------------
(* tdd run abandon, blocker, resume --unblock: two queries at the start of *)
(* a command are one step.                                                 *)

abandon_run(p) ==
    /\ At(p, "abandon")
    /\ end_run(my[p].run, "abandoned")
    /\ Goto(p, "free")
    /\ UNCHANGED <<rows, claims, my, gone>>

Free(p) ==
    /\ At(p, "free")
    /\ release_claim(p)
    /\ Goto(p, "freeadvance")
    /\ UNCHANGED <<run, rows, my, gone>>

FreeAdvance(p) ==
    /\ At(p, "freeadvance")
    /\ release_advance_claim(p)
    /\ Exit(p)
    /\ UNCHANGED <<run, rows, gone>>

\* A live or blocked run, unless an advance of the worktree is running.
Abandon(p) ==
    \/ BeginsOn(p, IF active_run # 0 THEN active_run ELSE latest_blocked_run, "inflight")
    \/ Look(p, "inflight", advance_claim, "judgeflight", "abandon")
    \/ Judge(p, "judgeflight", "abandon", "done")
    \/ abandon_run(p) \/ Free(p) \/ FreeAdvance(p)

blocker(p) ==
    /\ At(p, "block")
    /\ end_run(my[p].run, "blocked")
    /\ Exit(p)
    /\ UNCHANGED <<rows, claims, gone>>

reopen_run(p) ==
    /\ At(p, "reopen")
    /\ end_run(my[p].run, "live")
    /\ Exit(p)
    /\ UNCHANGED <<rows, claims, gone>>

Supervise(p) ==
    \/ BeginsOn(p, active_run, "block")
    \/ blocker(p)
    \/ BeginsOn(p, IF active_run # 0 THEN 0 ELSE latest_blocked_run, "reopen")
    \/ reopen_run(p)

-----------------------------------------------------------------------------
\* A process killed between two statements; its claims stay.
Crash(p) ==
    /\ pc[p] \notin {"idle", "done", "dead"}
    /\ Goto(p, "dead")
    /\ my' = [my EXCEPT ![p] = Fresh]
    /\ UNCHANGED <<ledger, gone>>

Step(p) == Advance(p) \/ Skip(p) \/ Start(p) \/ Abandon(p) \/ Supervise(p) \/ Crash(p)

\* Every process has run its command.
Rest ==
    /\ \A p \in Procs : Gone(p)
    /\ UNCHANGED vars

Init ==
    /\ \E l \in Ledgers : run = l.run /\ rows = l.rows
    /\ advance_claim = Nobody
    /\ baseline_claim = Nobody
    /\ pc = [p \in Procs |-> "idle"]
    /\ my = [p \in Procs |-> Fresh]
    /\ robbed = {}
    /\ crossed = FALSE
    /\ gone = [p \in Procs |-> {}]

Writing(p) == pc[p] \in WritingRows

Crossing == \E p, q \in Procs : p # q /\ Writing(p) /\ Writing(q)

Next ==
    \/ \E p \in Procs : Step(p) /\ crossed' = (crossed \/ Crossing')
    \/ Rest

Spec == Init /\ [][Next]_vars

-----------------------------------------------------------------------------
Locals == [run : RunIds \cup {0}, row : Nat, phase : Phases, held : Procs \cup {Nobody}]

TypeOK ==
    /\ run \in [RunIds -> Outcomes]
    /\ rows \in Seq(CycleRow)
    /\ advance_claim \in Procs \cup {Nobody}
    /\ baseline_claim \in Procs \cup {Nobody}
    /\ pc \in [Procs -> Labels]
    /\ my \in [Procs -> Locals]
    /\ robbed \in SUBSET Procs
    /\ crossed \in BOOLEAN
    /\ gone \in [Procs -> SUBSET Procs]

\* The claims are the only lock on advance and on run start: two processes are past one
\* only if another command deleted the claim of one of them while it ran.
ClaimExcludes ==
    \A p, q \in Procs :
        p # q /\ {p, q} \cap robbed = {} =>
            /\ ~(pc[p] \in AdvanceSection /\ pc[q] \in AdvanceSection)
            /\ ~(pc[p] \in BaselineSection /\ pc[q] \in BaselineSection)

\* A claim whose owner had ended when a command began never refuses that command: no
\* dead process keeps a worktree.
RefusedByTheLiving ==
    [][\A p \in Procs :
          /\ pc[p] = "claim" /\ pc'[p] = "done" => advance_claim \notin gone[p]
          /\ pc[p] = "baseclaim" /\ pc'[p] = "done" => baseline_claim \notin gone[p]]_vars

\* While no two writers of cycle rows are at work at once, no run has two open rows: not
\* when an advance acts on a row it read before another closed it, nor after a crash.
ApartOneOpenRow ==
    ~crossed => \A r \in RunIds : Cardinality(OpenRows(r)) <= 1

\* The ledger of a complete run shows every declared cycle, and none of them open.
CompleteLeavesNothingOpen ==
    ~crossed => \A r \in RunIds : run[r] = "complete" =>
        /\ OpenRows(r) = {}
        /\ \A o \in 1..N : \E i \in DOMAIN rows : rows[i].run = r /\ rows[i].ordinal = o

-----------------------------------------------------------------------------
(* What the documentation says and the code does not do.                   *)

\* "advance is single-flight per worktree."
SingleFlight ==
    \A p, q \in Procs : p # q => ~(pc[p] \in AdvanceSection /\ pc[q] \in AdvanceSection)

\* "A run has at most one open cycle row at any time."
OneOpenRow == \A r \in RunIds : Cardinality(OpenRows(r)) <= 1

\* "A run survives agent death and resumes without loss": with no command at work, a live
\* run has an open cycle or has ended them all.
SurvivesDeath ==
    (\A p \in Procs : pc[p] \in {"idle", "done", "dead"}) =>
        \A r \in LiveRuns :
            \/ OpenRows(r) # {}
            \/ \A o \in 1..N : \E i \in DOMAIN rows : rows[i].run = r /\ rows[i].ordinal = o

\* Of two concurrent starts one wins: "assert oks.count(True) == 1".
OneStartWins == (\A p \in Procs : pc[p] # "dead") => Cardinality(LiveRuns) <= 1
=============================================================================
