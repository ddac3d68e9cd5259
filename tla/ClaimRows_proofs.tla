-------------------------- MODULE ClaimRows_proofs --------------------------
(***************************************************************************)
(* Theorems about the run and cycle rows of Claims, for any number of      *)
(* processes and cycles, from any coherent ledger.  What a step does to    *)
(* the claims is Claims_proofs; here is what it does to the rows.  While   *)
(* writers of cycle rows stay apart, whoever is about to close a row has   *)
(* an open one in hand, and whoever is about to open the next one has left *)
(* none open.                                                              *)
(***************************************************************************)
EXTENDS Claims_proofs, FiniteSetTheorems, WellFoundedInduction

\* Where a process has a cycle row in hand, and where one has a run without rows.
Holding == WritingRows \cup {"look", "judge", "reclaim", "claim"}
Starting == {"check", "first", "addfirst"}

\* Where the row in hand is open, and where its run has no open row.
Closing == {"move", "mark", "skip"}
Opens == {"next", "add", "skipnext", "skipadd"}
Ends == {"end", "skipend"}

Local(p) ==
    /\ pc[p] \in Holding =>
          my[p].row \in DOMAIN rows /\ rows[my[p].row].run = my[p].run
    /\ pc[p] \in Opens => rows[my[p].row].ordinal < N
    /\ pc[p] \in Ends => rows[my[p].row].ordinal = N
    /\ pc[p] \in Starting =>
          /\ my[p].run \in RunIds
          /\ run[my[p].run] \notin {"none", "complete"}
          /\ \A i \in DOMAIN rows : rows[i].run # my[p].run
    /\ ~crossed =>
          /\ pc[p] \in Closing => ~rows[my[p].row].closed
          /\ pc[p] \in Opens \cup Ends =>
                \A i \in DOMAIN rows : rows[i].run = my[p].run => rows[i].closed
          /\ pc[p] \in Closing \cup Opens => run[my[p].run] # "complete"

Shared ==
    /\ \A i \in DOMAIN rows :
          /\ run[rows[i].run] # "none"
          /\ \A o \in 1..rows[i].ordinal :
                \E j \in DOMAIN rows : rows[j].run = rows[i].run /\ rows[j].ordinal = o
    /\ \A p, q \in Procs :
          p # q /\ pc[p] \in Starting /\ pc[q] \in Starting => my[p].run # my[q].run
    /\ Crossing => crossed
    /\ ~crossed => Coherent([run |-> run, rows |-> rows])

RowsInv == TypeOK /\ Shared /\ \A p \in Procs : Local(p)

-----------------------------------------------------------------------------
(* Sequences and numbers.                                                  *)

\* Of the first ids, some are the newest.
LEMMA NewestIsOne ==
    ASSUME NEW S \in SUBSET RunIds, S # {}
    PROVE  Newest(S) \in S
  <1> DEFINE n == Cardinality(RunIds)
             T == {n - x : x \in S}
  <1>1. n \in Nat /\ \A x \in S : x \in Nat /\ x <= n
    BY RunsAssumption, FS_CardinalityType
  <1>2. T \in SUBSET Nat /\ T # {}
    BY <1>1
  <1>3. PICK t \in T : \A u \in T : ~(<<u, t>> \in OpToRel(<, Nat))
    BY <1>2, NatLessThanWellFounded, WFMin
  <1>4. \A u \in T : ~(u < t)
    BY <1>2, <1>3 DEF OpToRel
  <1>5. PICK x \in S : t = n - x
    OBVIOUS
  <1>6. ASSUME NEW y \in S PROVE y <= x
    <2>1. n - y \in T
      OBVIOUS
    <2>2. ~(n - y < n - x)
      BY <1>4, <1>5, <2>1
    <2>3. x \in Nat /\ y \in Nat /\ n \in Nat
      BY <1>1
    <2> HIDE DEF n
    <2> QED
      BY <2>2, <2>3
  <1> QED
    BY <1>6 DEF Newest

LEMMA RowsDomain ==
    ASSUME TypeOK
    PROVE  Len(rows) \in Nat /\ DOMAIN rows = 1..Len(rows) /\ \A i \in DOMAIN rows : rows[i] \in CycleRow
  BY DEF TypeOK

\* Writing one row.
LEMMA PutRow ==
    ASSUME TypeOK, NEW i \in DOMAIN rows, NEW x \in CycleRow, rows' = [rows EXCEPT ![i] = x]
    PROVE  /\ rows' \in Seq(CycleRow)
           /\ DOMAIN rows' = DOMAIN rows
           /\ rows'[i] = x
           /\ \A j \in DOMAIN rows : j # i => rows'[j] = rows[j]
  BY DEF TypeOK

\* Adding one row.
LEMMA AddRow ==
    ASSUME TypeOK, NEW x \in CycleRow, rows' = Append(rows, x)
    PROVE  /\ rows' \in Seq(CycleRow)
           /\ \E n : /\ n \notin DOMAIN rows
                     /\ DOMAIN rows' = DOMAIN rows \cup {n}
                     /\ rows'[n] = x
           /\ \A j \in DOMAIN rows : rows'[j] = rows[j]
  BY DEF TypeOK

-----------------------------------------------------------------------------
(* What a step of p does to the rows.                                      *)

\* Rows keep their run and ordinal, stay closed, and are closed by a writer; a new one
\* follows p's, or is the first of its run; a run is made complete where p has left no
\* row open.
RowEffect(p) ==
    /\ \A j \in DOMAIN rows :
          /\ j \in DOMAIN rows'
          /\ rows'[j].run = rows[j].run
          /\ rows'[j].ordinal = rows[j].ordinal
          /\ rows[j].closed => rows'[j].closed
          /\ pc[p] \notin WritingRows /\ rows'[j].closed => rows[j].closed
    /\ \A j \in DOMAIN rows' \ DOMAIN rows :
          /\ pc[p] \in {"add", "skipadd", "addfirst"}
          /\ rows'[j].run = my[p].run
          /\ rows'[j].ordinal = IF pc[p] = "addfirst" THEN 1 ELSE Ordinal(p) + 1
          /\ \A k \in DOMAIN rows' \ DOMAIN rows : k = j
          /\ run' = run
    /\ \A r \in RunIds :
          /\ run'[r] = "none" => run[r] = "none"
          /\ run'[r] = "complete" => run[r] = "complete" \/ (r = my[p].run /\ pc[p] \in Ends)
    /\ pc'[p] \in Starting =>
          \/ pc[p] \in Starting /\ my'[p].run = my[p].run
          \/ run[my'[p].run] = "none"

Typed(p) ==
    /\ run' \in [RunIds -> Outcomes]
    /\ rows' \in Seq(CycleRow)
    /\ my'[p] \in Locals

\* What a lemma about an action of p shows.
Acts(p) == Typed(p) /\ RowEffect(p) /\ Local(p)'

\* The row of another process keeps its place.
LEMMA OtherLocal ==
    ASSUME RowsInv, NEW p \in Procs, OthersStay(p), RowEffect(p), run' \in [RunIds -> Outcomes],
           crossed' = (crossed \/ Crossing'), NEW q \in Procs \ {p}
    PROVE  Local(q)'
  <1>1. pc'[q] = pc[q] /\ my'[q] = my[q] /\ Local(q) /\ Local(p)
    BY DEF OthersStay, RowsInv
  <1>2. \A j \in DOMAIN rows : rows[j] \in CycleRow
    BY RowsDomain DEF RowsInv
  <1>3. pc'[q] \in Holding =>
          my'[q].row \in DOMAIN rows' /\ rows'[my'[q].row].run = my'[q].run
    BY <1>1 DEF Local, RowEffect
  <1>4. /\ pc'[q] \in Opens => rows'[my'[q].row].ordinal < N
        /\ pc'[q] \in Ends => rows'[my'[q].row].ordinal = N
    BY <1>1 DEF Local, RowEffect, Opens, Ends, Holding, WritingRows, AdvanceSection, SkipSection
  <1>5. pc'[q] \in Starting =>
          /\ my'[q].run \in RunIds
          /\ run'[my'[q].run] \notin {"none", "complete"}
          /\ \A i \in DOMAIN rows' : rows'[i].run # my'[q].run
    <2> SUFFICES ASSUME pc[q] \in Starting
                 PROVE  /\ my[q].run \in RunIds
                        /\ run'[my[q].run] \notin {"none", "complete"}
                        /\ \A i \in DOMAIN rows' : rows'[i].run # my[q].run
      BY <1>1
    <2>1. /\ my[q].run \in RunIds
          /\ run[my[q].run] \notin {"none", "complete"}
          /\ \A i \in DOMAIN rows : rows[i].run # my[q].run
      BY <1>1 DEF Local
    <2>2. pc[p] \in Holding => my[p].run # my[q].run
      BY <1>1, <2>1 DEF Local
    <2>3. pc[p] \in Starting => my[p].run # my[q].run
      BY DEF RowsInv, Shared
    <2>4. pc[p] \in Ends \cup {"add", "skipadd", "addfirst"} => pc[p] \in Holding \cup Starting
      BY DEF Ends, Holding, Starting, WritingRows, AdvanceSection, SkipSection
    <2>5. run'[my[q].run] \notin {"none", "complete"}
      BY <2>1, <2>2, <2>3, <2>4 DEF RowEffect
    <2>6. \A i \in DOMAIN rows' : rows'[i].run # my[q].run
      BY <2>1, <2>2, <2>3, <2>4 DEF RowEffect
    <2> QED
      BY <2>1, <2>5, <2>6
  <1>6. ASSUME ~crossed', pc[q] \in Closing \cup Opens \cup Ends
        PROVE  /\ pc'[q] \in Closing => ~rows'[my'[q].row].closed
               /\ pc'[q] \in Opens \cup Ends =>
                     \A i \in DOMAIN rows' : rows'[i].run = my'[q].run => rows'[i].closed
               /\ pc'[q] \in Closing \cup Opens => run'[my'[q].run] # "complete"
    <2>1. pc[q] \in WritingRows /\ pc[q] \in Holding
      BY <1>6 DEF Closing, Opens, Ends, Holding, WritingRows, AdvanceSection, SkipSection
    <2>2. ~crossed /\ pc[p] \notin WritingRows
      BY <1>6, <2>1 DEF RowsInv, Shared, Crossing, Writing
    <2>3. my[q].row \in DOMAIN rows /\ rows[my[q].row].run = my[q].run
      BY <1>1, <2>1 DEF Local
    <2>4. my[q].run \in RunIds
      BY <1>2, <2>3 DEF CycleRow
    <2>5. pc[p] \notin Ends /\ pc[p] \notin {"add", "skipadd"}
      BY <2>2 DEF Ends, WritingRows, AdvanceSection, SkipSection
    <2>6. pc[p] = "addfirst" => my[p].run # my[q].run
      BY <1>1, <2>3 DEF Local, Starting
    <2>7. pc[q] \in Closing => ~rows'[my[q].row].closed
      BY <1>1, <2>2, <2>3 DEF Local, RowEffect
    <2>8. pc[q] \in Opens \cup Ends =>
             \A i \in DOMAIN rows' : rows'[i].run = my[q].run => rows'[i].closed
      BY <1>1, <2>2, <2>5, <2>6 DEF Local, RowEffect
    <2>9. pc[q] \in Closing \cup Opens => run'[my[q].run] # "complete"
      BY <1>1, <2>2, <2>4, <2>5 DEF Local, RowEffect
    <2> QED
      BY <1>1, <2>7, <2>8, <2>9
  <1> QED
    BY <1>1, <1>3, <1>4, <1>5, <1>6 DEF Local

\* What the ledger shows together stays so.
LEMMA SharedStep ==
    ASSUME RowsInv, NEW p \in Procs, OthersStay(p), Typed(p), RowEffect(p),
           crossed' = (crossed \/ Crossing')
    PROVE  Shared'
  <1>1. /\ \A j \in DOMAIN rows : rows[j] \in CycleRow
        /\ \A j \in DOMAIN rows' : rows'[j] \in CycleRow
    BY DEF RowsInv, TypeOK, Typed
  <1>2. \A j \in DOMAIN rows' \ DOMAIN rows :
           pc[p] # "addfirst" => /\ my[p].row \in DOMAIN rows
                                 /\ rows[my[p].row].run = my[p].run
                                 /\ Ordinal(p) \in 1..N
    BY <1>1 DEF RowsInv, Local, RowEffect, Holding, WritingRows, AdvanceSection, SkipSection,
       CycleRow, Ordinal
  <1>3. ASSUME NEW i \in DOMAIN rows' PROVE run'[rows'[i].run] # "none"
    <2>1. CASE i \in DOMAIN rows
      BY <2>1, <1>1 DEF RowsInv, Shared, RowEffect, CycleRow
    <2>2. CASE i \notin DOMAIN rows
      BY <2>2, <1>2 DEF RowsInv, Shared, RowEffect, Local, Starting
    <2> QED
      BY <2>1, <2>2
  <1>4. ASSUME NEW i \in DOMAIN rows', NEW o \in 1..rows'[i].ordinal
        PROVE  \E j \in DOMAIN rows' : rows'[j].run = rows'[i].run /\ rows'[j].ordinal = o
    <2>1. CASE i \in DOMAIN rows
      <3>1. PICK j \in DOMAIN rows : rows[j].run = rows[i].run /\ rows[j].ordinal = o
        BY <2>1 DEF RowsInv, Shared, RowEffect
      <3> QED
        BY <2>1, <3>1 DEF RowEffect
    <2>2. CASE i \notin DOMAIN rows /\ pc[p] = "addfirst"
      BY <2>2 DEF RowEffect
    <2>3. CASE i \notin DOMAIN rows /\ pc[p] # "addfirst" /\ o = rows'[i].ordinal
      BY <2>3
    <2>4. CASE i \notin DOMAIN rows /\ pc[p] # "addfirst" /\ o # rows'[i].ordinal
      <3>1. rows'[i].run = my[p].run /\ rows'[i].ordinal = Ordinal(p) + 1
        BY <2>4 DEF RowEffect
      <3>2. o \in 1..rows[my[p].row].ordinal
        BY <1>2, <2>4, <3>1 DEF Ordinal
      <3>3. PICK j \in DOMAIN rows : rows[j].run = my[p].run /\ rows[j].ordinal = o
        BY <1>2, <2>4, <3>2 DEF RowsInv, Shared
      <3> QED
        BY <3>1, <3>3 DEF RowEffect
    <2> QED
      BY <2>1, <2>2, <2>3, <2>4
  <1>5. ASSUME NEW q \in Procs, NEW r \in Procs, q # r,
               pc'[q] \in Starting, pc'[r] \in Starting
        PROVE  my'[q].run # my'[r].run
    <2>1. \A s \in Procs \ {p} : pc'[s] \in Starting =>
             my'[s].run = my[s].run /\ pc[s] \in Starting /\ run[my[s].run] # "none"
      BY DEF OthersStay, RowsInv, Local
    <2> QED
      BY <1>5, <2>1 DEF RowsInv, Shared, RowEffect
  <1>6. ASSUME ~crossed' PROVE Coherent([run |-> run', rows |-> rows'])
    <2>1. ~crossed /\ Coherent([run |-> run, rows |-> rows])
      BY <1>6 DEF RowsInv, Shared
    <2>2. /\ pc[p] \in {"add", "skipadd"} => pc[p] \in Opens
          /\ pc[p] = "addfirst" => pc[p] \in Starting
      BY DEF Opens, Starting
    <2>3. \A n \in DOMAIN rows' \ DOMAIN rows :
             /\ run' = run /\ rows'[n].run = my[p].run /\ run[my[p].run] # "complete"
             /\ \A i \in DOMAIN rows : rows[i].run = my[p].run => rows[i].closed
             /\ \A k \in DOMAIN rows' \ DOMAIN rows : k = n
      BY <2>1, <2>2 DEF RowEffect, RowsInv, Local
    <2>4. ASSUME NEW i \in DOMAIN rows', NEW j \in DOMAIN rows', rows'[i].run = rows'[j].run,
                 ~rows'[i].closed, ~rows'[j].closed
          PROVE  i = j
      <3>1. CASE i \in DOMAIN rows /\ j \in DOMAIN rows
        BY <2>1, <2>4, <3>1 DEF Coherent, RowEffect
      <3>2. CASE i \notin DOMAIN rows \/ j \notin DOMAIN rows
        BY <2>3, <2>4, <3>2 DEF RowEffect
      <3> QED
        BY <3>1, <3>2
    <2>5. ASSUME NEW r \in RunIds, run'[r] = "complete"
          PROVE  /\ \A i \in DOMAIN rows' : rows'[i].run = r => rows'[i].closed
                 /\ \E i \in DOMAIN rows' : rows'[i].run = r /\ rows'[i].ordinal = N
      <3>1. CASE run[r] = "complete"
        <4>1. /\ \A i \in DOMAIN rows : rows[i].run = r => rows[i].closed
              /\ \E i \in DOMAIN rows : rows[i].run = r /\ rows[i].ordinal = N
          BY <2>1, <3>1 DEF Coherent
        <4> QED
          BY <2>3, <3>1, <4>1 DEF RowEffect
      <3>2. CASE run[r] # "complete"
        <4>1. r = my[p].run /\ pc[p] \in Ends /\ pc[p] \in Holding
          BY <2>5, <3>2 DEF RowEffect, Ends, Holding, WritingRows, AdvanceSection, SkipSection
        <4>2. /\ my[p].row \in DOMAIN rows
              /\ rows[my[p].row].run = r
              /\ rows[my[p].row].ordinal = N
              /\ \A i \in DOMAIN rows : rows[i].run = r => rows[i].closed
          BY <2>1, <4>1 DEF RowsInv, Local
        <4>3. DOMAIN rows' = DOMAIN rows
          BY <2>3, <2>5, <3>2 DEF RowEffect
        <4> QED
          BY <4>2, <4>3 DEF RowEffect
      <3> QED
        BY <3>1, <3>2
    <2>6. \A i \in DOMAIN rows' :
             /\ run'[rows'[i].run] # "none"
             /\ \A o \in 1..rows'[i].ordinal :
                   \E j \in DOMAIN rows' : rows'[j].run = rows'[i].run /\ rows'[j].ordinal = o
      BY <1>3, <1>4
    <2> QED
      BY <2>4, <2>5, <2>6 DEF Coherent
  <1>7. Crossing' => crossed'
    OBVIOUS
  <1> QED
    BY <1>3, <1>4, <1>5, <1>6, <1>7 DEF Shared

-----------------------------------------------------------------------------
(* The actions.                                                            *)

\* A step that leaves the rows and takes p where it has none in hand.
LEMMA PlainActs ==
    ASSUME RowsInv, NEW p \in Procs, rows' = rows, run' \in [RunIds -> Outcomes],
           \A r \in RunIds : run'[r] \in {"none", "complete"} => run'[r] = run[r],
           pc'[p] \notin Holding \cup Starting, my'[p] \in Locals
    PROVE  Acts(p)
  <1>1. Typed(p) /\ RowEffect(p)
    BY DEF RowsInv, TypeOK, Typed, RowEffect
  <1>2. Local(p)'
    BY DEF Local, Holding, Closing, Opens, Ends, WritingRows, AdvanceSection, SkipSection
  <1> QED
    BY <1>1, <1>2 DEF Acts

\* A step that leaves the rows and keeps the one p has in hand, before anything is known
\* of it.
LEMMA HeldActs ==
    ASSUME RowsInv, NEW p \in Procs, rows' = rows, run' = run, pc[p] \in Holding,
           pc'[p] \in {"judge", "reclaim", "claim", "work", "close"}, my'[p] \in Locals,
           my'[p].row = my[p].row, my'[p].run = my[p].run
    PROVE  Acts(p)
  <1>1. Typed(p) /\ RowEffect(p)
    BY DEF RowsInv, TypeOK, Typed, RowEffect, Starting
  <1>2. Local(p)'
    BY DEF RowsInv, Local, Holding, Closing, Opens, Ends, Starting
  <1> QED
    BY <1>1, <1>2 DEF Acts

\* What a process has read.
LEMMA LocalsKept ==
    ASSUME RowsInv, NEW p \in Procs
    PROVE  /\ my[p] \in Locals
           /\ Exit(p) => my'[p] = Fresh /\ pc'[p] = "done"
           /\ Fresh \in Locals
           /\ \A v \in Procs \cup {Nobody} : Read(p, "held", v) =>
                my'[p] \in Locals /\ my'[p].row = my[p].row /\ my'[p].run = my[p].run
           /\ \A r \in RunIds : Read(p, "run", r) => my'[p] \in Locals /\ my'[p].run = r
           /\ \A l \in Labels : Goto(p, l) => pc'[p] = l
  <1>1. my[p] \in Locals /\ p \in DOMAIN my /\ p \in DOMAIN pc
    BY DEF RowsInv, TypeOK
  <1>2. Fresh \in Locals
    BY DEF Fresh, Locals, Phases
  <1>3. Exit(p) => my'[p] = Fresh /\ pc'[p] = "done"
    BY <1>1 DEF Exit, Goto
  <1>4. ASSUME NEW v \in Procs \cup {Nobody}, Read(p, "held", v)
        PROVE  my'[p] \in Locals /\ my'[p].row = my[p].row /\ my'[p].run = my[p].run
    BY <1>1, <1>4 DEF Read, Locals
  <1>5. ASSUME NEW r \in RunIds, Read(p, "run", r)
        PROVE  my'[p] \in Locals /\ my'[p].run = r
    BY <1>1, <1>5 DEF Read, Locals
  <1>6. \A l \in Labels : Goto(p, l) => pc'[p] = l
    BY <1>1 DEF Goto
  <1> QED
    BY <1>1, <1>2, <1>3, <1>4, <1>5, <1>6

\* The end of a command.
LEMMA ExitActs ==
    ASSUME RowsInv, NEW p \in Procs, Exit(p), rows' = rows, run' = run
    PROVE  Acts(p)
  <1>1. pc'[p] \notin Holding \cup Starting /\ my'[p] \in Locals
    BY LocalsKept DEF Holding, Starting, WritingRows, AdvanceSection, SkipSection
  <1>2. run' \in [RunIds -> Outcomes]
    BY DEF RowsInv, TypeOK
  <1> QED
    BY <1>1, <1>2, PlainActs

\* Writing a run's outcome, not a complete one.
LEMMA OutcomeTyped ==
    ASSUME RowsInv, NEW r, NEW o \in Outcomes \ {"none", "complete"}, end_run(r, o)
    PROVE  /\ run' \in [RunIds -> Outcomes]
           /\ \A s \in RunIds : run'[s] \in {"none", "complete"} => run'[s] = run[s]
  BY DEF RowsInv, TypeOK, end_run

\* A command begins on the newest run of its kind.
LEMMA BeginActs ==
    ASSUME RowsInv, NEW p \in Procs, NEW r \in RunIds \cup {0}, NEW l \in Openings,
           BeginsOn(p, r, l)
    PROVE  Acts(p)
  <1>1. rows' = rows /\ run' = run
    BY DEF BeginsOn, Begins, ledger
  <1>2. CASE Exit(p)
    BY <1>1, <1>2, ExitActs
  <1>3. CASE r # 0 /\ Read(p, "run", r) /\ Goto(p, l)
    <2>1. l \in Labels /\ l \notin Holding \cup Starting
      BY DEF Openings, Labels, Holding, Starting, WritingRows, AdvanceSection, SkipSection
    <2>2. my'[p] \in Locals /\ pc'[p] = l
      BY <1>3, <2>1, LocalsKept
    <2>3. run' \in [RunIds -> Outcomes]
      BY <1>1 DEF RowsInv, TypeOK
    <2> QED
      BY <1>1, <2>1, <2>2, <2>3, PlainActs
  <1> QED
    BY <1>2, <1>3 DEF BeginsOn

LEMMA RunsTyped ==
    active_run \in RunIds \cup {0} /\ latest_blocked_run \in RunIds \cup {0}
  BY NewestIsOne DEF active_run, latest_blocked_run, LiveRuns, BlockedRuns

\* A cycle is read: its row is open, and of p's run.
LEMMA ReadCycleActs ==
    ASSUME RowsInv, NEW p \in Procs,
           ReadCycle(p, "cycle", "look") \/ ReadCycle(p, "skipcycle", "skip"),
           crossed' = (crossed \/ Crossing')
    PROVE  Acts(p)
  <1>1. rows' = rows /\ run' = run
    BY DEF ReadCycle, ledger
  <1>2. CASE Exit(p)
    BY <1>1, <1>2, ExitActs
  <1>3. ASSUME NEW i \in open_cycle(my[p].run), NEW l \in {"look", "skip"}, Goto(p, l),
               my' = [my EXCEPT ![p] = [run |-> @.run, row |-> i, phase |-> rows[i].phase,
                                         held |-> @.held]]
        PROVE  Acts(p)
    <2>1. i \in DOMAIN rows /\ rows[i].run = my[p].run /\ ~rows[i].closed
      BY DEF open_cycle, OpenRows
    <2>2. my[p] \in Locals /\ rows[i] \in CycleRow /\ i \in Nat
      BY <2>1, RowsDomain DEF RowsInv, TypeOK
    <2>3. l \in Labels
      BY DEF Labels, SkipSection
    <2>4. pc'[p] = l
      BY <1>3, <2>3, LocalsKept
    <2>5. my'[p] = [run |-> my[p].run, row |-> i, phase |-> rows[i].phase, held |-> my[p].held]
      BY <1>3 DEF RowsInv, TypeOK
    <2>6. Typed(p)
      BY <1>1, <2>2, <2>5 DEF RowsInv, TypeOK, Typed, Locals, CycleRow
    <2>7. RowEffect(p)
      BY <1>1, <2>4 DEF RowEffect, Starting
    <2>8. ~crossed' => run[my[p].run] # "complete"
      <3>1. my[p].run \in RunIds
        BY <2>1, <2>2 DEF CycleRow
      <3>2. ~crossed' => ~crossed
        OBVIOUS
      <3>3. ~crossed => Coherent([run |-> run, rows |-> rows])
        BY DEF RowsInv, Shared
      <3>4. Coherent([run |-> run, rows |-> rows]) /\ run[my[p].run] = "complete" => rows[i].closed
        BY <2>1, <3>1 DEF Coherent
      <3> QED
        BY <2>1, <3>2, <3>3, <3>4
    <2>9. Local(p)'
      BY <1>1, <2>1, <2>4, <2>5, <2>8 DEF Local, Opens, Ends, Starting, Closing
    <2> QED
      BY <2>6, <2>7, <2>9 DEF Acts
  <1>4. CASE ReadCycle(p, "cycle", "look")
    BY <1>2, <1>3, <1>4 DEF ReadCycle
  <1>5. CASE ReadCycle(p, "skipcycle", "skip")
    BY <1>2, <1>3, <1>5 DEF ReadCycle
  <1> QED
    BY <1>4, <1>5

\* A claim is looked at, and its owner judged.
LEMMA LookActs ==
    ASSUME RowsInv, NEW p \in Procs,
           \/ Look(p, "look", advance_claim, "judge", "claim")
           \/ Look(p, "baselook", baseline_claim, "basejudge", "baseclaim")
           \/ Look(p, "inflight", advance_claim, "judgeflight", "abandon")
           \/ Judge(p, "judge", "reclaim", "claim")
           \/ Judge(p, "basejudge", "basereclaim", "baseclaim")
           \/ Judge(p, "judgeflight", "abandon", "done")
    PROVE  Acts(p)
  <1> DEFINE Advancing == {"judge", "claim", "reclaim"}
             Elsewhere == {"basejudge", "baseclaim", "basereclaim", "judgeflight", "abandon"}
  <1>1. rows' = rows /\ run' = run
    BY DEF Look, Judge, ledger
  <1>2. run' \in [RunIds -> Outcomes]
    BY <1>1 DEF RowsInv, TypeOK
  <1>3. CASE Exit(p)
    BY <1>1, <1>3, ExitActs
  <1>4. ASSUME pc[p] \in {"look", "judge"}, NEW l \in Advancing, Goto(p, l), my'[p] \in Locals,
               my'[p].row = my[p].row, my'[p].run = my[p].run
        PROVE  Acts(p)
    <2>1. pc'[p] = l
      BY <1>4, LocalsKept DEF Labels
    <2> QED
      BY <1>1, <1>4, <2>1, HeldActs DEF Holding
  <1>5. ASSUME NEW l \in Elsewhere, Goto(p, l), my'[p] \in Locals
        PROVE  Acts(p)
    <2>1. pc'[p] = l
      BY <1>5, LocalsKept DEF Labels
    <2>2. l \notin Holding \cup Starting
      BY DEF Holding, Starting, WritingRows, AdvanceSection, SkipSection
    <2> QED
      BY <1>1, <1>2, <1>5, <2>1, <2>2, PlainActs
  <1>6. my[p] \in Locals
    BY LocalsKept
  <1>7. advance_claim \in Procs \cup {Nobody} /\ baseline_claim \in Procs \cup {Nobody}
    BY DEF RowsInv, TypeOK
  <1>8. CASE Look(p, "look", advance_claim, "judge", "claim")
    <2>1. pc[p] \in {"look", "judge"} /\ (Goto(p, "judge") \/ Goto(p, "claim"))
      BY <1>8 DEF Look, At
    <2>2. my'[p] \in Locals /\ my'[p].row = my[p].row /\ my'[p].run = my[p].run
      BY <1>7, <1>8, LocalsKept DEF Look
    <2> QED
      BY <2>1, <2>2, <1>4
  <1>9. CASE \/ Look(p, "baselook", baseline_claim, "basejudge", "baseclaim")
             \/ Look(p, "inflight", advance_claim, "judgeflight", "abandon")
    <2>1. \E l \in Elsewhere : Goto(p, l)
      BY <1>9 DEF Look
    <2>2. my'[p] \in Locals
      BY <1>7, <1>9, LocalsKept DEF Look
    <2> QED
      BY <2>1, <2>2, <1>5
  <1>10. CASE Judge(p, "judge", "reclaim", "claim")
    <2>1. /\ pc[p] \in {"look", "judge"} /\ (Goto(p, "reclaim") \/ Goto(p, "claim"))
          /\ my' = my
      BY <1>10 DEF Judge, At
    <2> QED
      BY <2>1, <1>4, <1>6
  <1>11. CASE \/ Judge(p, "basejudge", "basereclaim", "baseclaim")
              \/ Judge(p, "judgeflight", "abandon", "done")
    <2>1. Exit(p) \/ (my' = my /\ \E l \in Elsewhere : Goto(p, l))
      BY <1>11 DEF Judge
    <2> QED
      BY <2>1, <1>3, <1>5, <1>6
  <1> QED
    BY <1>8, <1>9, <1>10, <1>11

\* Releases, inserts of claims, queries and outcomes that are not complete.
LEMMA AsideActs ==
    ASSUME RowsInv, NEW p \in Procs,
           \/ Release(p) \/ run_start(p) \/ delivered_run(p)
           \/ ReclaimBaseline(p) \/ ClaimBaseline(p) \/ Unclaim(p)
           \/ abandon_run(p) \/ Free(p) \/ FreeAdvance(p)
           \/ blocker(p) \/ reopen_run(p) \/ Crash(p)
    PROVE  Acts(p)
  <1> DEFINE Aside == {"delivered", "baselook", "baseclaim", "probe", "free", "freeadvance", "dead", "done"}
  <1>1. rows' = rows
    BY DEF Release, run_start, delivered_run, ReclaimBaseline, ClaimBaseline, Unclaim, abandon_run,
       Free, FreeAdvance, blocker, reopen_run, Crash, Begins, ledger
  <1>2. /\ run' \in [RunIds -> Outcomes]
        /\ \A s \in RunIds : run'[s] \in {"none", "complete"} => run'[s] = run[s]
    <2>1. CASE run' = run
      BY <2>1 DEF RowsInv, TypeOK
    <2>2. CASE \E o \in {"abandoned", "blocked", "live"} : end_run(my[p].run, o)
      BY <2>2, OutcomeTyped DEF Outcomes
    <2> QED
      BY <2>1, <2>2 DEF Release, run_start, delivered_run, ReclaimBaseline, ClaimBaseline, Unclaim,
         abandon_run, Free, FreeAdvance, blocker, reopen_run, Crash, Begins, ledger
  <1>3. \E l \in Aside : Goto(p, l)
    BY DEF Release, run_start, delivered_run, ReclaimBaseline, ClaimBaseline, Unclaim, abandon_run,
       Free, FreeAdvance, blocker, reopen_run, Crash, Exit
  <1>4. pc'[p] \in Aside
    BY <1>3, LocalsKept DEF Labels, BaselineSection
  <1>5. pc'[p] \notin Holding \cup Starting
    BY <1>4 DEF Holding, Starting, WritingRows, AdvanceSection, SkipSection
  <1>6. my' = my \/ my' = [my EXCEPT ![p] = Fresh]
    BY DEF Release, run_start, delivered_run, ReclaimBaseline, ClaimBaseline, Unclaim, abandon_run,
       Free, FreeAdvance, blocker, reopen_run, Crash, Exit
  <1>7. my'[p] \in Locals
    BY <1>6, LocalsKept DEF RowsInv, TypeOK
  <1> QED
    BY <1>1, <1>2, <1>5, <1>7, PlainActs

\* The claim of the advance is taken, or a stale one removed.
LEMMA ClaimActs ==
    ASSUME RowsInv, NEW p \in Procs, Reclaim(p) \/ claim_advance(p)
    PROVE  Acts(p)
  <1>1. rows' = rows /\ run' = run /\ pc[p] \in Holding
    BY DEF Reclaim, claim_advance, At, Holding
  <1>2. CASE Exit(p)
    BY <1>1, <1>2, ExitActs
  <1>3. CASE (Goto(p, "claim") \/ Goto(p, "work")) /\ my' = my
    <2>1. pc'[p] \in {"claim", "work"}
      BY <1>3, LocalsKept DEF Labels, AdvanceSection
    <2> QED
      BY <1>1, <1>3, <2>1, LocalsKept, HeldActs
  <1> QED
    BY <1>2, <1>3 DEF Reclaim, claim_advance

\* Writing the phase of the row in hand.
LEMMA PhaseWritten ==
    ASSUME RowsInv, NEW p \in Procs, pc[p] \in Holding, NEW ph \in Phases,
           move_cycle(my[p].row, ph)
    PROVE  /\ rows' \in Seq(CycleRow)
           /\ DOMAIN rows' = DOMAIN rows
           /\ \A j \in DOMAIN rows : /\ rows'[j].run = rows[j].run
                                     /\ rows'[j].ordinal = rows[j].ordinal
                                     /\ rows'[j].closed = rows[j].closed
  <1> DEFINE i == my[p].row
             x == [rows[i] EXCEPT !.phase = ph]
  <1>1. i \in DOMAIN rows /\ rows[i] \in CycleRow
    BY RowsDomain DEF RowsInv, Local
  <1>2. /\ x \in CycleRow /\ x.run = rows[i].run /\ x.ordinal = rows[i].ordinal
        /\ x.closed = rows[i].closed
    BY <1>1 DEF CycleRow
  <1>3. rows' = [rows EXCEPT ![i] = x]
    BY DEF move_cycle
  <1>4. TypeOK
    BY DEF RowsInv
  <1> HIDE DEF x
  <1> QED
    BY <1>1, <1>2, <1>3, <1>4, PutRow

\* Closing the row in hand leaves no open row of its run.
LEMMA RowClosed ==
    ASSUME RowsInv, NEW p \in Procs, pc[p] \in Closing, NEW ph \in Phases,
           rows' = [rows EXCEPT ![my[p].row] = [@ EXCEPT !.phase = ph, !.closed = TRUE]]
    PROVE  /\ rows' \in Seq(CycleRow)
           /\ DOMAIN rows' = DOMAIN rows
           /\ \A j \in DOMAIN rows : /\ rows'[j].run = rows[j].run
                                     /\ rows'[j].ordinal = rows[j].ordinal
                                     /\ rows[j].closed => rows'[j].closed
           /\ ~crossed => \A j \in DOMAIN rows : rows[j].run = my[p].run => rows'[j].closed
  <1> DEFINE i == my[p].row
             x == [rows[i] EXCEPT !.phase = ph, !.closed = TRUE]
  <1>1. i \in DOMAIN rows /\ rows[i] \in CycleRow /\ rows[i].run = my[p].run
    BY RowsDomain DEF RowsInv, Local, Closing, Holding, WritingRows, AdvanceSection, SkipSection
  <1>2. x \in CycleRow /\ x.run = rows[i].run /\ x.ordinal = rows[i].ordinal /\ x.closed
    BY <1>1 DEF CycleRow
  <1>3. rows' = [rows EXCEPT ![i] = x]
    OBVIOUS
  <1>4. TypeOK
    BY DEF RowsInv
  <1>5. ~crossed => ~rows[i].closed /\ Coherent([run |-> run, rows |-> rows])
    BY DEF RowsInv, Local, Shared
  <1>6. ~crossed => \A j \in DOMAIN rows : rows[j].run = my[p].run /\ ~rows[j].closed => j = i
    BY <1>1, <1>5 DEF Coherent
  <1> HIDE DEF x
  <1>7. /\ rows' \in Seq(CycleRow) /\ DOMAIN rows' = DOMAIN rows /\ rows'[i] = x
        /\ \A j \in DOMAIN rows : j # i => rows'[j] = rows[j]
    BY <1>1, <1>2, <1>3, <1>4, PutRow
  <1> QED
    BY <1>1, <1>2, <1>6, <1>7

\* The handler's outcome.
LEMMA HandleActs ==
    ASSUME RowsInv, NEW p \in Procs, Handle(p)
    PROVE  Acts(p)
  <1>1. pc[p] = "work" /\ my' = my /\ pc[p] \in Holding /\ my'[p] \in Locals
    BY LocalsKept DEF Handle, At, Holding, WritingRows, AdvanceSection
  <1>2. "release" \notin Holding \cup Starting
    BY DEF Holding, Starting, WritingRows, AdvanceSection, SkipSection
  <1>3. /\ Goto(p, "release") => pc'[p] = "release"
        /\ Goto(p, "close") => pc'[p] = "close"
    BY LocalsKept DEF Labels, AdvanceSection
  <1>4. run \in [RunIds -> Outcomes]
    BY DEF RowsInv, TypeOK
  <1>5. CASE Goto(p, "release") /\ UNCHANGED <<run, rows>>
    BY <1>1, <1>2, <1>3, <1>4, <1>5, PlainActs
  <1>6. CASE end_run(my[p].run, "blocked") /\ Goto(p, "release") /\ UNCHANGED rows
    <2>1. /\ run' \in [RunIds -> Outcomes]
          /\ \A s \in RunIds : run'[s] \in {"none", "complete"} => run'[s] = run[s]
      BY <1>6, OutcomeTyped DEF Outcomes
    <2> QED
      BY <1>1, <1>2, <1>3, <1>6, <2>1, PlainActs
  <1>7. CASE move_cycle(my[p].row, "REFACTOR") /\ Goto(p, "release") /\ UNCHANGED run
    <2>1. /\ rows' \in Seq(CycleRow)
          /\ DOMAIN rows' = DOMAIN rows
          /\ \A j \in DOMAIN rows : /\ rows'[j].run = rows[j].run
                                    /\ rows'[j].ordinal = rows[j].ordinal
                                    /\ rows'[j].closed = rows[j].closed
      BY <1>1, <1>7, PhaseWritten DEF Phases
    <2>2. Typed(p) /\ RowEffect(p)
      BY <1>1, <1>2, <1>3, <1>4, <1>7, <2>1 DEF Typed, RowEffect
    <2>3. Local(p)'
      BY <1>2, <1>3, <1>7 DEF Local, Holding, Closing, Opens, Ends, WritingRows, AdvanceSection,
         SkipSection
    <2> QED
      BY <2>2, <2>3 DEF Acts
  <1>8. CASE Goto(p, "close") /\ UNCHANGED <<run, rows>>
    BY <1>1, <1>3, <1>8, HeldActs
  <1> QED
    BY <1>5, <1>6, <1>7, <1>8 DEF Handle

\* close_cycle looks at the row again.
LEMMA CloseActs ==
    ASSUME RowsInv, NEW p \in Procs, close_cycle(p), crossed' = (crossed \/ Crossing')
    PROVE  Acts(p)
  <1>1. pc[p] = "close" /\ my' = my /\ rows' = rows /\ run' = run /\ my'[p] \in Locals
    BY LocalsKept DEF close_cycle, At, ledger
  <1>2. my[p].row \in DOMAIN rows /\ rows[my[p].row].run = my[p].run
    BY <1>1 DEF RowsInv, Local, Holding, WritingRows, AdvanceSection
  <1>3. CASE rows[my[p].row].closed
    <2>1. pc'[p] = "release"
      BY <1>3, LocalsKept DEF close_cycle, Labels, AdvanceSection
    <2> QED
      BY <1>1, <2>1, PlainActs DEF RowsInv, TypeOK, Holding, Starting, WritingRows, AdvanceSection,
         SkipSection
  <1>4. CASE ~rows[my[p].row].closed
    <2>1. pc'[p] = "move"
      BY <1>4, LocalsKept DEF close_cycle, Labels, AdvanceSection
    <2>2. Typed(p) /\ RowEffect(p)
      BY <1>1, <2>1 DEF RowsInv, TypeOK, Typed, RowEffect, Starting
    <2>3. ~crossed' => run[my[p].run] # "complete"
      <3>1. my[p].run \in RunIds
        BY <1>2, RowsDomain DEF RowsInv, CycleRow
      <3>2. ~crossed => Coherent([run |-> run, rows |-> rows])
        BY DEF RowsInv, Shared
      <3>3. Coherent([run |-> run, rows |-> rows]) /\ run[my[p].run] = "complete"
              => rows[my[p].row].closed
        BY <1>2, <3>1 DEF Coherent
      <3> QED
        BY <1>4, <3>2, <3>3
    <2>4. Local(p)'
      BY <1>1, <1>2, <1>4, <2>1, <2>3 DEF Local, Closing, Opens, Ends, Starting
    <2> QED
      BY <2>2, <2>4 DEF Acts
  <1> QED
    BY <1>3, <1>4

\* The row is moved to CLOSED, then marked.
LEMMA MoveActs ==
    ASSUME RowsInv, NEW p \in Procs, MoveToClosed(p), crossed' = (crossed \/ Crossing')
    PROVE  Acts(p)
  <1>1. /\ pc[p] = "move" /\ my' = my /\ run' = run /\ my'[p] \in Locals
        /\ pc[p] \in Holding /\ pc[p] \in Closing /\ pc'[p] = "mark"
    BY LocalsKept DEF MoveToClosed, At, Holding, Closing, WritingRows, AdvanceSection, Labels
  <1>2. /\ rows' \in Seq(CycleRow)
        /\ DOMAIN rows' = DOMAIN rows
        /\ \A j \in DOMAIN rows : /\ rows'[j].run = rows[j].run
                                  /\ rows'[j].ordinal = rows[j].ordinal
                                  /\ rows'[j].closed = rows[j].closed
    BY <1>1, PhaseWritten DEF MoveToClosed, Phases
  <1>3. Typed(p) /\ RowEffect(p)
    BY <1>1, <1>2 DEF RowsInv, TypeOK, Typed, RowEffect, Starting
  <1>4. Local(p)'
    BY <1>1, <1>2 DEF RowsInv, Local, Closing, Opens, Ends, Starting
  <1> QED
    BY <1>3, <1>4 DEF Acts

\* The row in hand is closed; p goes on to the next cycle or to the run's end.
LEMMA ClosedActs ==
    ASSUME RowsInv, NEW p \in Procs, MarkClosed(p) \/ skip_cycle(p),
           crossed' = (crossed \/ Crossing')
    PROVE  Acts(p)
  <1>1. /\ pc[p] \in Closing /\ my' = my /\ run' = run /\ my'[p] \in Locals
        /\ pc[p] \in Holding /\ pc[p] \in WritingRows
    BY LocalsKept DEF MarkClosed, skip_cycle, At, Holding, Closing, WritingRows, AdvanceSection,
       SkipSection
  <1>2. my[p].row \in DOMAIN rows /\ rows[my[p].row].run = my[p].run
        /\ rows[my[p].row].ordinal \in 1..N
    BY <1>1, RowsDomain DEF RowsInv, Local, CycleRow
  <1>3. \E ph \in Phases : rows' = [rows EXCEPT ![my[p].row] = [@ EXCEPT !.phase = ph, !.closed = TRUE]]
    <2>1. CASE MarkClosed(p)
      <3>1. rows[my[p].row] \in CycleRow
        BY <1>2, RowsDomain DEF RowsInv
      <3>2. [rows[my[p].row] EXCEPT !.closed = TRUE]
               = [rows[my[p].row] EXCEPT !.phase = rows[my[p].row].phase, !.closed = TRUE]
        BY <3>1 DEF CycleRow
      <3>3. rows[my[p].row].phase \in Phases
        BY <3>1 DEF CycleRow
      <3>4. rows' = [rows EXCEPT ![my[p].row] = [rows[my[p].row] EXCEPT !.closed = TRUE]]
        BY <2>1 DEF MarkClosed, mark_cycle_closed
      <3> QED
        BY <3>2, <3>3, <3>4
    <2>2. CASE skip_cycle(p)
      BY <2>2 DEF skip_cycle, Phases
    <2> QED
      BY <2>1, <2>2
  <1>4. /\ rows' \in Seq(CycleRow)
        /\ DOMAIN rows' = DOMAIN rows
        /\ \A j \in DOMAIN rows : /\ rows'[j].run = rows[j].run
                                  /\ rows'[j].ordinal = rows[j].ordinal
                                  /\ rows[j].closed => rows'[j].closed
        /\ ~crossed => \A j \in DOMAIN rows : rows[j].run = my[p].run => rows'[j].closed
    BY <1>1, <1>3, RowClosed
  <1>5. /\ pc'[p] \in Opens \cup Ends
        /\ pc'[p] \in Opens => ~Last(p)
        /\ pc'[p] \in Ends => Last(p)
    <2>1. \A l \in {"next", "end", "skipnext", "skipend"} : Goto(p, l) => pc'[p] = l
      BY LocalsKept DEF Labels, AdvanceSection, SkipSection
    <2> QED
      BY <2>1 DEF MarkClosed, skip_cycle, Opens, Ends
  <1>6. Typed(p) /\ RowEffect(p)
    BY <1>1, <1>4, <1>5 DEF RowsInv, TypeOK, Typed, RowEffect, Starting, Opens, Ends
  <1>7. ~crossed => run[my[p].run] # "complete"
    BY <1>1 DEF RowsInv, Local
  <1>8. /\ pc'[p] \in Opens => rows[my[p].row].ordinal < N
        /\ pc'[p] \in Ends => rows[my[p].row].ordinal = N
    BY <1>2, <1>5, NAssumption DEF Last, Ordinal
  <1>9. my'[p] = my[p] /\ pc'[p] \notin Starting /\ pc'[p] \notin Closing
    BY <1>1, <1>5 DEF Closing, Opens, Ends, Starting
  <1>10. Local(p)'
    BY <1>1, <1>2, <1>4, <1>7, <1>8, <1>9 DEF Local
  <1> QED
    BY <1>6, <1>10 DEF Acts

\* The run ends: where it is made complete no row of it is open.
LEMMA EndActs ==
    ASSUME RowsInv, NEW p \in Procs, EndRun(p) \/ SkipEnd(p)
    PROVE  Acts(p)
  <1>1. pc[p] \in Ends /\ rows' = rows /\ my'[p] \in Locals
    BY LocalsKept DEF EndRun, SkipEnd, At, Ends
  <1>2. pc'[p] \in {"release", "done"}
    BY LocalsKept DEF EndRun, SkipEnd, Labels, AdvanceSection
  <1>3. \E o \in {"complete", "blocked"} : run' = [run EXCEPT ![my[p].run] = o]
    BY DEF EndRun, SkipEnd, end_run
  <1>4. /\ run' \in [RunIds -> Outcomes]
        /\ \A r \in RunIds : /\ run'[r] = "none" => run[r] = "none"
                             /\ run'[r] = "complete" => run[r] = "complete" \/ r = my[p].run
    BY <1>3 DEF RowsInv, TypeOK, Outcomes
  <1>5. Typed(p) /\ RowEffect(p)
    BY <1>1, <1>2, <1>4 DEF RowsInv, TypeOK, Typed, RowEffect, Starting
  <1>6. Local(p)'
    BY <1>2 DEF Local, Holding, Closing, Opens, Ends, Starting, WritingRows, AdvanceSection, SkipSection
  <1> QED
    BY <1>5, <1>6 DEF Acts

\* The next cycle is looked for: a row of it that is open is taken as it is.
LEMMA OpenNextActs ==
    ASSUME RowsInv, NEW p \in Procs, NEW o,
           \/ OpenNext(p, "next", o, "add", "release")
           \/ OpenNext(p, "skipnext", o, "skipadd", "done")
           \/ OpenNext(p, "first", o, "addfirst", "unclaim"),
           crossed' = (crossed \/ Crossing')
    PROVE  Acts(p)
  <1>1. rows' = rows /\ run' = run
    BY DEF OpenNext, ledger
  <1>2. CASE Exit(p)
    BY <1>1, <1>2, ExitActs
  <1>3. CASE (Goto(p, "release") \/ Goto(p, "unclaim")) /\ my' = my
    <2>1. pc'[p] \in {"release", "unclaim"}
      BY <1>3, LocalsKept DEF Labels, AdvanceSection, BaselineSection
    <2>2. pc'[p] \notin Holding \cup Starting
      BY <2>1 DEF Holding, Starting, WritingRows, AdvanceSection, SkipSection
    <2>3. run' \in [RunIds -> Outcomes] /\ my'[p] \in Locals
      BY <1>1, <1>3, LocalsKept DEF RowsInv, TypeOK
    <2> QED
      BY <1>1, <2>2, <2>3, PlainActs
  <1>4. CASE /\ my' = my
             /\ \/ pc[p] = "next" /\ Goto(p, "add")
                \/ pc[p] = "skipnext" /\ Goto(p, "skipadd")
                \/ pc[p] = "first" /\ Goto(p, "addfirst")
    <2>1. \/ pc[p] = "next" /\ pc'[p] = "add"
          \/ pc[p] = "skipnext" /\ pc'[p] = "skipadd"
          \/ pc[p] = "first" /\ pc'[p] = "addfirst"
      BY <1>4, LocalsKept DEF Labels, AdvanceSection, BaselineSection, SkipSection
    <2>2. Typed(p)
      BY <1>1, <1>4, LocalsKept DEF RowsInv, TypeOK, Typed
    <2>3. RowEffect(p)
      BY <1>1, <1>4, <2>1 DEF RowEffect, Starting
    <2>4. Local(p)'
      BY <1>1, <1>4, <2>1 DEF RowsInv, Local, Closing, Opens, Ends, Starting, Holding, WritingRows,
         AdvanceSection, SkipSection
    <2> QED
      BY <2>2, <2>3, <2>4 DEF Acts
  <1> QED
    BY <1>2, <1>3, <1>4 DEF OpenNext, At

\* The next cycle's row, or the first, is added.
LEMMA AddNextActs ==
    ASSUME RowsInv, NEW p \in Procs,
           \/ AddNext(p, "add", Ordinal(p) + 1, "release")
           \/ AddNext(p, "skipadd", Ordinal(p) + 1, "done")
           \/ AddNext(p, "addfirst", 1, "unclaim")
    PROVE  Acts(p)
  <1> DEFINE o == IF pc[p] = "addfirst" THEN 1 ELSE Ordinal(p) + 1
             x == [run |-> my[p].run, ordinal |-> o, phase |-> Opening[o], closed |-> FALSE]
  <1>1. /\ pc[p] \in {"add", "skipadd", "addfirst"} /\ run' = run
        /\ rows' = Append(rows, x)
    BY DEF AddNext, At, add_cycle
  <1>2. pc'[p] \in {"release", "done", "unclaim"} /\ my'[p] \in Locals
    BY LocalsKept DEF AddNext, Labels, AdvanceSection, BaselineSection
  <1>3. my[p].run \in RunIds /\ o \in 1..N
    <2>1. CASE pc[p] = "addfirst"
      BY <2>1, NAssumption DEF RowsInv, Local, Starting
    <2>2. CASE pc[p] \in {"add", "skipadd"}
      <3>1. /\ my[p].row \in DOMAIN rows /\ rows[my[p].row].run = my[p].run
            /\ rows[my[p].row].ordinal < N
        BY <2>2 DEF RowsInv, Local, Holding, Opens, WritingRows, AdvanceSection, SkipSection
      <3>2. rows[my[p].row] \in CycleRow
        BY <3>1, RowsDomain DEF RowsInv
      <3> QED
        BY <2>2, <3>1, <3>2, NAssumption DEF CycleRow, Ordinal
    <2> QED
      BY <1>1, <2>1, <2>2
  <1>4. x \in CycleRow
    <2>1. Opening[o] \in Phases
      BY <1>3, NAssumption DEF Phases
    <2> HIDE DEF o
    <2> QED
      BY <1>3, <2>1 DEF CycleRow
  <1>5. x.run = my[p].run /\ x.ordinal = o
    OBVIOUS
  <1>6. TypeOK
    BY DEF RowsInv
  <1> HIDE DEF x
  <1>7. /\ rows' \in Seq(CycleRow)
        /\ \E n : /\ n \notin DOMAIN rows
                  /\ DOMAIN rows' = DOMAIN rows \cup {n}
                  /\ rows'[n] = x
        /\ \A j \in DOMAIN rows : rows'[j] = rows[j]
    BY <1>1, <1>4, <1>6, AddRow
  <1>8. Typed(p) /\ RowEffect(p)
    BY <1>1, <1>2, <1>5, <1>7 DEF RowsInv, TypeOK, Typed, RowEffect, Starting
  <1>9. Local(p)'
    BY <1>2 DEF Local, Holding, Closing, Opens, Ends, Starting, WritingRows, AdvanceSection, SkipSection
  <1> QED
    BY <1>8, <1>9 DEF Acts

\* The run row is inserted under a fresh id, or the start is refused.
LEMMA ProbeActs ==
    ASSUME RowsInv, NEW p \in Procs, Probe(p) \/ CheckArtifacts(p)
    PROVE  Acts(p)
  <1>1. rows' = rows
    BY DEF Probe, CheckArtifacts
  <1>2. /\ Goto(p, "unclaim") => pc'[p] = "unclaim"
        /\ Goto(p, "check") => pc'[p] = "check"
        /\ Goto(p, "first") => pc'[p] = "first"
    BY LocalsKept DEF Labels, BaselineSection
  <1>3. "unclaim" \notin Holding \cup Starting
    BY DEF Holding, Starting, WritingRows, AdvanceSection, SkipSection
  <1>4. CASE Goto(p, "unclaim") /\ my' = my /\ (run' = run \/ end_run(my[p].run, "refused"))
    <2>1. /\ run' \in [RunIds -> Outcomes]
          /\ \A s \in RunIds : run'[s] \in {"none", "complete"} => run'[s] = run[s]
      BY <1>4, OutcomeTyped DEF Outcomes, RowsInv, TypeOK
    <2> QED
      BY <1>1, <1>2, <1>3, <1>4, <2>1, LocalsKept, PlainActs
  <1>5. CASE \E r \in RunIds : /\ \A s \in RunIds : run[s] = "none" <=> s >= r
                              /\ run' = [run EXCEPT ![r] = "live"]
                              /\ Read(p, "run", r)
                              /\ Goto(p, "check")
    <2>1. PICK r \in RunIds : /\ \A s \in RunIds : run[s] = "none" <=> s >= r
                              /\ run' = [run EXCEPT ![r] = "live"]
                              /\ Read(p, "run", r)
                              /\ Goto(p, "check")
      BY <1>5
    <2>2. my'[p] \in Locals /\ my'[p].run = r /\ pc'[p] = "check"
      BY <1>2, <2>1, LocalsKept
    <2>3. run[r] = "none"
      <3>1. r \in Nat
        BY RunsAssumption, FS_CardinalityType
      <3>2. r >= r
        BY <3>1
      <3> QED
        BY <2>1, <3>2
    <2>4. \A i \in DOMAIN rows : rows[i].run # r
      BY <2>3 DEF RowsInv, Shared
    <2>5. run' \in [RunIds -> Outcomes] /\ run'[r] = "live"
          /\ \A s \in RunIds : s # r => run'[s] = run[s]
      BY <2>1 DEF RowsInv, TypeOK, Outcomes
    <2>6. Typed(p) /\ RowEffect(p)
      BY <1>1, <2>2, <2>3, <2>5 DEF RowsInv, TypeOK, Typed, RowEffect
    <2>7. Local(p)'
      BY <1>1, <2>2, <2>4, <2>5 DEF Local, Holding, Closing, Opens, Ends, Starting, WritingRows,
         AdvanceSection, SkipSection
    <2> QED
      BY <2>6, <2>7 DEF Acts
  <1>6. CASE pc[p] = "check" /\ Goto(p, "first") /\ run' = run /\ my' = my
    <2>1. pc[p] = "check" /\ pc'[p] = "first" /\ run' = run /\ my' = my
      BY <1>2, <1>6
    <2>2. Typed(p) /\ RowEffect(p)
      BY <1>1, <2>1, LocalsKept DEF RowsInv, TypeOK, Typed, RowEffect, Starting
    <2>3. Local(p)'
      BY <1>1, <2>1 DEF RowsInv, Local, Holding, Closing, Opens, Ends, Starting, WritingRows,
         AdvanceSection, SkipSection
    <2> QED
      BY <2>2, <2>3 DEF Acts
  <1>7. CASE Probe(p)
    BY <1>4, <1>5, <1>7 DEF Probe
  <1>8. CASE CheckArtifacts(p)
    BY <1>4, <1>6, <1>8 DEF CheckArtifacts, At
  <1> QED
    BY <1>7, <1>8

\* Every step of a process acts so.
LEMMA StepActs ==
    ASSUME RowsInv, NEW p \in Procs, Step(p), crossed' = (crossed \/ Crossing')
    PROVE  Acts(p)
  <1>1. CASE Advance(p)
    BY <1>1, RunsTyped, BeginActs, ReadCycleActs, LookActs, ClaimActs, HandleActs, CloseActs,
       MoveActs, ClosedActs, EndActs, OpenNextActs, AddNextActs, AsideActs
       DEF Advance, advance, Openings
  <1>2. CASE Skip(p)
    BY <1>2, RunsTyped, BeginActs, ReadCycleActs, ClosedActs, EndActs, OpenNextActs, AddNextActs
       DEF Skip, Openings
  <1>3. CASE Start(p)
    BY <1>3, LookActs, ProbeActs, OpenNextActs, AddNextActs, AsideActs DEF Start
  <1>4. CASE Abandon(p)
    BY <1>4, RunsTyped, BeginActs, LookActs, AsideActs DEF Abandon, Openings
  <1>5. CASE Supervise(p)
    BY <1>5, RunsTyped, BeginActs, AsideActs DEF Supervise, Openings
  <1>6. CASE Crash(p)
    BY <1>6, AsideActs
  <1> QED
    BY <1>1, <1>2, <1>3, <1>4, <1>5, <1>6 DEF Step

-----------------------------------------------------------------------------
(* The invariant.                                                          *)

LEMMA ShapeOfType ==
    ASSUME TypeOK
    PROVE  Shape
  <1>1. \A p \in Procs : my[p] = [run |-> my[p].run, row |-> my[p].row,
                                  phase |-> my[p].phase, held |-> my[p].held]
    BY DEF TypeOK, Locals
  <1>2. my = [p \in Procs |-> my[p]]
    BY DEF TypeOK
  <1>3. my = [p \in Procs |-> [run |-> my[p].run, row |-> my[p].row,
                              phase |-> my[p].phase, held |-> my[p].held]]
    BY <1>1, <1>2, Zenon
  <1> QED
    BY <1>3 DEF TypeOK, Shape

\* The claims and what is observed of them keep their types.
LEMMA ClaimsTyped ==
    ASSUME TypeOK, NEW p \in Procs, Effect(p)
    PROVE  /\ advance_claim' \in Procs \cup {Nobody}
           /\ baseline_claim' \in Procs \cup {Nobody}
           /\ robbed' \in SUBSET Procs
  <1>1. /\ advance_claim \in Procs \cup {Nobody}
        /\ baseline_claim \in Procs \cup {Nobody}
        /\ robbed \in SUBSET Procs
    BY DEF TypeOK
  <1>2. CASE Waits(p)
    BY <1>1, <1>2 DEF Waits, claims
  <1>3. CASE TakesAdvance(p) \/ TakesBaseline(p)
    BY <1>1, <1>3 DEF TakesAdvance, TakesBaseline
  <1>4. CASE DropsAdvance(p) \/ DropsBaseline(p)
    BY <1>1, <1>4 DEF DropsAdvance, DropsBaseline, release_claim, release_advance_claim, Rob
  <1> QED
    BY <1>2, <1>3, <1>4 DEF Effect, OnClaims

LEMMA StepType ==
    ASSUME TypeOK, NEW p \in Procs, Effect(p), Typed(p), crossed' = (crossed \/ Crossing')
    PROVE  TypeOK'
  <1>1. pc' \in [Procs -> Labels] /\ gone' \in [Procs -> SUBSET Procs]
    BY DEF Effect, Shape
  <1>2. my' \in [Procs -> Locals]
    <2>1. \A q \in Procs : my'[q] \in Locals
      BY DEF Effect, OthersStay, Typed, TypeOK
    <2>2. my' = [q \in Procs |-> my'[q]]
      BY DEF Effect, Shape
    <2> QED
      BY <2>1, <2>2
  <1>3. crossed' \in BOOLEAN
    BY Zenon
  <1>4. run' \in [RunIds -> Outcomes] /\ rows' \in Seq(CycleRow)
    BY DEF Typed
  <1> QED
    BY <1>1, <1>2, <1>3, <1>4, ClaimsTyped DEF TypeOK

LEMMA InitRows == Init => RowsInv
  <1> SUFFICES ASSUME Init PROVE RowsInv
    OBVIOUS
  <1>1. PICK l \in Ledgers : run = l.run /\ rows = l.rows
    BY DEF Init
  <1>2. run \in [RunIds -> Outcomes] /\ rows \in Seq(CycleRow) /\ Coherent(l)
    BY <1>1, LedgersAssumption
  <1>3. "idle" \in Labels /\ "idle" \notin Holding \cup Starting
    BY DEF Labels, Holding, Starting, WritingRows, AdvanceSection, SkipSection
  <1>4. /\ pc = [p \in Procs |-> "idle"] /\ my = [p \in Procs |-> Fresh]
        /\ advance_claim = Nobody /\ baseline_claim = Nobody
        /\ robbed = {} /\ crossed = FALSE /\ gone = [p \in Procs |-> {}]
    BY DEF Init
  <1>5. Fresh \in Locals
    BY DEF Fresh, Locals, Phases
  <1>6. TypeOK
    <2>1. crossed \in BOOLEAN
      BY <1>4
    <2> QED
      BY <1>2, <1>3, <1>4, <1>5, <2>1 DEF TypeOK
  <1>7. ~Crossing
    BY <1>3, <1>4 DEF Crossing, Writing, Holding
  <1>8. Coherent([run |-> run, rows |-> rows])
    BY <1>1, <1>2 DEF Coherent
  <1>9. Shared
    BY <1>3, <1>4, <1>7, <1>8 DEF Shared, Coherent
  <1>10. \A p \in Procs : Local(p)
    BY <1>3, <1>4 DEF Local, Holding, Starting, Closing, Opens, Ends
  <1> QED
    BY <1>6, <1>9, <1>10 DEF RowsInv

LEMMA StepRows == RowsInv /\ [Next]_vars => RowsInv'
  <1> SUFFICES ASSUME RowsInv, [Next]_vars PROVE RowsInv'
    OBVIOUS
  <1>1. ASSUME NEW p \in Procs, Step(p), crossed' = (crossed \/ Crossing')
        PROVE  RowsInv'
    <2>1. TypeOK /\ Shape
      BY ShapeOfType DEF RowsInv
    <2>2. Effect(p)
      BY <1>1, <2>1, StepEffect
    <2>3. OthersStay(p)
      BY <2>2 DEF Effect
    <2>4. Typed(p) /\ RowEffect(p) /\ Local(p)'
      BY <1>1, StepActs DEF Acts
    <2>5. run' \in [RunIds -> Outcomes]
      BY <2>4 DEF Typed
    <2>6. TypeOK'
      BY <1>1, <2>1, <2>2, <2>4, StepType
    <2>7. Shared'
      BY <1>1, <2>3, <2>4, SharedStep
    <2>8. \A q \in Procs : Local(q)'
      BY <1>1, <2>3, <2>4, <2>5, OtherLocal
    <2> QED
      BY <2>6, <2>7, <2>8 DEF RowsInv
  <1>2. ASSUME UNCHANGED vars PROVE RowsInv'
    BY <1>2 DEF vars, RowsInv, TypeOK, Shared, Local, Crossing, Writing, Ordinal, Coherent
  <1> QED
    BY <1>1, <1>2 DEF Next, Rest

THEOREM RowsInvariant == Spec => []RowsInv
  BY InitRows, StepRows, PTL DEF Spec

-----------------------------------------------------------------------------
(* What it gives.                                                          *)

\* The rows, the claims and what each command has read keep their types (ledger.py).
THEOREM RowsTyped == Spec => []TypeOK
  <1>1. RowsInv => TypeOK
    BY DEF RowsInv
  <1> QED
    BY <1>1, RowsInvariant, PTL

\* While writers of cycle rows stay apart no run has two open rows, whatever was read
\* before another command closed it and whoever was killed (machine.py:622-632).
THEOREM ApartIsOne == Spec => []ApartOneOpenRow
  <1>1. ASSUME RowsInv, ~crossed, NEW r \in RunIds
        PROVE  Cardinality(OpenRows(r)) <= 1
    <2>1. \A i, j \in OpenRows(r) : i = j
      BY <1>1 DEF RowsInv, Shared, Coherent, OpenRows
    <2>2. CASE OpenRows(r) = {}
      BY <2>2, FS_EmptySet
    <2>3. CASE OpenRows(r) # {}
      <3>1. PICK i : OpenRows(r) = {i}
        BY <2>1, <2>3
      <3> QED
        BY <3>1, FS_Singleton
    <2> QED
      BY <2>2, <2>3
  <1>2. RowsInv => ApartOneOpenRow
    BY <1>1 DEF ApartOneOpenRow
  <1> QED
    BY <1>2, RowsInvariant, PTL

\* The ledger of a complete run shows every declared cycle, and none open, for plans of
\* any length (machine.py:630, cli.py:1315).
THEOREM CompleteIsClosed == Spec => []CompleteLeavesNothingOpen
  <1>1. ASSUME RowsInv, ~crossed, NEW r \in RunIds, run[r] = "complete"
        PROVE  /\ OpenRows(r) = {}
               /\ \A o \in 1..N : \E i \in DOMAIN rows : rows[i].run = r /\ rows[i].ordinal = o
    <2>1. /\ \A i \in DOMAIN rows : rows[i].run = r => rows[i].closed
          /\ \E i \in DOMAIN rows : rows[i].run = r /\ rows[i].ordinal = N
      BY <1>1 DEF RowsInv, Shared, Coherent
    <2> QED
      BY <1>1, <2>1 DEF RowsInv, Shared, OpenRows
  <1>2. RowsInv => CompleteLeavesNothingOpen
    BY <1>1 DEF CompleteLeavesNothingOpen
  <1> QED
    BY <1>2, RowsInvariant, PTL
=============================================================================
