--------------------------- MODULE Leases_proofs ---------------------------
(***************************************************************************)
(* Theorems about Leases, for any number of processes, killed anywhere,    *)
(* and any timeout and staleness limit.  The named lease: who is past it   *)
(* owns the file unless the file was taken from it alive, and whoever read *)
(* an owner it judged dead read one that is dead.  The worker lease: of    *)
(* two suites the later to list the files found the other's.               *)
(***************************************************************************)
EXTENDS Leases, TLAPS, FiniteSetTheorems

-----------------------------------------------------------------------------
(* Types.                                                                  *)

\* Dividing the cores leaves at most all of them.
LEMMA Shares == \A n \in Nat \ {0} : Cores \div n \in 0 .. Cores
  BY SMTT(30), LeaseAssumption

LEMMA ShareType ==
    ASSUME NEW S \in SUBSET Proc
    PROVE  /\ AtLeast(1, Cores \div AtLeast(1, Cardinality(S))) \in 0 .. Cores
           /\ AtLeast(1, Cores \div AtLeast(1, Cardinality(S))) # 0
  <1> DEFINE n == AtLeast(1, Cardinality(S))
  <1>1. Cardinality(S) \in Nat
    BY FS_Subset, FS_CardinalityType, LeaseAssumption
  <1>2. n \in Nat \ {0}
    BY <1>1 DEF AtLeast
  <1>3. Cores \div n \in 0 .. Cores
    BY <1>2, Shares
  <1> HIDE DEF n
  <1>4. AtLeast(1, Cores \div n) \in 0 .. Cores /\ AtLeast(1, Cores \div n) # 0
    BY <1>3, LeaseAssumption DEF AtLeast
  <1> QED
    BY <1>4 DEF n

LEMMA TypeInit == Init => TypeOK
  <1> SUFFICES ASSUME Init PROVE TypeOK
    OBVIOUS
  <1> USE LeaseAssumption
  <1>1. pc \in [Proc -> Where]
    BY DEF Init, Where, Dead
  <1>2. lockBy \in Proc \cup {Nobody} /\ lockAge \in 0 .. MaxAge
    BY DEF Init
  <1>6. lockText \in BOOLEAN
    BY Zenon DEF Init
  <1>7. \A p \in Proc : pc[p] # "discard"
    BY DEF Init
  <1>8. Working
    BY DEF Init, Working
  <1>3. /\ lease \in [Proc -> {"absent", "empty", "full"}]
        /\ leaseAge \in [Proc -> 0 .. MaxAge]
    BY DEF Init
  <1>4. /\ listed \in [Proc -> SUBSET Proc] /\ counted \in [Proc -> SUBSET Proc]
        /\ doomed \in [Proc -> Proc \cup {Nobody}] /\ share \in [Proc -> 0 .. Cores]
    BY DEF Init
  <1>5. read \in [Proc -> [by : Proc \cup {Nobody}, text : BOOLEAN]] /\ robbed \in SUBSET (Proc \X {"lock", "lease"})
    BY DEF Init, Unread
  <1> QED
    BY <1>1, <1>2, <1>3, <1>4, <1>5, <1>6, <1>7, <1>8 DEF TypeOK

\* Moving the program counter of p, not to "discard".
LEMMA MoveType ==
    ASSUME TypeOK, NEW p \in Proc, NEW from, NEW to \in Where \ {"discard"}, Move(p, from, to)
    PROVE  /\ pc' \in [Proc -> Where]
           /\ doomed' = doomed => \A q \in Proc : pc'[q] = "discard" => doomed'[q] # Nobody
  BY DEF TypeOK, Move

\* The lock file stays, or is made anew, or goes.
LEMMA LockType ==
    ASSUME TypeOK, lockBy' \in Proc \cup {Nobody}, lockAge' \in 0 .. MaxAge,
           lockText' = lockText \/ lockText' = FALSE \/ lockText' = TRUE
    PROVE  lockBy' \in Proc \cup {Nobody} /\ lockText' \in BOOLEAN /\ lockAge' \in 0 .. MaxAge
  <1>1. lockText \in BOOLEAN
    BY DEF TypeOK
  <1>2. lockText' \in BOOLEAN
    BY <1>1, Zenon
  <1> QED
    BY <1>2

LEMMA UnlinkType ==
    ASSUME TypeOK, NEW p \in Proc, Unlink(p)
    PROVE  /\ lockBy' \in Proc \cup {Nobody} /\ lockText' \in BOOLEAN /\ lockAge' \in 0 .. MaxAge
           /\ robbed' \in SUBSET (Proc \X {"lock", "lease"})
  <1>1. lockBy' \in Proc \cup {Nobody} /\ lockAge' \in 0 .. MaxAge
    BY LeaseAssumption DEF Unlink
  <1>2. lockText' = FALSE
    BY DEF Unlink
  <1>3. robbed' \in SUBSET (Proc \X {"lock", "lease"})
    <2>1. CASE lockBy \in Proc
      <3>1. <<lockBy, "lock">> \in Proc \X {"lock", "lease"}
        BY <2>1
      <3> QED
        BY <3>1 DEF Unlink, TypeOK
    <2>2. CASE lockBy = Nobody
      BY <2>2 DEF Unlink, TypeOK
    <2> QED
      BY <2>1, <2>2 DEF TypeOK
  <1> QED
    BY <1>1, <1>2, <1>3, LockType

\* A suite starts with its share taken, and keeps it until it has ended.
LEMMA WorkersStep == TypeOK /\ [Next]_vars => Working'
  <1> SUFFICES ASSUME TypeOK, [Next]_vars PROVE Working'
    OBVIOUS
  <1>0. pc \in [Proc -> Where] /\ share \in [Proc -> 0 .. Cores] /\ Working
    BY DEF TypeOK
  <1>1. ASSUME NEW p \in Proc, TakeShare(p) PROVE Working'
    <2> DEFINE s == AtLeast(1, Cores \div AtLeast(1, Cardinality(counted[p])))
    <2>1. s # 0
      BY ShareType DEF TypeOK
    <2>2. share' = [share EXCEPT ![p] = s] /\ pc' = [pc EXCEPT ![p] = "run"]
      BY <1>1 DEF TakeShare, Move
    <2> HIDE DEF s
    <2> QED
      BY <1>0, <2>1, <2>2 DEF Working
  <1>2. ASSUME NEW p \in Proc, Leave(p) PROVE Working'
    <2>1. /\ pc' = [pc EXCEPT ![p] = IF p \in Named THEN "unlock" ELSE "done"]
          /\ share' = [share EXCEPT ![p] = 0]
      BY <1>2 DEF Leave, Move
    <2> QED
      BY <1>0, <2>1 DEF Working
  <1>3. CASE share' = share /\ \A p \in Proc : pc'[p] = "run" => pc[p] = "run"
    BY <1>0, <1>3 DEF Working
  <1>4. ASSUME NEW p \in Proc,
               \/ _run_suite(p) \/ Kill(p) \/ Reuse(p) \/ Open(p) \/ Write(p) \/ Judge(p)
               \/ Sweep(p) \/ Wait(p) \/ Unlock(p) \/ Create(p) \/ Fill(p) \/ Discard(p)
               \/ SuiteEnds(p)
        PROVE  Working'
    BY <1>0, <1>3, <1>4 DEF _run_suite, Kill, Reuse, Open, Write, Judge, Sweep, Wait, Unlock,
         Create, Fill, Discard, SuiteEnds, Move, counting
  <1>5. ASSUME NEW p \in Proc, CountOne(p) PROVE Working'
    <2>1. share' = share /\ (pc' = pc \/ pc' = [pc EXCEPT ![p] = "discard"])
      BY <1>5 DEF CountOne, Move
    <2> QED
      BY <1>0, <1>3, <2>1
  <1>6. CASE Tick \/ UNCHANGED vars
    BY <1>0, <1>3, <1>6 DEF Tick, counting, vars
  <1> QED
    BY <1>1, <1>2, <1>4, <1>5, <1>6 DEF Next, Step

\* Every action keeps the types.
LEMMA TypeStep == TypeOK /\ [Next]_vars => TypeOK'
  <1> SUFFICES ASSUME TypeOK, [Next]_vars PROVE TypeOK'
    OBVIOUS
  <1>0. Working'
    BY WorkersStep
  <1> USE <1>0, LeaseAssumption DEF Where, Dead, Short
  <1>1. ASSUME NEW p \in Proc, _run_suite(p) PROVE TypeOK'
    BY <1>1, MoveType DEF _run_suite, TypeOK, files, counting
  <1>2. ASSUME NEW p \in Proc, Open(p) PROVE TypeOK'
    <2>1. /\ lockBy' \in Proc \cup {Nobody} /\ lockAge' \in 0 .. MaxAge
          /\ lockText' = lockText \/ lockText' = FALSE
      BY <1>2 DEF Open, TypeOK, lockFile
    <2> QED
      BY <1>2, <2>1, LockType, MoveType DEF Open, TypeOK, leaseFiles, counting
  <1>3. ASSUME NEW p \in Proc, Write(p) PROVE TypeOK'
    <2>1. /\ lockBy' \in Proc \cup {Nobody} /\ lockAge' \in 0 .. MaxAge
          /\ lockText' = lockText \/ lockText' = TRUE
      BY <1>3 DEF Write, TypeOK, lockFile
    <2> QED
      BY <1>3, <2>1, LockType, MoveType DEF Write, TypeOK, leaseFiles, counting
  <1>4. ASSUME NEW p \in Proc, Judge(p) PROVE TypeOK'
    <2>1. /\ pc' \in [Proc -> Where]
          /\ \A q \in Proc : pc'[q] = "discard" => doomed'[q] # Nobody
      BY <1>4, MoveType DEF Judge, counting
    <2>2. read' \in [Proc -> [by : Proc \cup {Nobody}, text : BOOLEAN]]
      BY <1>4 DEF Judge, TypeOK, Unread
    <2> QED
      BY <1>4, <2>1, <2>2 DEF Judge, TypeOK, files, counting
  <1>5. ASSUME NEW p \in Proc, Sweep(p) PROVE TypeOK'
    <2>1. /\ pc' \in [Proc -> Where]
          /\ \A q \in Proc : pc'[q] = "discard" => doomed'[q] # Nobody
      BY <1>5, MoveType DEF Sweep, counting
    <2>2. read' \in [Proc -> [by : Proc \cup {Nobody}, text : BOOLEAN]]
      BY <1>5 DEF Sweep, TypeOK, Unread
    <2> QED
      BY <1>5, <2>1, <2>2, UnlinkType DEF Sweep, TypeOK, leaseFiles, counting
  <1>6. ASSUME NEW p \in Proc, Wait(p) PROVE TypeOK'
    BY <1>6, MoveType DEF Wait, TypeOK, files, counting
  <1>7. ASSUME NEW p \in Proc, Unlock(p) PROVE TypeOK'
    BY <1>7, MoveType, UnlinkType DEF Unlock, TypeOK, leaseFiles, counting
  <1>8. ASSUME NEW p \in Proc, Create(p) PROVE TypeOK'
    BY <1>8, MoveType DEF Create, TypeOK, lockFile, counting
  <1>9. ASSUME NEW p \in Proc, Fill(p) PROVE TypeOK'
    BY <1>9, MoveType DEF Fill, TypeOK, lockFile
  <1>10. ASSUME NEW p \in Proc, CountOne(p) PROVE TypeOK'
    <2>1. PICK q \in listed[p] : CountOne(p)!2!(q)
      BY <1>10 DEF CountOne
    <2>2. q \in Proc
      BY <2>1 DEF TypeOK
    <2>3. /\ pc' \in [Proc -> Where]
          /\ \A r \in Proc : pc'[r] = "discard" => doomed'[r] # Nobody
      BY <1>10, <2>1, <2>2 DEF Move, TypeOK
    <2>4. listed' \in [Proc -> SUBSET Proc]
      BY <2>1 DEF TypeOK
    <2>5. counted' \in [Proc -> SUBSET Proc]
      BY <2>1, <2>2 DEF TypeOK
    <2>6. doomed' \in [Proc -> Proc \cup {Nobody}]
      BY <2>1, <2>2 DEF TypeOK
    <2>7. UNCHANGED <<files, share, read, robbed>>
      BY <1>10 DEF CountOne
    <2> QED
      BY <2>3, <2>4, <2>5, <2>6, <2>7 DEF TypeOK, files
  <1>11. ASSUME NEW p \in Proc, Discard(p) PROVE TypeOK'
    <2>1. pc[p] = "discard" /\ doomed[p] \in Proc
      BY <1>11 DEF Discard, Move, TypeOK
    <2>2. /\ pc' \in [Proc -> Where]
          /\ \A q \in Proc : pc'[q] = "discard" => doomed'[q] # Nobody
      BY <1>11 DEF Discard, Move, TypeOK
    <2>3. robbed' \in SUBSET (Proc \X {"lock", "lease"})
      <3>1. <<doomed[p], "lease">> \in Proc \X {"lock", "lease"}
        BY <2>1
      <3> QED
        BY <1>11, <3>1 DEF Discard, TypeOK
    <2>4. /\ lease' \in [Proc -> {"absent", "empty", "full"}]
          /\ leaseAge' \in [Proc -> 0 .. MaxAge]
      <3>1. /\ lease \in [Proc -> {"absent", "empty", "full"}]
            /\ leaseAge \in [Proc -> 0 .. MaxAge]
        BY DEF TypeOK
      <3>2. /\ lease' = [lease EXCEPT ![doomed[p]] = "absent"]
            /\ leaseAge' = [leaseAge EXCEPT ![doomed[p]] = 0]
        BY <1>11 DEF Discard
      <3> QED
        BY <3>1, <3>2, <2>1
    <2>5. doomed' \in [Proc -> Proc \cup {Nobody}]
      BY <1>11 DEF Discard, TypeOK
    <2>6. UNCHANGED <<lockFile, listed, counted, share, read>>
      BY <1>11 DEF Discard
    <2> QED
      BY <2>2, <2>3, <2>4, <2>5, <2>6 DEF TypeOK, lockFile
  <1>12. ASSUME NEW p \in Proc, TakeShare(p) PROVE TypeOK'
    <2> DEFINE s == AtLeast(1, Cores \div AtLeast(1, Cardinality(counted[p])))
    <2>1. s \in 0 .. Cores /\ s # 0
      BY ShareType DEF TypeOK
    <2>2. share' = [share EXCEPT ![p] = s]
      BY <1>12 DEF TakeShare
    <2> HIDE DEF s
    <2>3. share' \in [Proc -> 0 .. Cores]
      BY <2>1, <2>2 DEF TypeOK
    <2> QED
      BY <1>12, <2>3, MoveType DEF TakeShare, TypeOK, files
  <1>13. ASSUME NEW p \in Proc, SuiteEnds(p) PROVE TypeOK'
    BY <1>13, MoveType DEF SuiteEnds, TypeOK, files, counting
  <1>14. ASSUME NEW p \in Proc, Leave(p) PROVE TypeOK'
    BY <1>14, MoveType DEF Leave, TypeOK, lockFile
  <1>15. ASSUME NEW p \in Proc, Kill(p) PROVE TypeOK'
    BY <1>15 DEF Kill, TypeOK, files, counting
  <1>16. ASSUME NEW p \in Proc, Reuse(p) PROVE TypeOK'
    BY <1>16, MoveType DEF Reuse, TypeOK, files, counting
  <1>17. ASSUME Tick PROVE TypeOK'
    BY <1>17 DEF Tick, Older, TypeOK, counting
  <1>18. ASSUME UNCHANGED vars PROVE TypeOK'
    BY <1>18 DEF vars, TypeOK, files
  <1> QED
    BY <1>1, <1>2, <1>3, <1>4, <1>5, <1>6, <1>7, <1>8, <1>9, <1>10, <1>11, <1>12,
       <1>13, <1>14, <1>15, <1>16, <1>17, <1>18 DEF Next, Step

\* The files, listings and records keep their shape (leases.py:64-170).
THEOREM TypeCorrect == Spec => []TypeOK
  <1> QED
    BY TypeInit, TypeStep, PTL DEF Spec

-----------------------------------------------------------------------------
(* The named lease.                                                        *)

Naming == {"open", "write", "judge", "sweep", "wait", "unlock"}

\* Only a process of a project that declares the lease is at its steps; who
\* is past it owns the file, unless it was taken in its lifetime.
HoldersOwn ==
  /\ \A p \in Proc : pc[p] \in Naming => p \in Named
  /\ \A p \in Proc : Holds(p) => lockBy = p \/ <<p, "lock">> \in robbed

LEMMA HoldInit == Init => HoldersOwn
  BY DEF Init, HoldersOwn, Holds, Naming

\* Who unlinks the path takes it from whoever holds it.
LEMMA UnlinkRobs ==
    ASSUME TypeOK, HoldersOwn, NEW q \in Proc, Unlink(q),
           NEW p \in Proc, p # q, Holds(p)
    PROVE  <<p, "lock">> \in robbed'
  BY LeaseAssumption DEF TypeOK, HoldersOwn, Unlink, Holds, Alive, Dead

LEMMA HoldStep == TypeOK /\ HoldersOwn /\ [Next]_vars => HoldersOwn'
  <1> SUFFICES ASSUME TypeOK, HoldersOwn, [Next]_vars PROVE HoldersOwn'
    OBVIOUS
  <1> USE LeaseAssumption DEF TypeOK, Naming
  <1>1. ASSUME NEW q \in Proc, _run_suite(q) \/ Wait(q) \/ Judge(q) PROVE HoldersOwn'
    BY <1>1 DEF _run_suite, Wait, Judge, Move, HoldersOwn, Holds, files
  <1>2. ASSUME NEW q \in Proc, Open(q) PROVE HoldersOwn'
    BY <1>2 DEF Open, Move, HoldersOwn, Holds, lockFile
  <1>3. ASSUME NEW q \in Proc, Write(q) PROVE HoldersOwn'
    BY <1>3 DEF Write, Move, HoldersOwn, Holds, lockFile
  <1>4. ASSUME NEW q \in Proc, Sweep(q) \/ Unlock(q) PROVE HoldersOwn'
    <2>1. Unlink(q) /\ ~Holds(q)'
      BY <1>4 DEF Sweep, Unlock, Move, Holds
    <2>2. \A p \in Proc : p # q /\ Holds(p)' => Holds(p)
      BY <1>4 DEF Sweep, Unlock, Move, Holds
    <2>3. \A p \in Proc : pc'[p] \in Naming => p \in Named
      BY <1>4 DEF Sweep, Unlock, Move, HoldersOwn
    <2> QED
      BY <2>1, <2>2, <2>3, UnlinkRobs DEF HoldersOwn
  <1>5. ASSUME NEW q \in Proc, Create(q) \/ Fill(q) \/ TakeShare(q) \/ SuiteEnds(q) \/ Leave(q)
        PROVE  HoldersOwn'
    BY <1>5 DEF Create, Fill, TakeShare, SuiteEnds, Leave, Move, HoldersOwn, Holds, files, lockFile
  <1>6. ASSUME NEW q \in Proc, CountOne(q) PROVE HoldersOwn'
    BY <1>6 DEF CountOne, Move, HoldersOwn, Holds, files
  <1>7. ASSUME NEW q \in Proc, Discard(q) PROVE HoldersOwn'
    BY <1>7 DEF Discard, Move, HoldersOwn, Holds, lockFile
  <1>8. ASSUME NEW q \in Proc, Kill(q) \/ Reuse(q) PROVE HoldersOwn'
    BY <1>8 DEF Kill, Reuse, Move, HoldersOwn, Holds, files
  <1>9. ASSUME Tick PROVE HoldersOwn'
    BY <1>9 DEF Tick, HoldersOwn, Holds
  <1>10. ASSUME UNCHANGED vars PROVE HoldersOwn'
    BY <1>10 DEF vars, files, HoldersOwn, Holds
  <1> QED
    BY <1>1, <1>2, <1>3, <1>4, <1>5, <1>6, <1>7, <1>8, <1>9, <1>10 DEF Next, Step

\* Two processes hold the named lease at once only after one of them had its
\* file removed while it lived (leases.py:117), however many there are and
\* whatever the staleness limit.
THEOREM LeaseExcluded == Spec => []LeaseExcludes
  <1>1. HoldersOwn => LeaseExcludes
    BY LeaseAssumption DEF HoldersOwn, LeaseExcludes
  <1> QED
    BY <1>1, HoldInit, HoldStep, TypeInit, TypeStep, PTL DEF Spec

\* A living owner's file is younger than the timeout, and who is about to
\* sweep the path after reading an owner in it read one that is dead.
Judged ==
  /\ \A p \in Proc : Alive(p) /\ lockBy = p => lockAge <= Timeout
  /\ \A q, p \in Proc : pc[q] = "sweep" /\ read[q] = [by |-> p, text |-> TRUE] => ~Alive(p)

LEMMA JudgeInit == Init => Judged
  BY LeaseAssumption DEF Init, Judged, Alive, Dead

LEMMA JudgeStep ==
    ASSUME Timeout <= Stale
    PROVE  TypeOK /\ Judged /\ [Next]_vars => Judged'
  <1> SUFFICES ASSUME TypeOK, Judged, [Next]_vars PROVE Judged'
    OBVIOUS
  <1>0. /\ pc \in [Proc -> Where] /\ lockBy \in Proc \cup {Nobody} /\ lockAge \in 0 .. MaxAge
        /\ read \in [Proc -> [by : Proc \cup {Nobody}, text : BOOLEAN]]
    BY DEF TypeOK
  <1> USE <1>0, LeaseAssumption DEF Alive, Dead
  <1>1. ASSUME NEW q \in Proc, _run_suite(q) \/ Wait(q) PROVE Judged'
    BY <1>1 DEF _run_suite, Wait, Move, Judged, files
  <1>2. ASSUME NEW q \in Proc, Open(q) PROVE Judged'
    BY <1>2 DEF Open, Move, Judged, lockFile
  <1>3. ASSUME NEW q \in Proc, Write(q) PROVE Judged'
    BY <1>3 DEF Write, Move, Judged, lockFile
  <1>4. ASSUME NEW q \in Proc, Judge(q) PROVE Judged'
    <2>1. \A p \in Proc : Alive(p)' => Alive(p)
      BY <1>4 DEF Judge, Move
    <2>2. ~LockIsLive /\ lockText /\ lockBy \in Proc => ~Alive(lockBy)
      BY Timeout <= Stale DEF Judged, LockIsLive, _is_live, _pid_alive
    <2>3. \A r \in Proc : r # q => pc'[r] = pc[r] /\ read'[r] = read[r]
      BY <1>4 DEF Judge, Move
    <2>4. pc'[q] = "sweep" => ~LockIsLive /\ read'[q] = [by |-> lockBy, text |-> lockText]
      BY <1>4 DEF Judge, Move
    <2>5. lockBy' = lockBy /\ lockAge' = lockAge
      BY <1>4 DEF Judge, files
    <2>6. ASSUME NEW r \in Proc, NEW p \in Proc, pc'[r] = "sweep",
                 read'[r] = [by |-> p, text |-> TRUE]
          PROVE  ~Alive(p)'
      <3>1. CASE r = q
        BY <3>1, <2>1, <2>2, <2>4, <2>6
      <3>2. CASE r # q
        BY <3>2, <2>1, <2>3, <2>6 DEF Judged
      <3> QED
        BY <3>1, <3>2
    <2> QED
      BY <2>1, <2>5, <2>6 DEF Judged
  <1>5. ASSUME NEW q \in Proc, Sweep(q) PROVE Judged'
    BY <1>5 DEF Sweep, Unlink, Move, Judged
  <1>6. ASSUME NEW q \in Proc, Unlock(q) PROVE Judged'
    BY <1>6 DEF Unlock, Unlink, Move, Judged
  <1>7. ASSUME NEW q \in Proc, Create(q) \/ Fill(q) \/ TakeShare(q) \/ SuiteEnds(q) \/ Leave(q)
        PROVE  Judged'
    BY <1>7 DEF Create, Fill, TakeShare, SuiteEnds, Leave, Move, Judged, files, lockFile
  <1>8. ASSUME NEW q \in Proc, CountOne(q) PROVE Judged'
    BY <1>8 DEF CountOne, Move, Judged, files
  <1>9. ASSUME NEW q \in Proc, Discard(q) PROVE Judged'
    BY <1>9 DEF Discard, Move, Judged, lockFile
  <1>10. ASSUME NEW q \in Proc, Kill(q) \/ Reuse(q) PROVE Judged'
    BY <1>10 DEF Kill, Reuse, Move, Judged, files
  <1>11. ASSUME Tick PROVE Judged'
    BY <1>11 DEF Tick, Older, Judged
  <1>12. ASSUME UNCHANGED vars PROVE Judged'
    BY <1>12 DEF vars, files, Judged
  <1> QED
    BY <1>1, <1>2, <1>3, <1>4, <1>5, <1>6, <1>7, <1>8, <1>9, <1>10, <1>11, <1>12 DEF Next, Step

\* Only two steps take the path from a living owner, and neither read this
\* owner in it.
LEMMA KeepStep ==
    ASSUME TypeOK, HoldersOwn, Judged, [Next]_vars,
           NEW p \in Proc, lockBy = p, lockBy' # p, Alive(p)
    PROVE  \E q \in Proc : /\ pc'[q] # pc[q]
                           /\ \/ q = p
                              \/ pc[q] = "sweep" /\ read[q] # [by |-> p, text |-> TRUE]
                              \/ pc[q] = "unlock" /\ <<q, "lock">> \in robbed
  <1> USE LeaseAssumption
  <1>1. ASSUME NEW q \in Proc, Sweep(q)
        PROVE  pc'[q] # pc[q] /\ pc[q] = "sweep" /\ read[q] # [by |-> p, text |-> TRUE]
    BY <1>1 DEF Sweep, Move, Judged, TypeOK
  <1>2. ASSUME NEW q \in Proc, Unlock(q)
        PROVE  pc'[q] # pc[q] /\ (q = p \/ (pc[q] = "unlock" /\ <<q, "lock">> \in robbed))
    <2>1. pc[q] = "unlock" /\ pc'[q] = "done"
      BY <1>2 DEF Unlock, Move, TypeOK
    <2>2. Holds(q)
      BY <2>1 DEF HoldersOwn, Holds, Naming
    <2>3. q = p \/ <<q, "lock">> \in robbed
      BY <2>2 DEF HoldersOwn
    <2> QED
      BY <2>1, <2>3
  <1>3. ASSUME NEW q \in Proc, Open(q) \/ Write(q)
        PROVE  FALSE
    BY <1>3 DEF Open, Write, lockFile
  <1>4. (\E q \in Proc : Sweep(q) \/ Unlock(q)) \/ (\E q \in Proc : Open(q) \/ Write(q))
    BY DEF Next, Step, _run_suite, Judge, Wait, Create, Fill, CountOne, Discard, TakeShare,
       SuiteEnds, Leave, Kill, Reuse, Tick, vars, files, lockFile
  <1> QED
    BY <1>1, <1>2, <1>3, <1>4

\* Where no suite outlives the staleness limit, a living owner loses the
\* named lock only to a process that did not read this owner in it, or that
\* had lost its own (leases.py:150).
THEOREM ReadHolderKept ==
    ASSUME Timeout <= Stale
    PROVE  Spec => ReadHolderKeeps
  <1>1. TypeOK /\ HoldersOwn /\ Judged /\ [Next]_vars =>
          [\A p \in Proc : lockBy = p /\ lockBy' # p /\ Alive(p) =>
             \E q \in Proc : /\ pc'[q] # pc[q]
                             /\ \/ q = p
                                \/ pc[q] = "sweep" /\ read[q] # [by |-> p, text |-> TRUE]
                                \/ pc[q] = "unlock" /\ <<q, "lock">> \in robbed]_vars
    BY KeepStep
  <1>2. TypeOK /\ Judged /\ [Next]_vars => Judged'
    BY JudgeStep, Timeout <= Stale
  <1> QED
    BY <1>1, <1>2, HoldInit, HoldStep, JudgeInit, TypeInit, TypeStep, PTL DEF Spec, ReadHolderKeeps

-----------------------------------------------------------------------------
(* The worker lease.                                                       *)

Counting == {"count", "discard", "run"}

\* q is among the files p has still to judge, those it counted, or is the one
\* it is about to remove.
Sees(p, q) == q \in listed[p] \cup counted[p] \/ (pc[p] = "discard" /\ doomed[p] = q)

Robbed(p) == <<p, "lease">> \in robbed

\* A process past creating its file has it until it leaves, unless somebody
\* removed it; whoever lists the files second sees the other's; and a suite
\* starts with the whole listing judged.
Witnessed ==
  /\ \A p \in Proc : pc[p] \in Counting \cup {"fill", "leave"} => lease[p] # "absent" \/ Robbed(p)
  /\ \A p, q \in Proc : p # q /\ pc[p] \in Counting /\ pc[q] \in Counting =>
       Sees(p, q) \/ Sees(q, p) \/ Robbed(p) \/ Robbed(q)
  /\ \A p \in Proc : pc[p] = "run" => listed[p] = {}

LEMMA WitnessInit == Init => Witnessed
  BY DEF Init, Witnessed, Counting

LEMMA WitnessStep == TypeOK /\ Witnessed /\ [Next]_vars => Witnessed'
  <1> SUFFICES ASSUME TypeOK, Witnessed, [Next]_vars PROVE Witnessed'
    OBVIOUS
  <1> USE LeaseAssumption DEF TypeOK, Counting, Sees, Robbed
  <1>1. ASSUME NEW q \in Proc, _run_suite(q) \/ Wait(q) \/ Judge(q) PROVE Witnessed'
    BY <1>1 DEF _run_suite, Wait, Judge, Move, Witnessed, files, counting
  <1>2. ASSUME NEW q \in Proc, Open(q) \/ Write(q) PROVE Witnessed'
    BY <1>2 DEF Open, Write, Move, Witnessed, leaseFiles, counting
  <1>3. ASSUME NEW q \in Proc, Sweep(q) \/ Unlock(q) PROVE Witnessed'
    BY <1>3 DEF Sweep, Unlock, Unlink, Move, Witnessed, leaseFiles, counting
  <1>4. ASSUME NEW q \in Proc, Create(q) PROVE Witnessed'
    BY <1>4 DEF Create, Move, Witnessed, counting
  <1>5. ASSUME NEW q \in Proc, Fill(q) PROVE Witnessed'
    <2>1. /\ pc[q] = "fill" /\ pc' = [pc EXCEPT ![q] = "count"]
          /\ robbed' = robbed /\ counted' = counted /\ doomed' = doomed
          /\ \A p \in Proc : lease'[p] # "absent" <=> lease[p] # "absent"
          /\ listed' = [listed EXCEPT ![q] = {p \in Proc : lease'[p] # "absent"}]
      BY <1>5 DEF Fill, Move
    <2>2. \A p \in Proc : p # q => pc'[p] = pc[p] /\ listed'[p] = listed[p]
      BY <2>1
    <2>3. listed'[q] = {p \in Proc : lease[p] # "absent"} /\ pc'[q] = "count"
      BY <2>1
    <2>4. \A p \in Proc : pc'[p] \in Counting \cup {"fill", "leave"}
                            => lease'[p] # "absent" \/ Robbed(p)'
      BY <2>1, <2>2 DEF Witnessed
    <2>5. \A p \in Proc : p # q /\ pc'[p] \in Counting => Sees(q, p)' \/ Robbed(p)'
      BY <2>1, <2>2, <2>3 DEF Witnessed
    <2>6. \A p, r \in Proc : p # r /\ p # q /\ r # q /\ pc'[p] \in Counting /\ pc'[r] \in Counting
             => Sees(p, r)' \/ Sees(r, p)' \/ Robbed(p)' \/ Robbed(r)'
      BY <2>1, <2>2 DEF Witnessed
    <2> QED
      BY <2>1, <2>2, <2>3, <2>4, <2>5, <2>6 DEF Witnessed
  <1>6. ASSUME NEW q \in Proc, CountOne(q) PROVE Witnessed'
    BY <1>6 DEF CountOne, Move, Witnessed, files
  <1>7. ASSUME NEW q \in Proc, Discard(q) PROVE Witnessed'
    <2>1. /\ pc[q] = "discard" /\ pc' = [pc EXCEPT ![q] = "count"]
          /\ listed' = listed /\ counted' = counted
          /\ lease' = [lease EXCEPT ![doomed[q]] = "absent"]
          /\ doomed' = [doomed EXCEPT ![q] = Nobody]
          /\ robbed' = IF Alive(doomed[q]) /\ lease[doomed[q]] # "absent"
                       THEN robbed \cup {<<doomed[q], "lease">>} ELSE robbed
      BY <1>7 DEF Discard, Move
    <2>2. PICK d \in Proc : d = doomed[q]
      BY <2>1
    <2>10. robbed \subseteq robbed'
      BY <2>1
    <2>11. Alive(d) /\ lease[d] # "absent" => Robbed(d)'
      BY <2>1, <2>2
    <2>3. \A p \in Proc : pc'[p] \in Counting \cup {"fill", "leave"}
                            => pc[p] \in Counting \cup {"fill", "leave"} /\ (pc'[p] \in Counting <=> pc[p] \in Counting)
      BY <2>1
    <2>4. pc[d] \in Counting \cup {"fill", "leave"} => Robbed(d)'
      <3>1. pc[d] \in Counting \cup {"fill", "leave"} => Alive(d)
        BY DEF Alive, Dead
      <3>2. pc[d] \in Counting \cup {"fill", "leave"} => lease[d] # "absent" \/ Robbed(d)
        BY <2>2 DEF Witnessed
      <3>3. Robbed(d) => Robbed(d)'
        BY <2>1, <2>10
      <3> QED
        BY <3>1, <3>2, <3>3, <2>11
    <2>5. \A p \in Proc : p # d => lease'[p] = lease[p]
      BY <2>1, <2>2
    <2>6. \A p \in Proc : pc'[p] \in Counting \cup {"fill", "leave"}
                            => lease'[p] # "absent" \/ Robbed(p)'
      BY <2>3, <2>4, <2>5, <2>10 DEF Witnessed
    <2>7. \A p, r \in Proc : Sees(p, r) => Sees(p, r)' \/ r = d
      BY <2>1, <2>2
    <2>8. \A p, r \in Proc : p # r /\ pc'[p] \in Counting /\ pc'[r] \in Counting
             => Sees(p, r)' \/ Sees(r, p)' \/ Robbed(p)' \/ Robbed(r)'
      <3>1. SUFFICES ASSUME NEW p \in Proc, NEW r \in Proc, p # r,
                            pc'[p] \in Counting, pc'[r] \in Counting
                     PROVE  Sees(p, r)' \/ Sees(r, p)' \/ Robbed(p)' \/ Robbed(r)'
        OBVIOUS
      <3>2. pc[p] \in Counting /\ pc[r] \in Counting
        BY <2>3, <3>1
      <3>3. Sees(p, r) \/ Sees(r, p) \/ Robbed(p)' \/ Robbed(r)'
        BY <2>10, <3>1, <3>2 DEF Witnessed
      <3>4. p = d \/ r = d => Robbed(p)' \/ Robbed(r)'
        BY <2>4, <3>2
      <3> QED
        BY <2>7, <3>3, <3>4
    <2>9. \A p \in Proc : pc'[p] = "run" => listed'[p] = {}
      BY <2>1 DEF Witnessed
    <2> QED
      BY <2>6, <2>8, <2>9 DEF Witnessed
  <1>8. ASSUME NEW q \in Proc, TakeShare(q) \/ SuiteEnds(q) PROVE Witnessed'
    BY <1>8 DEF TakeShare, SuiteEnds, Move, Witnessed, files, counting
  <1>9. ASSUME NEW q \in Proc, Leave(q) PROVE Witnessed'
    BY <1>9 DEF Leave, Move, Witnessed
  <1>10. ASSUME NEW q \in Proc, Kill(q) \/ Reuse(q) PROVE Witnessed'
    <2>1. /\ UNCHANGED <<files, counting, robbed>>
          /\ \A p \in Proc : pc'[p] = pc[p] \/ pc'[p] \in Dead
      BY <1>10 DEF Kill, Reuse, Move, Dead
    <2> QED
      BY <2>1 DEF Witnessed, files, counting, Dead
  <1>11. ASSUME Tick PROVE Witnessed'
    BY <1>11 DEF Tick, Witnessed, counting
  <1>12. ASSUME UNCHANGED vars PROVE Witnessed'
    BY <1>12 DEF vars, files, Witnessed
  <1> QED
    BY <1>1, <1>2, <1>3, <1>4, <1>5, <1>6, <1>7, <1>8, <1>9, <1>10, <1>11, <1>12 DEF Next, Step

\* Of two suites that run at once at least one counted the other, unless the
\* file of one was removed while it lived (leases.py:18-21).
THEOREM SharesAreKnown == Spec => []OneSeesTheOther
  <1>1. Witnessed => OneSeesTheOther
    BY DEF Witnessed, OneSeesTheOther, Sees, Robbed, Counting
  <1> QED
    BY <1>1, WitnessInit, WitnessStep, TypeInit, TypeStep, PTL DEF Spec
=============================================================================
