------------------------------- MODULE Leases -------------------------------
(***************************************************************************)
(* The lease files of one machine (leases.py) and the suite run that takes *)
(* them (Adapter._run_suite).  A process runs one suite.  A project that   *)
(* declares a `lease` first takes the named lock, at most one holder on    *)
(* the machine, and every suite takes a worker lease, a file of its own    *)
(* whose number decides the share of the cores.                            *)
(*                                                                         *)
(* Neither is a lock of the operating system: a file is created in one     *)
(* step and its owner written in the next, a file is judged in one step    *)
(* and removed in a later one, and a removal names a path, not a file.     *)
(* Every one of these steps is an action of its own, and any process may   *)
(* be killed between any two.                                              *)
(***************************************************************************)
EXTENDS Integers, FiniteSets

CONSTANTS
  Proc,      \* the processes of the machine that run a suite
  Nobody,    \* no process
  Gone,      \* those killed before the others begin
  Named,     \* the processes whose project declares the lease
  Cores,     \* the core budget of the machine
  Timeout,   \* ticks a suite may run before run_command kills it
  Stale,     \* STALE_AFTER_S in ticks
  MaxAge,    \* bound: the age at which a file's clock stops
  MaxKills   \* bound: processes killed later

ASSUME LeaseAssumption ==
  /\ IsFiniteSet(Proc) /\ Nobody \notin Proc
  /\ Named \subseteq Proc
  /\ Gone \subseteq Proc
  /\ Cores \in Nat \ {0}
  /\ Timeout \in Nat
  /\ Stale \in Nat
  /\ MaxAge \in Nat /\ MaxAge > Stale
  /\ MaxKills \in Nat

VARIABLES
  pc,        \* where each process is
  lockBy,    \* whose the lock file at the named path is, Nobody when absent
  lockText,  \* whether its owner has been written into it
  lockAge,   \* ticks since it was last written
  lease,     \* each process's worker lease file: "absent", "empty" or "full"
  leaseAge,  \* ticks since it was last written
  listed,    \* the files a counting process has still to judge
  counted,   \* the processes whose lease it found live
  doomed,    \* the lease it judged dead and is about to remove
  share,     \* the workers its suite runs with, 0 before it counted
  read,      \* what a waiter read from the lock it judged dead (observation)
  robbed     \* whose file another process removed in their lifetime: a set
             \* of <<process, "lock" or "lease">> (observation)

files == <<lockBy, lockText, lockAge, lease, leaseAge>>
vars == <<pc, files, listed, counted, doomed, share, read, robbed>>

Dead == {"dead", "reused"}
Short == {"open", "write", "judge", "sweep", "create", "fill", "count",
          "discard", "leave", "unlock"}
Where == {"idle", "wait", "run", "done"} \cup Dead \cup Short
Unread == [by |-> Nobody, text |-> FALSE]

\* A suite that runs has a worker to run with.
Working == \A p \in Proc : pc[p] = "run" => share[p] # 0

TypeOK ==
  /\ pc \in [Proc -> Where]
  /\ lockBy \in Proc \cup {Nobody}
  /\ lockText \in BOOLEAN
  /\ lockAge \in 0 .. MaxAge
  /\ lease \in [Proc -> {"absent", "empty", "full"}]
  /\ leaseAge \in [Proc -> 0 .. MaxAge]
  /\ listed \in [Proc -> SUBSET Proc]
  /\ counted \in [Proc -> SUBSET Proc]
  /\ doomed \in [Proc -> Proc \cup {Nobody}]
  /\ \A p \in Proc : pc[p] = "discard" => doomed[p] # Nobody
  /\ share \in [Proc -> 0 .. Cores]
  /\ Working
  /\ read \in [Proc -> [by : Proc \cup {Nobody}, text : BOOLEAN]]
  /\ robbed \in SUBSET (Proc \X {"lock", "lease"})

\* Earlier suites may have been killed: each left a worker lease, whole or
\* half written, and one of them perhaps the lock.
Init ==
  /\ pc = [p \in Proc |-> IF p \in Gone THEN "dead" ELSE "idle"]
  /\ lockBy \in Gone \cup {Nobody}
  /\ lockText \in IF lockBy = Nobody THEN {FALSE} ELSE BOOLEAN
  /\ lockAge = 0
  /\ lease \in [Proc -> {"absent", "empty", "full"}]
  /\ \A p \in Proc : p \in Gone \/ lease[p] = "absent"
  /\ leaseAge = [p \in Proc |-> 0]
  /\ listed = [p \in Proc |-> {}]
  /\ counted = [p \in Proc |-> {}]
  /\ doomed = [p \in Proc |-> Nobody]
  /\ share = [p \in Proc |-> 0]
  /\ read = [p \in Proc |-> Unread]
  /\ robbed = {}

(***************************************************************************)
(* Judging a file                                                          *)
(***************************************************************************)

Alive(p) == pc[p] \notin Dead

\* A pid the system has given to another program exists, and so looks alive.
_pid_alive(p) == pc[p] # "dead"

\* Mutants: a lease is stale the moment it reaches the limit; age says nothing.
_is_live_strict(text, age, p) == text /\ age < Stale /\ _pid_alive(p)
_is_live_ageless(text, age, p) == text /\ _pid_alive(p)

\* A file without an owner in it does not parse, and is not live.
_is_live(text, age, p) == text /\ ~(age > Stale) /\ _pid_alive(p)

LockIsLive == lockBy # Nobody /\ _is_live(lockText, lockAge, lockBy)
LeaseIsLive(p) == _is_live(lease[p] = "full", leaseAge[p], p)

Move(p, from, to) == pc[p] = from /\ pc' = [pc EXCEPT ![p] = to]

counting == <<listed, counted, doomed, share>>
lockFile == <<lockBy, lockText, lockAge>>
leaseFiles == <<lease, leaseAge>>

(***************************************************************************)
(* The named lease                                                         *)
(***************************************************************************)

\* _run_suite: the named lease is the outer one, and only where declared.
_run_suite(p) ==
  /\ Move(p, "idle", IF p \in Named THEN "open" ELSE "create")
  /\ UNCHANGED <<files, counting, read, robbed>>

\* Mutant: the file is created without O_EXCL.
Open_shared(p) ==
  /\ Move(p, "open", "write")
  /\ lockBy' = p /\ lockText' = FALSE /\ lockAge' = 0
  /\ UNCHANGED <<leaseFiles, counting, read, robbed>>

\* os.open(O_CREAT | O_EXCL): a file that exists sends the caller to judge it.
Open(p) ==
  /\ \/ /\ lockBy = Nobody
        /\ Move(p, "open", "write")
        /\ lockBy' = p /\ lockText' = FALSE /\ lockAge' = 0
     \/ /\ lockBy # Nobody
        /\ Move(p, "open", "judge")
        /\ UNCHANGED lockFile
  /\ UNCHANGED <<leaseFiles, counting, read, robbed>>

\* os.write through the descriptor: it reaches the path only if the file the
\* descriptor is of is still the one there.
Write(p) ==
  /\ Move(p, "write", "create")
  /\ IF lockBy = p /\ ~lockText
     THEN lockText' = TRUE /\ lockAge' = 0 /\ UNCHANGED lockBy
     ELSE UNCHANGED lockFile
  /\ UNCHANGED <<leaseFiles, counting, read, robbed>>

Judge(p) ==
  /\ Move(p, "judge", IF LockIsLive THEN "wait" ELSE "sweep")
  /\ read' = [read EXCEPT ![p] = IF LockIsLive THEN Unread
                                 ELSE [by |-> lockBy, text |-> lockText]]
  /\ UNCHANGED <<files, counting, robbed>>

\* Removing whatever file is at the named path by now.
Unlink(p) ==
  /\ lockBy' = Nobody /\ lockText' = FALSE /\ lockAge' = 0
  /\ robbed' = IF lockBy \notin {p, Nobody} /\ Alive(lockBy)
               THEN robbed \cup {<<lockBy, "lock">>} ELSE robbed

Sweep(p) ==
  /\ Move(p, "sweep", "open")
  /\ Unlink(p)
  /\ read' = [read EXCEPT ![p] = Unread]
  /\ UNCHANGED <<leaseFiles, counting>>

\* The five seconds between two looks.
Wait(p) ==
  /\ Move(p, "wait", "open")
  /\ UNCHANGED <<files, counting, read, robbed>>

Unlock(p) ==
  /\ Move(p, "unlock", "done")
  /\ Unlink(p)
  /\ UNCHANGED <<leaseFiles, counting, read>>

(***************************************************************************)
(* The worker lease                                                        *)
(***************************************************************************)

\* Mutant: the files are listed before this process's own exists.
Create_after(p) ==
  /\ Move(p, "create", "count")
  /\ listed' = [listed EXCEPT ![p] = {q \in Proc : lease[q] # "absent"}]
  /\ UNCHANGED <<files, counted, doomed, share, read, robbed>>

\* mine.write_text: open creates the file, empty; the text follows.
Create(p) ==
  /\ Move(p, "create", "fill")
  /\ lease' = [lease EXCEPT ![p] = "empty"]
  /\ leaseAge' = [leaseAge EXCEPT ![p] = 0]
  /\ UNCHANGED <<lockFile, counting, read, robbed>>

Fill(p) ==
  /\ Move(p, "fill", "count")
  /\ lease' = [lease EXCEPT ![p] = IF @ = "empty" THEN "full" ELSE @]
  /\ UNCHANGED leaseAge
  /\ listed' = [listed EXCEPT ![p] = {q \in Proc : lease'[q] # "absent"}]
  /\ UNCHANGED <<lockFile, counted, doomed, share, read, robbed>>

\* One file of the listing judged: counted, or marked for removal.
CountOne(p) ==
  /\ pc[p] = "count"
  /\ \E q \in listed[p] :
       /\ listed' = [listed EXCEPT ![p] = @ \ {q}]
       /\ \/ /\ LeaseIsLive(q)
             /\ counted' = [counted EXCEPT ![p] = @ \cup {q}]
             /\ UNCHANGED <<pc, doomed>>
          \/ /\ ~LeaseIsLive(q)
             /\ Move(p, "count", "discard")
             /\ doomed' = [doomed EXCEPT ![p] = q]
             /\ UNCHANGED counted
  /\ UNCHANGED <<files, share, read, robbed>>

Discard(p) ==
  /\ Move(p, "discard", "count")
  /\ lease' = [lease EXCEPT ![doomed[p]] = "absent"]
  /\ leaseAge' = [leaseAge EXCEPT ![doomed[p]] = 0]
  /\ robbed' = IF Alive(doomed[p]) /\ lease[doomed[p]] # "absent"
               THEN robbed \cup {<<doomed[p], "lease">>} ELSE robbed
  /\ doomed' = [doomed EXCEPT ![p] = Nobody]
  /\ UNCHANGED <<lockFile, listed, counted, share, read>>

AtLeast(n, m) == IF m < n THEN n ELSE m

\* Mutant: more live leases than cores leave a suite without a worker.
TakeShare_zero(p) ==
  /\ listed[p] = {}
  /\ Move(p, "count", "run")
  /\ share' = [share EXCEPT ![p] = Cores \div AtLeast(1, Cardinality(counted[p]))]
  /\ UNCHANGED <<files, listed, counted, doomed, read, robbed>>

\* max(1, cores // max(1, count)), and the suite starts.
TakeShare(p) ==
  /\ listed[p] = {}
  /\ Move(p, "count", "run")
  /\ share' = [share EXCEPT ![p] =
                 AtLeast(1, Cores \div AtLeast(1, Cardinality(counted[p])))]
  /\ UNCHANGED <<files, listed, counted, doomed, read, robbed>>

\* The suite ends, by itself or by run_command's timeout.
SuiteEnds(p) ==
  /\ Move(p, "run", "leave")
  /\ UNCHANGED <<files, counting, read, robbed>>

Leave(p) ==
  /\ Move(p, "leave", IF p \in Named THEN "unlock" ELSE "done")
  /\ lease' = [lease EXCEPT ![p] = "absent"]
  /\ leaseAge' = [leaseAge EXCEPT ![p] = 0]
  /\ counted' = [counted EXCEPT ![p] = {}]
  /\ share' = [share EXCEPT ![p] = 0]
  /\ UNCHANGED <<lockFile, listed, doomed, read, robbed>>

(***************************************************************************)
(* The machine                                                             *)
(***************************************************************************)

\* A kill leaves the process's files; later its pid may name another program.
Kill(p) ==
  /\ pc[p] \notin {"idle", "done"} \cup Dead
  /\ Cardinality({q \in Proc \ Gone : ~Alive(q)}) < MaxKills
  /\ pc' = [pc EXCEPT ![p] = "dead"]
  /\ UNCHANGED <<files, counting, read, robbed>>

Reuse(p) ==
  /\ Move(p, "dead", "reused")
  /\ UNCHANGED <<files, counting, read, robbed>>

\* A file's age has no limit; the code tells no two ages beyond Stale apart.
Older(age) == IF age < MaxAge THEN age + 1 ELSE age

\* A suite is killed at its timeout, so no file of a living process gets
\* older than that: suspending a process is outside the model.
Tick ==
  /\ \A p \in Proc : Alive(p) =>
       /\ lockBy = p => lockAge < Timeout
       /\ lease[p] # "absent" => leaseAge[p] < Timeout
  /\ lockAge' = IF lockBy = Nobody THEN 0 ELSE Older(lockAge)
  /\ leaseAge' = [p \in Proc |-> IF lease[p] = "absent" THEN leaseAge[p]
                                 ELSE Older(leaseAge[p])]
  /\ UNCHANGED <<pc, lockBy, lockText, lease, counting, read, robbed>>

Step(p) ==
  \/ Open(p) \/ Write(p) \/ Judge(p) \/ Sweep(p) \/ Wait(p) \/ Unlock(p)
  \/ Create(p) \/ Fill(p) \/ CountOne(p) \/ Discard(p) \/ TakeShare(p)
  \/ SuiteEnds(p) \/ Leave(p)

Next ==
  \/ \E p \in Proc : _run_suite(p) \/ Step(p) \/ Kill(p) \/ Reuse(p)
  \/ Tick

Spec == Init /\ [][Next]_vars

\* A running process keeps running, a suite ends by its timeout, and time
\* passes.  Nothing makes anyone start a suite, and nobody need be killed.
Fairness == WF_vars(Tick) /\ \A p \in Proc : WF_vars(Step(p))

FairSpec == Spec /\ Fairness

(***************************************************************************)
(* Properties                                                              *)
(***************************************************************************)

\* Past the named lease: the file is created, whatever becomes of it.
Holds(p) ==
  /\ p \in Named
  /\ pc[p] \in {"write", "create", "fill", "count", "discard", "run",
                "leave", "unlock"}

\* Two processes are past the named lease at once (leases.py:117) only if a
\* third removed the file of one of them while it lived: creating the file
\* exclusively is enough, the sweep of the dead is what breaks it.
LeaseExcludes ==
  \A p, q \in Proc : p # q /\ Holds(p) /\ Holds(q) =>
    <<p, "lock">> \in robbed \/ <<q, "lock">> \in robbed

\* Of two suites that run at once at least one counted the other when it
\* took its share (leases.py:18-21), unless the file of one was removed
\* while it lived: both thinking themselves alone takes a removal.
OneSeesTheOther ==
  \A p, q \in Proc : p # q /\ pc[p] = "run" /\ pc[q] = "run" =>
    \/ q \in counted[p] \/ p \in counted[q]
    \/ <<p, "lease">> \in robbed \/ <<q, "lease">> \in robbed

\* A living holder loses the named lock only to a process that never read
\* this owner in it: one that found another owner or none (leases.py:150), or
\* one that had lost its own lock and removes the path as it leaves.
\* Neither the age rule nor the pid rule takes a lock from the living.
ReadHolderKeeps ==
  [][\A p \in Proc : lockBy = p /\ lockBy' # p /\ Alive(p) =>
       \E q \in Proc : /\ pc'[q] # pc[q]
                       /\ \/ q = p
                          \/ pc[q] = "sweep" /\ read[q] # [by |-> p, text |-> TRUE]
                          \/ pc[q] = "unlock" /\ <<q, "lock">> \in robbed]_vars

\* A crash never blocks a name for good (leases.py:120-121): while somebody
\* tries, the lock of a killed process goes away, even when its pid has been
\* given to another program.
CrashNeverBlocks ==
  \A p \in Proc : (~Alive(p) /\ lockBy = p) ~>
    (lockBy # p \/ \A q \in Named : pc[q] \notin {"open", "judge", "sweep", "wait"})

\* Whoever starts a suite gets to run it to its end, or is killed: no waiting
\* for a lease without end while a bounded number of suites is started.
EverySuiteEnds ==
  \A p \in Proc : pc[p] # "idle" ~> pc[p] \in {"done"} \cup Dead

=============================================================================
