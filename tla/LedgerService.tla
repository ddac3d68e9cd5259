--------------------------- MODULE LedgerService ---------------------------
(***************************************************************************)
(* The sources of the ledger service (service.py): operators add, bind and *)
(* remove them over connections that have a thread each, every change is   *)
(* saved so that a restart listens on them again, and the runs a guest     *)
(* starts record the executor bound to the source it connected to.  No     *)
(* lock covers the sources: two changes interleave at every statement, the *)
(* start of the service is one more changer, and it may be killed at any   *)
(* point.  A socket may fail to open and a save to be written: that ends   *)
(* the operator's connection unanswered, or the service that starts.       *)
(***************************************************************************)
EXTENDS Integers, FiniteSets

CONSTANTS
  Source,   \* the names of sources
  Model,    \* the executors an operator binds
  Unbound,  \* no executor bound to a source
  Absent,   \* no such source
  Operator, \* the connections to the admin and the bind socket
  Starter,  \* the main thread, while it starts the service
  Guest,    \* the guests' connections
  MaxOps,   \* bound: requests of operators
  MaxKills, \* bound: kills of the service
  MaxFails  \* bound: sockets and saves that fail

ASSUME ServiceAssumption ==
  /\ Source # {}
  /\ Unbound \notin Model /\ Absent \notin Model \cup {Unbound}
  /\ Starter \notin Operator
  /\ MaxOps \in Nat /\ MaxKills \in Nat /\ MaxFails \in Nat

Changer == Operator \cup {Starter}
Executor == Model \cup {Unbound}
Sources == [Source -> Executor \cup {Absent}]
None == [s \in Source |-> Absent]

VARIABLES
  up,        \* whether the service runs
  executors, \* its sources and their executors
  listeners, \* those it has a listener for
  file,      \* what sources.json holds: a [is, of] record
  partial,   \* and what sources.json.partial does
  pc,        \* where each changer is
  doing,     \* the change: add, bind or remove, of a source, to an executor
  toSave,    \* the sources it found to save
  fd,        \* the file it writes: "none", "partial", "file" or "gone"
  toStart,   \* the sources the start has still to add
  conn,      \* the source a guest's connection came in on, or Absent
  stamp,     \* the executor the run it started last records
  asked,     \* the executors a source may have, by what the operators asked
             \* and were answered (observation)
  unheard,   \* the sources whose socket could not be opened when they were
             \* last added (observation)
  clash,     \* whether two changers were under way at once, or a start was
             \* cut short (observation)
  ops, kills, fails

memory == <<executors, listeners, unheard>>
disk == <<file, partial>>
changer == <<pc, doing, toSave, fd>>
guests == <<conn, stamp>>
counters == <<ops, kills, fails>>
vars == <<up, memory, disk, changer, toStart, guests, asked, clash, counters>>

Where == {"idle", "set", "listen", "pop", "drop", "save", "open", "write", "replace"}
File == [is : {"missing", "empty", "torn"}, of : {None}] \cup [is : {"whole"}, of : Sources]
Bare(is) == [is |-> is, of |-> None]
Whole(sources) == [is |-> "whole", of |-> sources]
Idle == [op |-> "none", name |-> CHOOSE s \in Source : TRUE, to |-> Absent]

TypeOK ==
  /\ up \in BOOLEAN
  /\ executors \in Sources
  /\ listeners \subseteq Source
  /\ file \in File /\ partial \in File
  /\ pc \in [Changer -> Where]
  /\ doing \in [Changer -> [op : {"none", "add", "bind", "remove"},
                            name : Source, to : Executor \cup {Absent}]]
  /\ toSave \in [Changer -> Sources]
  /\ fd \in [Changer -> {"none", "partial", "file", "gone"}]
  /\ \A o \in Changer : fd[o] # "none" => pc[o] = "write"
  /\ toStart \in Sources
  /\ conn \in [Guest -> Source \cup {Absent}]
  /\ stamp \in [Guest -> Executor]
  /\ asked \in [Source -> SUBSET (Executor \cup {Absent})]
  /\ clash \in BOOLEAN
  /\ unheard \subseteq Source /\ unheard \cap listeners = {}
  /\ ~up => listeners = {} /\ executors = None /\ unheard = {}

Init ==
  /\ up = FALSE
  /\ executors = None /\ listeners = {} /\ unheard = {}
  /\ file = Bare("missing") /\ partial = Bare("missing")
  /\ pc = [o \in Changer |-> "idle"]
  /\ doing = [o \in Changer |-> Idle]
  /\ toSave = [o \in Changer |-> None]
  /\ fd = [o \in Changer |-> "none"]
  /\ toStart = None
  /\ conn = [g \in Guest |-> Absent]
  /\ stamp = [g \in Guest |-> Unbound]
  /\ asked = [s \in Source |-> {Absent}]
  /\ clash = FALSE
  /\ ops = 0 /\ kills = 0 /\ fails = 0

Underway(o) == pc[o] # "idle" \/ (o = Starter /\ toStart # None)

Goes(o, to) == pc' = [pc EXCEPT ![o] = to]

(***************************************************************************)
(* The service starts and is killed                                        *)
(***************************************************************************)

\* start: the sockets of the operators, then every source in the file.  A file
\* that is no JSON ends the service.
Start ==
  /\ ~up /\ up' = TRUE
  /\ file.is \in {"missing", "whole"}
  /\ toStart' = file.of
  /\ UNCHANGED <<memory, disk, changer, guests, asked, clash, counters>>

\* Mutant: the executor saved with a source is not bound again.
Restore_unbound(s) ==
  /\ up /\ pc[Starter] = "idle" /\ toStart[s] # Absent
  /\ doing' = [doing EXCEPT ![Starter] = [op |-> "add", name |-> s, to |-> Unbound]]
  /\ toStart' = [toStart EXCEPT ![s] = Absent]
  /\ Goes(Starter, "set")
  /\ UNCHANGED <<up, memory, disk, toSave, fd, guests, asked, clash, counters>>

\* add_source for the next of them, which saves what has been added so far.
Restore(s) ==
  /\ up /\ pc[Starter] = "idle" /\ toStart[s] # Absent
  /\ doing' = [doing EXCEPT ![Starter] = [op |-> "add", name |-> s, to |-> toStart[s]]]
  /\ toStart' = [toStart EXCEPT ![s] = Absent]
  /\ Goes(Starter, "set")
  /\ UNCHANGED <<up, memory, disk, toSave, fd, guests, asked, clash, counters>>

\* The service is gone, and with it everything it had not written.
Ends ==
  /\ up /\ up' = FALSE
  /\ clash' = (clash \/ Underway(Starter))
  /\ executors' = None /\ listeners' = {} /\ unheard' = {}
  /\ pc' = [o \in Changer |-> "idle"]
  /\ fd' = [o \in Changer |-> "none"]
  /\ toStart' = None
  /\ conn' = [g \in Guest |-> Absent]
  /\ UNCHANGED <<doing, toSave, stamp, asked, ops>>

Kill ==
  /\ kills < MaxKills /\ kills' = kills + 1
  /\ Ends
  /\ UNCHANGED <<disk, fails>>

\* A statement of o raises, and leaves deaf without a listener: an operator's
\* connection ends unanswered, and a start ends the service.
Raises(o, deaf) ==
  \/ o = Starter /\ Ends
  \/ /\ o # Starter
     /\ Goes(o, "idle")
     /\ fd' = [fd EXCEPT ![o] = "none"]
     /\ unheard' = unheard \cup deaf
     /\ UNCHANGED <<up, executors, listeners, doing, toSave, toStart, guests, asked, clash, ops>>

(***************************************************************************)
(* A change of the sources                                                 *)
(***************************************************************************)

\* admin: the request is read and its source looked up.
admin(o, op, s, to) ==
  /\ up /\ pc[o] = "idle"
  /\ ops < MaxOps /\ ops' = ops + 1
  /\ op = "add" \/ executors[s] # Absent
  /\ doing' = [doing EXCEPT ![o] = [op |-> op, name |-> s, to |-> to]]
  /\ Goes(o, IF op = "remove" THEN "pop" ELSE "set")
  /\ asked' = [asked EXCEPT ![s] = @ \cup {to}]
  /\ clash' = (clash \/ \E p \in Changer : Underway(p))
  /\ UNCHANGED <<up, memory, disk, toSave, fd, toStart, guests, kills, fails>>

Request(o) ==
  \E s \in Source :
    \/ \E to \in Executor : admin(o, "add", s, to) \/ admin(o, "bind", s, to)
    \/ admin(o, "remove", s, Absent)

\* add_source and bind: the executor is recorded.
SetExecutor(o) ==
  /\ pc[o] = "set"
  /\ executors' = [executors EXCEPT ![doing[o].name] = doing[o].to]
  /\ Goes(o, IF doing[o].op = "add" THEN "listen" ELSE "save")
  /\ UNCHANGED <<up, listeners, unheard, disk, doing, toSave, fd, toStart, guests, asked, clash, counters>>

\* add_source: then the socket is opened.
add_source(o) ==
  /\ pc[o] = "listen"
  /\ listeners' = listeners \cup {doing[o].name}
  /\ unheard' = unheard \ {doing[o].name}
  /\ Goes(o, "save")
  /\ UNCHANGED <<up, executors, disk, doing, toSave, fd, toStart, guests, asked, clash, counters>>

\* It cannot be (no such directory, say): the executor stays recorded, and the
\* listener of an earlier add, if there is one, stays the source's.
ListenFails(o) ==
  /\ pc[o] = "listen"
  /\ fails < MaxFails /\ fails' = fails + 1
  /\ Raises(o, {doing[o].name} \ listeners)
  /\ UNCHANGED <<disk, kills>>

\* remove_source: the listener is taken out and closed; its connections stay.
\* A second remover finds none, and its connection ends unanswered.
remove_source(o) ==
  /\ pc[o] = "pop"
  /\ listeners' = listeners \ {doing[o].name}
  /\ Goes(o, IF doing[o].name \in listeners THEN "drop" ELSE "idle")
  /\ UNCHANGED <<up, executors, unheard, disk, doing, toSave, fd, toStart, guests, asked, clash, counters>>

\* remove_source: the executor goes last.
DropExecutor(o) ==
  /\ pc[o] = "drop"
  /\ executors' = [executors EXCEPT ![doing[o].name] = Absent]
  /\ Goes(o, IF executors[doing[o].name] = Absent THEN "idle" ELSE "save")
  /\ UNCHANGED <<up, listeners, unheard, disk, doing, toSave, fd, toStart, guests, asked, clash, counters>>

(***************************************************************************)
(* _save                                                                   *)
(***************************************************************************)

\* The path to save with a source is its listener's.
HasPath == \A s \in Source : executors[s] # Absent => s \in listeners

Collect(o) ==
  /\ pc[o] = "save"
  /\ HasPath
  /\ toSave' = [toSave EXCEPT ![o] = executors]
  /\ Goes(o, "open")
  /\ UNCHANGED <<up, memory, disk, doing, fd, toStart, guests, asked, clash, counters>>

\* Any source without one makes every save raise.
CollectFails(o) ==
  /\ pc[o] = "save"
  /\ ~HasPath
  /\ Raises(o, {})
  /\ UNCHANGED <<disk, kills, fails>>

\* The partial file is opened: made, or emptied if another has it open too.
OpenPartial(o) ==
  /\ pc[o] = "open"
  /\ partial' = Bare("empty")
  /\ fd' = [fd EXCEPT ![o] = "partial"]
  /\ Goes(o, "write")
  /\ UNCHANGED <<up, memory, file, doing, toSave, toStart, guests, asked, clash, counters>>

\* What a file holds once the sources are written from its beginning: a longer
\* text that was there leaves its end behind.
Written(old, sources) ==
  IF old.is = "empty" \/ old = Whole(sources) THEN {Whole(sources)}
  ELSE {Whole(sources), Bare("torn")}

\* Mutant: the partial file stays open when the write is done.
WritePartial_unclosed(o) ==
  /\ pc[o] = "write"
  /\ Goes(o, "replace")
  /\ IF fd[o] = "partial" THEN partial' \in Written(partial, toSave[o]) ELSE UNCHANGED partial
  /\ IF fd[o] = "file" THEN file' \in Written(file, toSave[o]) ELSE UNCHANGED file
  /\ UNCHANGED <<up, memory, doing, toSave, fd, toStart, guests, asked, clash, counters>>

WritePartial(o) ==
  /\ pc[o] = "write"
  /\ fd' = [fd EXCEPT ![o] = "none"]
  /\ Goes(o, "replace")
  /\ IF fd[o] = "partial" THEN partial' \in Written(partial, toSave[o]) ELSE UNCHANGED partial
  /\ IF fd[o] = "file" THEN file' \in Written(file, toSave[o]) ELSE UNCHANGED file
  /\ UNCHANGED <<up, memory, doing, toSave, toStart, guests, asked, clash, counters>>

\* The partial file cannot be opened, written to its end or renamed.
SaveFails(o) ==
  /\ pc[o] \in {"open", "write", "replace"}
  /\ fails < MaxFails /\ fails' = fails + 1
  /\ Raises(o, {})
  /\ UNCHANGED kills
  /\ partial' = IF fd[o] = "partial" THEN Bare("torn") ELSE partial
  /\ file' = IF fd[o] = "file" THEN Bare("torn") ELSE file

Moved == [partial |-> "file", file |-> "gone", gone |-> "gone", none |-> "none"]

\* Mutant: the answer is sent and the file has not been put in place.
ReplaceFile_kept(o) ==
  /\ pc[o] = "replace"
  /\ Goes(o, "idle")
  /\ asked' = [asked EXCEPT ![doing[o].name] = {doing[o].to}]
  /\ UNCHANGED <<up, memory, disk, doing, toSave, fd, toStart, guests, clash, counters>>

\* The partial file takes the name, whoever wrote it, and the operator is
\* answered.
ReplaceFile(o) ==
  /\ pc[o] = "replace" /\ partial.is # "missing"
  /\ Goes(o, "idle")
  /\ file' = partial /\ partial' = Bare("missing")
  /\ fd' = [p \in Changer |-> Moved[fd[p]]]
  /\ asked' = IF o = Starter THEN asked
              ELSE [asked EXCEPT ![doing[o].name] = {doing[o].to}]
  /\ UNCHANGED <<up, memory, doing, toSave, toStart, guests, clash, counters>>

\* Another has taken it already.
ReplaceFails(o) ==
  /\ pc[o] = "replace" /\ partial.is = "missing"
  /\ Raises(o, {})
  /\ UNCHANGED <<disk, kills, fails>>

(***************************************************************************)
(* A guest                                                                 *)
(***************************************************************************)

Connect(g, s) ==
  /\ conn[g] = Absent /\ s \in listeners
  /\ conn' = [conn EXCEPT ![g] = s]
  /\ UNCHANGED <<up, memory, disk, changer, toStart, stamp, asked, clash, counters>>

\* start_run and abandon_run record the executor bound to the source, else the
\* guest's own word.  A connection outlives the removal of its source.
_stamp_executor(g) ==
  /\ conn[g] # Absent
  /\ stamp' = [stamp EXCEPT ![g] = IF executors[conn[g]] = Absent THEN Unbound
                                   ELSE executors[conn[g]]]
  /\ UNCHANGED <<up, memory, disk, changer, toStart, conn, asked, clash, counters>>

Next ==
  \/ Start \/ Kill
  \/ \E s \in Source : Restore(s)
  \/ \E o \in Operator : Request(o)
  \/ \E o \in Changer :
       \/ SetExecutor(o) \/ add_source(o) \/ remove_source(o) \/ DropExecutor(o)
       \/ Collect(o) \/ OpenPartial(o) \/ WritePartial(o) \/ ReplaceFile(o)
       \/ ListenFails(o) \/ CollectFails(o) \/ SaveFails(o) \/ ReplaceFails(o)
  \/ \E g \in Guest : _stamp_executor(g) \/ \E s \in Source : Connect(g, s)

Spec == Init /\ [][Next]_vars

(***************************************************************************)
(* Properties                                                              *)
(***************************************************************************)

\* Whenever nothing is under way the service listens on exactly the sources
\* the operators were last answered for, with those executors, however often
\* it was killed and started in between: unless two changes ever overlapped
\* or a start was cut short.  (Where no answer came the change may have been
\* made or not.)  A source whose socket could not be opened
\* (service.py:465-466) is the one that may have an executor and no listener.
AcknowledgedHolds ==
  (up /\ ~clash /\ \A o \in Changer : ~Underway(o)) =>
    \A s \in Source : executors[s] \in asked[s] /\ (s \in listeners <=> executors[s] # Absent /\ s \notin unheard)

\* What a guest's run records is the executor the operators bound to its
\* source, also over a connection it made while the service was starting
\* again, under the same exceptions.
RunsRecordTheBinding ==
  [][\A g \in Guest, m \in Model :
       (~clash /\ _stamp_executor(g) /\ asked[conn[g]] = {m}) => stamp'[g] = m]_vars
=============================================================================
