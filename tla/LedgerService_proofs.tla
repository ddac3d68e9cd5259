----------------------- MODULE LedgerService_proofs -----------------------
(***************************************************************************)
(* Theorems about LedgerService, for any number of operators, sources,     *)
(* guests, requests and kills.  While no two changes overlap and no start  *)
(* is cut short, one changer at most is under way, what it has done so far *)
(* follows from where it is, and the file holds what a start may restore.  *)
(***************************************************************************)
EXTENDS LedgerService, TLAPS

-----------------------------------------------------------------------------
(* Types.                                                                  *)

LEMMA NoneType == None \in Sources
  BY DEF None, Sources

LEMMA BareType ==
    ASSUME NEW is \in {"missing", "empty", "torn"}
    PROVE  Bare(is) \in File
  BY DEF Bare, File

LEMMA WholeType ==
    ASSUME NEW sources \in Sources
    PROVE  Whole(sources) \in File
  BY DEF Whole, File

LEMMA FileOfType ==
    ASSUME NEW f \in File
    PROVE  f.of \in Sources
  BY NoneType DEF File

LEMMA WrittenType ==
    ASSUME NEW sources \in Sources, NEW old, NEW f \in Written(old, sources)
    PROVE  f \in File
  BY WholeType, BareType DEF Written

LEMMA IdleType ==
  Idle \in [op : {"none", "add", "bind", "remove"}, name : Source, to : Executor \cup {Absent}]
  <1>1. (CHOOSE s \in Source : TRUE) \in Source
    BY ServiceAssumption
  <1> QED
    BY <1>1 DEF Idle

\* A step of o to a place where it has no file open.
LEMMA GoesType ==
    ASSUME TypeOK, NEW o \in Changer, NEW to \in Where, Goes(o, to), fd[o] = "none", fd' = fd
    PROVE  /\ pc' \in [Changer -> Where]
           /\ fd' \in [Changer -> {"none", "partial", "file", "gone"}]
           /\ \A p \in Changer : fd'[p] # "none" => pc'[p] = "write"
  BY DEF TypeOK, Goes

LEMMA TypeInit == Init => TypeOK
  <1> SUFFICES ASSUME Init PROVE TypeOK
    OBVIOUS
  <1>1. file \in File /\ partial \in File /\ executors \in Sources
    BY NoneType, BareType DEF Init
  <1>2. doing \in [Changer -> [op : {"none", "add", "bind", "remove"},
                               name : Source, to : Executor \cup {Absent}]]
    BY IdleType DEF Init
  <1>3. pc \in [Changer -> Where] /\ toSave \in [Changer -> Sources] /\ toStart \in Sources
    BY NoneType DEF Init, Where
  <1> QED
    BY <1>1, <1>2, <1>3, ServiceAssumption DEF Init, TypeOK, Executor

LEMMA TypeStart == TypeOK /\ Start => TypeOK'
  <1> SUFFICES ASSUME TypeOK, Start PROVE TypeOK'
    OBVIOUS
  <1>1. toStart' \in Sources
    BY FileOfType DEF TypeOK, Start
  <1> QED
    BY <1>1 DEF TypeOK, Start, memory, disk, changer, guests, counters

LEMMA TypeEnds ==
    ASSUME TypeOK, Ends, file' \in File, partial' \in File
    PROVE  TypeOK'
  BY NoneType DEF TypeOK, Ends, Where, Underway

LEMMA TypeKill == TypeOK /\ Kill => TypeOK'
  BY TypeEnds DEF TypeOK, Kill, disk

LEMMA TypeRestore ==
    ASSUME TypeOK, NEW s \in Source, Restore(s)
    PROVE  TypeOK'
  <1>1. Starter \in Changer /\ fd[Starter] = "none"
    BY DEF TypeOK, Restore, Changer
  <1>2. toStart[s] \in Executor \cup {Absent}
    BY DEF TypeOK, Sources
  <1>3. toStart' \in Sources
    BY DEF TypeOK, Restore, Sources
  <1>4. doing' \in [Changer -> [op : {"none", "add", "bind", "remove"},
                                name : Source, to : Executor \cup {Absent}]]
    BY <1>1, <1>2 DEF TypeOK, Restore
  <1>5. Goes(Starter, "set") /\ "set" \in Where /\ fd' = fd
    BY DEF Restore, Where
  <1> QED
    BY <1>1, <1>3, <1>4, <1>5, GoesType DEF TypeOK, Restore, memory, disk, guests, counters

LEMMA TypeAdmin ==
    ASSUME TypeOK, NEW o \in Operator, NEW op \in {"add", "bind", "remove"}, NEW s \in Source,
           NEW to \in Executor \cup {Absent}, admin(o, op, s, to)
    PROVE  TypeOK'
  <1>1. o \in Changer /\ fd[o] = "none"
    BY DEF TypeOK, admin, Changer
  <1>2. doing' \in [Changer -> [op : {"none", "add", "bind", "remove"},
                                name : Source, to : Executor \cup {Absent}]]
    BY <1>1 DEF TypeOK, admin
  <1>3. Goes(o, IF op = "remove" THEN "pop" ELSE "set") /\ {"pop", "set"} \subseteq Where /\ fd' = fd
    BY DEF admin, Where
  <1>4. asked' \in [Source -> SUBSET (Executor \cup {Absent})]
    BY DEF TypeOK, admin
  <1>5. clash' \in BOOLEAN
    BY DEF TypeOK, admin, Underway
  <1> QED
    BY <1>1, <1>2, <1>3, <1>4, <1>5, GoesType DEF TypeOK, admin, memory, disk, guests

\* The statements of a change and of a save.
Changes(o) ==
  \/ SetExecutor(o) \/ add_source(o) \/ remove_source(o) \/ DropExecutor(o)
  \/ Collect(o) \/ OpenPartial(o) \/ WritePartial(o) \/ ReplaceFile(o)

\* Whoever is at a statement finds the service up.
Down ==
  ~up => /\ \A o \in Changer : pc[o] = "idle"
         /\ toStart = None
         /\ \A g \in Guest : conn[g] = Absent

LEMMA TypeChanges ==
    ASSUME TypeOK, Down, NEW o \in Changer, Changes(o)
    PROVE  TypeOK'
  <1>1. UNCHANGED <<up, doing, toStart, guests, clash, counters>> /\ pc[o] # "idle"
    BY DEF Changes, SetExecutor, add_source, remove_source, DropExecutor, Collect, OpenPartial,
           WritePartial, ReplaceFile
  <1>2. up
    BY <1>1 DEF Down
  <1>3. /\ executors' \in Sources /\ listeners' \subseteq Source
        /\ unheard' \subseteq Source /\ unheard' \cap listeners' = {}
    <2>1. doing[o].name \in Source /\ doing[o].to \in Executor \cup {Absent}
      BY DEF TypeOK
    <2> QED
      BY <2>1 DEF TypeOK, Sources, Changes, SetExecutor, add_source, remove_source, DropExecutor,
             Collect, OpenPartial, WritePartial, ReplaceFile, memory
  <1>4. file' \in File /\ partial' \in File
    <2>1. CASE WritePartial(o)
      <3>1. toSave[o] \in Sources
        BY DEF TypeOK
      <3> QED
        BY <2>1, <3>1, WrittenType DEF TypeOK, WritePartial
    <2>2. CASE ~WritePartial(o)
      BY <2>2, BareType DEF TypeOK, Changes, SetExecutor, add_source, remove_source, DropExecutor,
             Collect, OpenPartial, ReplaceFile, disk
    <2> QED
      BY <2>1, <2>2
  <1>5. toSave' \in [Changer -> Sources]
    BY DEF TypeOK, Changes, SetExecutor, add_source, remove_source, DropExecutor,
           Collect, OpenPartial, WritePartial, ReplaceFile
  <1>6. asked' \in [Source -> SUBSET (Executor \cup {Absent})]
    <2>1. doing[o].name \in Source /\ doing[o].to \in Executor \cup {Absent}
      BY DEF TypeOK
    <2> QED
      BY <2>1 DEF TypeOK, Changes, SetExecutor, add_source, remove_source, DropExecutor,
             Collect, OpenPartial, WritePartial, ReplaceFile
  <1>7. pc' \in [Changer -> Where]
    BY DEF TypeOK, Where, Goes, Changes, SetExecutor, add_source, remove_source, DropExecutor,
           Collect, OpenPartial, WritePartial, ReplaceFile
  <1>8. /\ fd' \in [Changer -> {"none", "partial", "file", "gone"}]
        /\ \A p \in Changer : fd'[p] # "none" => pc'[p] = "write"
    <2>1. CASE ReplaceFile(o)
      BY <2>1 DEF TypeOK, ReplaceFile, Goes, Moved
    <2>2. CASE WritePartial(o)
      BY <2>2 DEF TypeOK, WritePartial, Goes
    <2>3. CASE OpenPartial(o)
      BY <2>3 DEF TypeOK, OpenPartial, Goes
    <2>4. CASE SetExecutor(o) \/ add_source(o) \/ remove_source(o) \/ DropExecutor(o) \/ Collect(o)
      BY <2>4 DEF TypeOK, Goes, SetExecutor, add_source, remove_source, DropExecutor, Collect
    <2> QED
      BY <2>1, <2>2, <2>3, <2>4 DEF Changes
  <1> QED
    BY <1>1, <1>2, <1>3, <1>4, <1>5, <1>6, <1>7, <1>8 DEF TypeOK, guests

\* The statements that raise.
Fails(o) == ListenFails(o) \/ CollectFails(o) \/ SaveFails(o) \/ ReplaceFails(o)

\* Each raises where it stands, and can spoil only the files.
LEMMA FailsRaise ==
    ASSUME NEW o \in Changer, Fails(o)
    PROVE  \E deaf \in SUBSET ({doing[o].name} \ listeners) :
             /\ Raises(o, deaf)
             /\ pc[o] = "listen" => deaf = {doing[o].name} \ listeners
             /\ pc[o] \in {"listen", "save", "open", "write", "replace"}
  BY DEF Fails, ListenFails, CollectFails, SaveFails, ReplaceFails

LEMMA FailsFiles ==
    ASSUME TypeOK, NEW o \in Changer, Fails(o)
    PROVE  /\ file' \in File /\ partial' \in File
           /\ fd[o] # "file" => file' = file
  <1>1. Bare("torn") \in File
    BY BareType
  <1> QED
    BY <1>1 DEF TypeOK, Fails, ListenFails, CollectFails, SaveFails, ReplaceFails, disk

LEMMA TypeFails ==
    ASSUME TypeOK, Down, NEW o \in Changer, Fails(o)
    PROVE  TypeOK'
  <1>1. PICK deaf \in SUBSET ({doing[o].name} \ listeners) :
          Raises(o, deaf) /\ pc[o] \in {"listen", "save", "open", "write", "replace"}
    BY FailsRaise
  <1>2. file' \in File /\ partial' \in File
    BY FailsFiles
  <1>3. CASE Ends
    BY <1>2, <1>3, TypeEnds
  <1>4. CASE ~Ends
    <2>1. /\ pc' = [pc EXCEPT ![o] = "idle"]
          /\ fd' = [fd EXCEPT ![o] = "none"]
          /\ unheard' = unheard \cup deaf
          /\ UNCHANGED <<up, executors, listeners, doing, toSave, toStart, conn, stamp, asked, clash>>
      BY <1>1, <1>4 DEF Raises, Goes, guests
    <2>2. doing[o].name \in Source
      BY DEF TypeOK
    <2>3. up
      BY <1>1 DEF Down
    <2>4. unheard' \subseteq Source /\ unheard' \cap listeners' = {}
      BY <2>1, <2>2 DEF TypeOK
    <2>5. /\ pc' \in [Changer -> Where]
          /\ fd' \in [Changer -> {"none", "partial", "file", "gone"}]
          /\ \A p \in Changer : fd'[p] # "none" => pc'[p] = "write"
      BY <2>1 DEF TypeOK, Where
    <2> QED
      BY <1>2, <2>1, <2>3, <2>4, <2>5 DEF TypeOK
  <1> QED
    BY <1>3, <1>4

LEMMA TypeGuest ==
    ASSUME TypeOK, NEW g \in Guest, _stamp_executor(g) \/ \E s \in Source : Connect(g, s)
    PROVE  TypeOK'
  <1>1. UNCHANGED <<up, memory, disk, changer, toStart, asked, clash, counters>>
    BY DEF _stamp_executor, Connect
  <1>2. conn' \in [Guest -> Source \cup {Absent}]
    BY DEF TypeOK, _stamp_executor, Connect
  <1>3. stamp' \in [Guest -> Executor]
    <2>1. CASE _stamp_executor(g)
      <3>1. conn[g] \in Source
        BY <2>1 DEF TypeOK, _stamp_executor
      <3>2. executors[conn[g]] \in Executor \cup {Absent} /\ Unbound \in Executor
        BY <3>1 DEF TypeOK, Sources, Executor
      <3> QED
        BY <2>1, <3>2 DEF TypeOK, _stamp_executor
    <2>2. CASE \E s \in Source : Connect(g, s)
      BY <2>2 DEF TypeOK, Connect
    <2> QED
      BY <2>1, <2>2
  <1> QED
    BY <1>1, <1>2, <1>3 DEF TypeOK, memory, disk, changer

LEMMA RequestIsAdmin ==
    ASSUME NEW o, Request(o)
    PROVE  \E s \in Source, op \in {"add", "bind", "remove"}, to \in Executor \cup {Absent} :
             /\ admin(o, op, s, to)
             /\ op = "remove" <=> to = Absent
  BY ServiceAssumption DEF Request, Executor

LEMMA DownStep == TypeOK /\ Down /\ [Next]_vars => Down'
  <1> SUFFICES ASSUME TypeOK, Down, [Next]_vars PROVE Down'
    OBVIOUS
  <1>1. CASE Start
    BY <1>1 DEF Down, Start
  <1>2. CASE Kill
    BY <1>2 DEF Down, Kill, Ends
  <1>3. CASE \E s \in Source : Restore(s)
    BY <1>3 DEF Down, Restore
  <1>4. CASE \E o \in Operator : Request(o)
    BY <1>4, RequestIsAdmin DEF Down, admin
  <1>5. ASSUME NEW o \in Changer, Changes(o) PROVE Down'
    <2>1. up' = up /\ pc[o] # "idle"
      BY <1>5 DEF Changes, SetExecutor, add_source, remove_source, DropExecutor, Collect, OpenPartial,
             WritePartial, ReplaceFile
    <2> QED
      BY <2>1 DEF Down
  <1>6. CASE \E g \in Guest : _stamp_executor(g) \/ \E s \in Source : Connect(g, s)
    BY <1>6 DEF Down, TypeOK, _stamp_executor, Connect, changer
  <1>7. CASE UNCHANGED vars
    BY <1>7 DEF Down, vars, changer, guests
  <1>8. ASSUME NEW o \in Changer, Fails(o) PROVE Down'
    <2>1. CASE Ends
      BY <2>1 DEF Down, Ends
    <2>2. CASE ~Ends
      <3>1. up' = up /\ pc[o] # "idle"
        BY <1>8, <2>2, FailsRaise DEF Raises
      <3> QED
        BY <3>1 DEF Down
    <2> QED
      BY <2>1, <2>2
  <1> QED
    BY <1>1, <1>2, <1>3, <1>4, <1>5, <1>6, <1>7, <1>8 DEF Next, Changes, Fails

LEMMA TypeStep == TypeOK /\ Down /\ [Next]_vars => TypeOK'
  <1> SUFFICES ASSUME TypeOK, Down, [Next]_vars PROVE TypeOK'
    OBVIOUS
  <1>1. CASE Start
    BY <1>1, TypeStart
  <1>2. CASE Kill
    BY <1>2, TypeKill
  <1>3. CASE \E s \in Source : Restore(s)
    BY <1>3, TypeRestore
  <1>4. CASE \E o \in Operator : Request(o)
    BY <1>4, RequestIsAdmin, TypeAdmin
  <1>5. ASSUME NEW o \in Changer, Changes(o) PROVE TypeOK'
    BY <1>5, TypeChanges
  <1>6. CASE \E g \in Guest : _stamp_executor(g) \/ \E s \in Source : Connect(g, s)
    BY <1>6, TypeGuest
  <1>7. CASE UNCHANGED vars
    BY <1>7 DEF TypeOK, vars, memory, disk, changer, guests
  <1>8. ASSUME NEW o \in Changer, Fails(o) PROVE TypeOK'
    BY <1>8, TypeFails
  <1> QED
    BY <1>1, <1>2, <1>3, <1>4, <1>5, <1>6, <1>7, <1>8 DEF Next, Changes, Fails

LEMMA DownInit == Init => Down
  BY DEF Init, Down

\* Every variable of the service keeps its type, and nothing is under way in a
\* service that does not run.
THEOREM TypeCorrect == Spec => []TypeOK
  <1>1. TypeOK /\ Down /\ [Next]_vars => TypeOK' /\ Down'
    BY TypeStep, DownStep
  <1> QED
    BY <1>1, TypeInit, DownInit, PTL DEF Spec

-----------------------------------------------------------------------------
(* While changes stay apart.                                               *)

\* A source of the file that the start has not added yet.
Unrestored(s) == toStart[s] # Absent \/ (pc[Starter] = "set" /\ doing[Starter].name = s)

Alone == \A o, p \in Changer : Underway(o) /\ Underway(p) => o = p

\* What a changer has done follows from where it is.
Placed(o) ==
  LET s == doing[o].name
      to == doing[o].to
  IN /\ to \in asked[s] /\ toStart[s] = Absent
     /\ o = Starter => pc[o] \notin {"pop", "drop"}
     /\ pc[o] = "set" => to # Absent /\ (o # Starter /\ doing[o].op # "add" => executors[s] # Absent)
     /\ pc[o] = "set" /\ o = Starter => doing[o].op = "add"
     /\ pc[o] \in {"listen", "save", "open", "write", "replace"} => executors[s] = to
     /\ pc[o] = "listen" => to # Absent
     /\ pc[o] \in {"pop", "drop"} => to = Absent /\ executors[s] # Absent
     /\ pc[o] = "drop" => s \notin listeners
     /\ pc[o] \in {"open", "write", "replace"} => toSave[o] = executors
     /\ pc[o] = "write" => fd[o] = "partial" /\ partial = Bare("empty")
     /\ pc[o] = "replace" => partial = Whole(toSave[o])

\* A source has what was asked for, or waits for the start to add it.
Kept(s) ==
  IF Unrestored(s)
  THEN executors[s] = Absent /\ s \notin listeners /\ (toStart[s] # Absent => toStart[s] \in asked[s])
  ELSE up => executors[s] \in asked[s]

\* It has a listener, unless its socket could not be opened.
Sound(s) == s \in listeners <=> executors[s] # Absent /\ s \notin unheard

\* Or it is being given or losing one.
Heard(s) ==
  \/ Sound(s)
  \/ \E o \in Changer : pc[o] \in {"listen", "drop"} /\ doing[o].name = s

Orderly ==
  /\ Alone
  /\ \A o \in Changer : pc[o] # "idle" => Placed(o)
  /\ \A s \in Source : Kept(s) /\ Heard(s)
  /\ ~Underway(Starter) => \A s \in Source : file.of[s] \in asked[s]
  /\ \A g \in Guest : conn[g] # Absent => ~Unrestored(conn[g])

ServiceInv == TypeOK /\ Down /\ (~clash => Orderly)

LEMMA OrderInit == Init => ServiceInv
  <1> SUFFICES ASSUME Init PROVE ServiceInv
    OBVIOUS
  <1>1. Orderly
    BY DEF Init, Orderly, Alone, Placed, Kept, Heard, Sound, Unrestored, Underway, None, Bare, Changer
  <1> QED
    BY <1>1, TypeInit, DownInit DEF ServiceInv

LEMMA OrderStart ==
    ASSUME ServiceInv, ~clash, Start
    PROVE  Orderly'
  <1>1. /\ \A o \in Changer : pc[o] = "idle"
        /\ \A s \in Source : toStart[s] = Absent /\ executors[s] = Absent /\ s \notin listeners
        /\ \A g \in Guest : conn[g] = Absent
        /\ Starter \in Changer
    BY DEF ServiceInv, Down, TypeOK, Start, None, Changer
  <1>2. UNCHANGED <<executors, listeners, unheard, file, partial, pc, doing, toSave, fd, conn, asked>> /\ toStart' = file.of
    BY DEF Start, memory, disk, changer, guests
  <1>3. ~Underway(Starter) /\ \A s \in Source : file.of[s] \in asked[s]
    BY <1>1 DEF ServiceInv, Orderly, Underway, Down, Start
  <1>4. Alone'
    BY <1>1, <1>2 DEF Alone, Underway
  <1>5. \A s \in Source : Kept(s)' /\ Heard(s)'
    BY <1>1, <1>2, <1>3 DEF Kept, Heard, Sound, Unrestored
  <1> QED
    BY <1>1, <1>2, <1>3, <1>4, <1>5 DEF Orderly

LEMMA OrderKill ==
    ASSUME ServiceInv, ~clash', Kill
    PROVE  Orderly'
  <1>1. ~clash /\ ~Underway(Starter)
    BY DEF Kill, Ends
  <1>2. /\ \A o \in Changer : pc'[o] = "idle"
        /\ \A s \in Source : toStart'[s] = Absent /\ executors'[s] = Absent /\ s \notin listeners'
        /\ \A g \in Guest : conn'[g] = Absent
        /\ toStart' = None /\ ~up'
    BY DEF Kill, Ends, None
  <1>3. \A s \in Source : file'.of[s] \in asked'[s]
    BY <1>1 DEF Kill, Ends, disk, ServiceInv, Orderly
  <1>4. Starter \in Changer
    BY DEF Changer
  <1> QED
    BY <1>2, <1>3, <1>4 DEF Orderly, Alone, Kept, Heard, Sound, Unrestored, Underway

LEMMA OrderRestore ==
    ASSUME ServiceInv, ~clash, NEW s \in Source, Restore(s)
    PROVE  Orderly'
  <1>1. Starter \in Changer /\ Underway(Starter)
    BY NoneType DEF Changer, Restore, Underway, None
  <1>2. \A o \in Changer \ {Starter} : ~Underway(o) /\ pc[o] = "idle"
    BY <1>1 DEF ServiceInv, Orderly, Alone, Underway
  <1>3. /\ UNCHANGED <<up, executors, listeners, unheard, file, partial, toSave, fd, conn, asked>>
        /\ pc[Starter] = "idle" /\ toStart[s] # Absent
        /\ toStart' = [toStart EXCEPT ![s] = Absent]
        /\ pc' = [pc EXCEPT ![Starter] = "set"]
        /\ doing' = [doing EXCEPT ![Starter] = [op |-> "add", name |-> s, to |-> toStart[s]]]
    BY DEF Restore, Goes, memory, disk, guests
  <1>4. /\ pc'[Starter] = "set" /\ doing'[Starter].op = "add" /\ doing'[Starter].name = s
        /\ doing'[Starter].to = toStart[s]
        /\ \A o \in Changer \ {Starter} : pc'[o] = "idle"
        /\ toStart'[s] = Absent /\ \A x \in Source \ {s} : toStart'[x] = toStart[x]
    BY <1>1, <1>2, <1>3 DEF ServiceInv, TypeOK, Sources
  <1>5. Unrestored(s) /\ Unrestored(s)' /\ \A x \in Source \ {s} : Unrestored(x)' <=> Unrestored(x)
    BY <1>3, <1>4 DEF Unrestored
  <1>6. toStart[s] \in asked[s] /\ executors[s] = Absent
    BY <1>3, <1>5 DEF ServiceInv, Orderly, Kept
  <1>7. Alone'
    BY <1>4 DEF Alone, Underway
  <1>8. \A o \in Changer : pc'[o] # "idle" => Placed(o)'
    BY <1>3, <1>4, <1>6 DEF Placed
  <1>9. \A x \in Source : Kept(x)'
    BY <1>3, <1>4, <1>5 DEF ServiceInv, Orderly, Kept
  <1>10. \A x \in Source : Heard(x)'
    <2>1. \A x \in Source : Sound(x)
      BY <1>2, <1>3 DEF ServiceInv, Orderly, Heard
    <2> QED
      BY <1>3, <2>1 DEF Heard, Sound
  <1>11. Underway(Starter)'
    BY <1>4 DEF Underway
  <1>12. \A g \in Guest : conn'[g] # Absent => ~Unrestored(conn[g])'
    BY <1>3, <1>5 DEF ServiceInv, Orderly, TypeOK
  <1> QED
    BY <1>3, <1>7, <1>8, <1>9, <1>10, <1>11, <1>12 DEF Orderly

\* A request that starts while nothing is under way.
LEMMA OrderAdmin ==
    ASSUME ServiceInv, ~clash', NEW o \in Operator, NEW s \in Source,
           NEW op \in {"add", "bind", "remove"}, NEW to \in Executor \cup {Absent},
           admin(o, op, s, to), op = "remove" <=> to = Absent
    PROVE  Orderly'
  <1>1. ~clash /\ \A p \in Changer : ~Underway(p) /\ pc[p] = "idle"
    BY DEF admin, Underway
  <1>2. o \in Changer /\ Starter \in Changer /\ o # Starter
    BY ServiceAssumption DEF Changer
  <1>3. /\ UNCHANGED <<up, executors, listeners, unheard, file, partial, toSave, fd, toStart, conn>>
        /\ pc' = [pc EXCEPT ![o] = IF op = "remove" THEN "pop" ELSE "set"]
        /\ doing' = [doing EXCEPT ![o] = [op |-> op, name |-> s, to |-> to]]
        /\ asked' = [asked EXCEPT ![s] = @ \cup {to}]
        /\ op = "add" \/ executors[s] # Absent
    BY DEF admin, Goes, memory, disk, guests
  <1>4. /\ pc'[o] = IF op = "remove" THEN "pop" ELSE "set"
        /\ doing'[o].op = op /\ doing'[o].name = s /\ doing'[o].to = to
        /\ \A p \in Changer \ {o} : pc'[p] = "idle"
        /\ to \in asked'[s] /\ \A x \in Source : asked[x] \subseteq asked'[x]
    BY <1>1, <1>2, <1>3 DEF ServiceInv, TypeOK
  <1>5. toStart = None /\ \A x \in Source : toStart[x] = Absent
    BY <1>1, <1>2 DEF Underway, None
  <1>6. \A x \in Source : ~Unrestored(x) /\ ~Unrestored(x)'
    BY <1>1, <1>2, <1>3, <1>4, <1>5 DEF Unrestored
  <1>7. Alone' /\ ~Underway(Starter)'
    BY <1>2, <1>3, <1>4, <1>5 DEF Alone, Underway
  <1>8. \A p \in Changer : pc'[p] # "idle" => Placed(p)'
    BY <1>2, <1>3, <1>4, <1>5 DEF Placed
  <1>9. \A x \in Source : Kept(x)'
    BY <1>1, <1>3, <1>4, <1>6 DEF ServiceInv, Orderly, Kept
  <1>10. \A x \in Source : Heard(x)'
    BY <1>1, <1>3 DEF ServiceInv, Orderly, Heard, Sound
  <1>11. \A x \in Source : file'.of[x] \in asked'[x]
    BY <1>1, <1>2, <1>3, <1>4 DEF ServiceInv, Orderly
  <1>12. \A g \in Guest : conn'[g] # Absent => ~Unrestored(conn[g])'
    BY <1>3, <1>6 DEF ServiceInv, TypeOK
  <1> QED
    BY <1>7, <1>8, <1>9, <1>10, <1>11, <1>12 DEF Orderly

\* What a statement of o leaves alone, and that o alone is under way.
LEMMA ChangesAlone ==
    ASSUME ServiceInv, ~clash, NEW o \in Changer, Changes(o)
    PROVE  /\ UNCHANGED <<up, doing, toStart, conn, clash>>
           /\ up /\ pc[o] # "idle" /\ Underway(o) /\ Placed(o)
           /\ doing[o].name \in Source
           /\ \A p \in Changer \ {o} : ~Underway(p) /\ pc[p] = "idle" /\ pc'[p] = "idle" /\ ~Underway(p)'
           /\ o # Starter => \A x \in Source : ~Unrestored(x) /\ ~Unrestored(x)'
  <1>1. /\ UNCHANGED <<up, doing, toStart, conn, clash>> /\ pc[o] # "idle"
        /\ \A p \in Changer \ {o} : pc'[p] = pc[p]
    BY DEF Changes, SetExecutor, add_source, remove_source, DropExecutor, Collect, OpenPartial,
           WritePartial, ReplaceFile, Goes, guests, ServiceInv, TypeOK
  <1>2. up
    BY <1>1 DEF ServiceInv, Down
  <1>3. Underway(o) /\ \A p \in Changer \ {o} : ~Underway(p)
    BY <1>1 DEF Underway, ServiceInv, Orderly, Alone
  <1>4. \A p \in Changer \ {o} : pc[p] = "idle" /\ pc'[p] = "idle" /\ ~Underway(p)'
    BY <1>1, <1>3 DEF Underway
  <1>5. ASSUME o # Starter, NEW x \in Source PROVE ~Unrestored(x) /\ ~Unrestored(x)'
    <2>1. Starter \in Changer \ {o}
      BY <1>5 DEF Changer
    <2> QED
      BY <1>1, <1>3, <1>4, <2>1 DEF Unrestored, Underway, None
  <1>6. Placed(o) /\ doing[o].name \in Source
    BY <1>1 DEF ServiceInv, Orderly, TypeOK
  <1> QED
    BY <1>1, <1>2, <1>3, <1>4, <1>5, <1>6

\* What is left to show of such a statement.
LEMMA ChangesOrder ==
    ASSUME ServiceInv, ~clash, NEW o \in Changer, Changes(o),
           pc'[o] # "idle" => Placed(o)',
           \A s \in Source : Kept(s)' /\ Heard(s)',
           \A s \in Source : Unrestored(s)' => Unrestored(s),
           ~Underway(Starter)' => \A s \in Source : file'.of[s] \in asked'[s]
    PROVE  Orderly'
  <1>1. Alone'
    BY ChangesAlone DEF Alone
  <1>2. \A p \in Changer : pc'[p] # "idle" => Placed(p)'
    BY ChangesAlone
  <1>3. \A g \in Guest : conn'[g] # Absent => ~Unrestored(conn[g])'
    BY ChangesAlone DEF ServiceInv, Orderly, TypeOK
  <1> QED
    BY <1>1, <1>2, <1>3 DEF Orderly

\* A statement before the file is put in place changes nothing of it.
LEMMA FileStays ==
    ASSUME ServiceInv, ~clash, NEW o \in Changer, Changes(o), o = Starter => pc'[o] # "idle",
           file' = file, asked' = asked
    PROVE  ~Underway(Starter)' => \A s \in Source : file'.of[s] \in asked'[s]
  <1>1. CASE o = Starter
    BY <1>1 DEF Underway
  <1>2. CASE o # Starter
    <2>1. Starter \in Changer \ {o}
      BY <1>2 DEF Changer
    <2>2. ~Underway(Starter)
      BY <2>1, ChangesAlone
    <2> QED
      BY <2>2 DEF ServiceInv, Orderly
  <1> QED
    BY <1>1, <1>2

LEMMA OrderSet ==
    ASSUME ServiceInv, ~clash, NEW o \in Changer, SetExecutor(o)
    PROVE  Orderly'
  <1> DEFINE n == doing[o].name
  <1>1. Changes(o)
    BY DEF Changes
  <1>2. /\ pc[o] = "set" /\ pc' = [pc EXCEPT ![o] = IF doing[o].op = "add" THEN "listen" ELSE "save"]
        /\ executors' = [executors EXCEPT ![n] = doing[o].to]
        /\ UNCHANGED <<up, listeners, unheard, file, partial, doing, toSave, fd, toStart, conn, asked, clash>>
    BY DEF SetExecutor, Goes, disk, guests
  <1>3. /\ n \in Source /\ Placed(o)
        /\ \A p \in Changer \ {o} : pc[p] = "idle" /\ pc'[p] = "idle"
    BY <1>1, ChangesAlone
  <1>4. /\ executors'[n] = doing[o].to /\ \A x \in Source \ {n} : executors'[x] = executors[x]
        /\ pc'[o] = IF doing[o].op = "add" THEN "listen" ELSE "save"
    BY <1>2, <1>3 DEF ServiceInv, TypeOK, Sources
  <1>5. doing[o].to \in asked[n] /\ doing[o].to # Absent /\ toStart[n] = Absent
    BY <1>2, <1>3 DEF Placed
  <1>6. Placed(o)'
    BY <1>2, <1>3, <1>4 DEF Placed
  <1>7. ~Unrestored(n)' /\ \A x \in Source : Unrestored(x)' => Unrestored(x)
    BY <1>2, <1>3, <1>4, <1>5 DEF Unrestored, Changer
  <1>8. \A x \in Source \ {n} : Unrestored(x) => Unrestored(x)'
    BY <1>2, <1>3, <1>4 DEF Unrestored, Changer
  <1>9. \A x \in Source : Kept(x)'
    <2>1. \A x \in Source : x = n => Kept(x)'
      BY <1>2, <1>4, <1>5, <1>7 DEF Kept
    <2>2. \A x \in Source \ {n} : Kept(x)'
      BY <1>2, <1>4, <1>7, <1>8 DEF Kept, ServiceInv, Orderly
    <2> QED
      BY <2>1, <2>2
  <1>10. \A x \in Source : Sound(x)
    BY <1>2, <1>3 DEF ServiceInv, Orderly, Heard
  <1>11. \A x \in Source : Heard(x)'
    <2>1. \A x \in Source : x = n => Heard(x)'
      <3>1. CASE doing[o].op = "add"
        BY <1>2, <1>4, <3>1 DEF Heard
      <3>2. CASE doing[o].op # "add"
        <4>1. executors[n] # Absent
          BY <1>2, <1>3, <3>2 DEF Placed
        <4> QED
          BY <1>2, <1>3, <1>4, <1>5, <1>10, <4>1 DEF Heard, Sound
      <3> QED
        BY <3>1, <3>2
    <2>2. \A x \in Source \ {n} : Heard(x)'
      BY <1>2, <1>4, <1>10 DEF Heard, Sound
    <2> QED
      BY <2>1, <2>2
  <1>12. pc'[o] # "idle"
    BY <1>4
  <1>13. ~Underway(Starter)' => \A s \in Source : file'.of[s] \in asked'[s]
    BY <1>1, <1>2, <1>12, FileStays
  <1> QED
    BY <1>1, <1>6, <1>7, <1>9, <1>11, <1>13, ChangesOrder

LEMMA OrderListen ==
    ASSUME ServiceInv, ~clash, NEW o \in Changer, add_source(o)
    PROVE  Orderly'
  <1> DEFINE n == doing[o].name
  <1>1. Changes(o)
    BY DEF Changes
  <1>2. /\ pc[o] = "listen" /\ pc' = [pc EXCEPT ![o] = "save"]
        /\ listeners' = listeners \cup {n} /\ unheard' = unheard \ {n}
        /\ UNCHANGED <<up, executors, file, partial, doing, toSave, fd, toStart, conn, asked, clash>>
    BY DEF add_source, Goes, disk, guests
  <1>3. /\ n \in Source /\ Placed(o)
        /\ \A p \in Changer \ {o} : pc[p] = "idle" /\ pc'[p] = "idle"
    BY <1>1, ChangesAlone
  <1>4. pc'[o] = "save"
    BY <1>2 DEF ServiceInv, TypeOK
  <1>5. executors[n] = doing[o].to /\ doing[o].to # Absent /\ doing[o].to \in asked[n] /\ toStart[n] = Absent
    BY <1>2, <1>3 DEF Placed
  <1>6. Placed(o)'
    BY <1>2, <1>3, <1>4 DEF Placed
  <1>7. ~Unrestored(n)' /\ \A x \in Source : Unrestored(x)' <=> Unrestored(x)
    BY <1>2, <1>3, <1>4, <1>5 DEF Unrestored, Changer
  <1>8. \A x \in Source : Kept(x)'
    BY <1>2, <1>5, <1>7 DEF Kept, ServiceInv, Orderly
  <1>9. \A x \in Source : Heard(x)'
    <2>1. \A x \in Source : x = n => Heard(x)'
      BY <1>2, <1>5 DEF Heard, Sound
    <2>2. \A x \in Source \ {n} : Sound(x)
      BY <1>3 DEF ServiceInv, Orderly, Heard
    <2>3. \A x \in Source \ {n} : Heard(x)'
      BY <1>2, <2>2 DEF Heard, Sound
    <2> QED
      BY <2>1, <2>3
  <1>10. ~Underway(Starter)' => \A s \in Source : file'.of[s] \in asked'[s]
    BY <1>1, <1>2, <1>4, FileStays
  <1> QED
    BY <1>1, <1>6, <1>7, <1>8, <1>9, <1>10, ChangesOrder

LEMMA OrderPop ==
    ASSUME ServiceInv, ~clash, NEW o \in Changer, remove_source(o)
    PROVE  Orderly'
  <1> DEFINE n == doing[o].name
  <1>1. Changes(o)
    BY DEF Changes
  <1>2. /\ pc[o] = "pop" /\ pc' = [pc EXCEPT ![o] = IF n \in listeners THEN "drop" ELSE "idle"]
        /\ listeners' = listeners \ {n}
        /\ UNCHANGED <<up, executors, unheard, file, partial, doing, toSave, fd, toStart, conn, asked, clash>>
    BY DEF remove_source, Goes, disk, guests
  <1>3. /\ n \in Source /\ Placed(o) /\ o # Starter
        /\ \A p \in Changer \ {o} : pc[p] = "idle" /\ pc'[p] = "idle"
        /\ \A x \in Source : ~Unrestored(x) /\ ~Unrestored(x)'
    BY <1>1, <1>2, ChangesAlone DEF Placed
  <1>4. \A x \in Source : Sound(x)
    BY <1>2, <1>3 DEF ServiceInv, Orderly, Heard
  <1>5. executors[n] # Absent /\ pc'[o] = IF n \in listeners THEN "drop" ELSE "idle"
    BY <1>2, <1>3 DEF Placed, ServiceInv, TypeOK
  <1>6. pc'[o] # "idle" => Placed(o)'
    BY <1>2, <1>3, <1>5 DEF Placed
  <1>7. \A x \in Source : Kept(x)'
    BY <1>2, <1>3 DEF Kept, ServiceInv, Orderly
  <1>8. \A x \in Source : Heard(x)'
    BY <1>2, <1>3, <1>4, <1>5 DEF Heard, Sound
  <1>9. ~Underway(Starter)' => \A s \in Source : file'.of[s] \in asked'[s]
    BY <1>1, <1>2, <1>3, FileStays
  <1> QED
    BY <1>1, <1>3, <1>6, <1>7, <1>8, <1>9, ChangesOrder

LEMMA OrderDrop ==
    ASSUME ServiceInv, ~clash, NEW o \in Changer, DropExecutor(o)
    PROVE  Orderly'
  <1> DEFINE n == doing[o].name
  <1>1. Changes(o)
    BY DEF Changes
  <1>2. /\ pc[o] = "drop" /\ pc' = [pc EXCEPT ![o] = IF executors[n] = Absent THEN "idle" ELSE "save"]
        /\ executors' = [executors EXCEPT ![n] = Absent]
        /\ UNCHANGED <<up, listeners, unheard, file, partial, doing, toSave, fd, toStart, conn, asked, clash>>
    BY DEF DropExecutor, Goes, disk, guests
  <1>3. /\ n \in Source /\ Placed(o) /\ o # Starter
        /\ \A p \in Changer \ {o} : pc[p] = "idle" /\ pc'[p] = "idle"
        /\ \A x \in Source : ~Unrestored(x) /\ ~Unrestored(x)'
    BY <1>1, <1>2, ChangesAlone DEF Placed
  <1>4. executors[n] # Absent /\ n \notin listeners /\ doing[o].to = Absent /\ Absent \in asked[n]
    BY <1>2, <1>3 DEF Placed
  <1>5. /\ pc'[o] = "save" /\ executors'[n] = Absent
        /\ \A x \in Source \ {n} : executors'[x] = executors[x]
    BY <1>2, <1>3, <1>4 DEF ServiceInv, TypeOK, Sources
  <1>6. Placed(o)'
    BY <1>2, <1>3, <1>4, <1>5 DEF Placed
  <1>7. \A x \in Source : Kept(x)'
    BY <1>2, <1>3, <1>4, <1>5 DEF Kept, ServiceInv, Orderly
  <1>8. \A x \in Source : Heard(x)'
    <2>1. \A x \in Source \ {n} : Sound(x)
      BY <1>3 DEF ServiceInv, Orderly, Heard
    <2> QED
      BY <1>2, <1>4, <1>5, <2>1 DEF Heard, Sound
  <1>9. ~Underway(Starter)' => \A s \in Source : file'.of[s] \in asked'[s]
    BY <1>1, <1>2, <1>5, FileStays
  <1> QED
    BY <1>1, <1>3, <1>6, <1>7, <1>8, <1>9, ChangesOrder

\* The steps of a save before the last, which change no source.
LEMMA OrderSave ==
    ASSUME ServiceInv, ~clash, NEW o \in Changer, Collect(o) \/ OpenPartial(o) \/ WritePartial(o)
    PROVE  Orderly'
  <1>1. Changes(o)
    BY DEF Changes
  <1>2. /\ pc[o] \in {"save", "open", "write"}
        /\ UNCHANGED <<up, executors, listeners, unheard, doing, toStart, conn, asked, clash>>
    BY DEF Collect, OpenPartial, WritePartial, memory, guests
  <1>3. /\ doing[o].name \in Source /\ Placed(o)
        /\ \A p \in Changer \ {o} : pc[p] = "idle" /\ pc'[p] = "idle"
    BY <1>1, ChangesAlone
  <1>4. \A x \in Source : Sound(x)
    BY <1>2, <1>3 DEF ServiceInv, Orderly, Heard
  <1>5. /\ pc'[o] \in {"open", "write", "replace"} /\ Placed(o)'
        /\ file' = file
    <2>1. CASE Collect(o)
      <3>1. /\ pc'[o] = "open" /\ toSave'[o] = executors /\ file' = file
        BY <1>4, <2>1 DEF Collect, Goes, ServiceInv, TypeOK, disk
      <3> QED
        BY <1>2, <1>3, <3>1 DEF Placed
    <2>2. CASE OpenPartial(o)
      <3>1. /\ pc[o] = "open" /\ pc'[o] = "write" /\ toSave' = toSave /\ file' = file
            /\ fd'[o] = "partial" /\ partial' = Bare("empty")
        BY <2>2 DEF OpenPartial, Goes, ServiceInv, TypeOK
      <3> QED
        BY <1>2, <1>3, <3>1 DEF Placed
    <2>3. CASE WritePartial(o)
      <3>1. pc[o] = "write" /\ pc'[o] = "replace" /\ toSave' = toSave
        BY <2>3 DEF WritePartial, Goes, ServiceInv, TypeOK
      <3>2. fd[o] = "partial" /\ partial = Bare("empty")
        BY <1>3, <3>1 DEF Placed
      <3>3. file' = file /\ partial' = Whole(toSave[o])
        BY <2>3, <3>2 DEF WritePartial, Written, Bare
      <3> QED
        BY <1>2, <1>3, <3>1, <3>3 DEF Placed
    <2> QED
      BY <2>1, <2>2, <2>3
  <1>6. \A x \in Source : Unrestored(x)' <=> Unrestored(x)
    BY <1>2, <1>3, <1>5 DEF Unrestored, Changer
  <1>7. \A x \in Source : Kept(x)' /\ Heard(x)'
    BY <1>2, <1>4, <1>6 DEF Kept, Heard, Sound, ServiceInv, Orderly
  <1>8. ~Underway(Starter)' => \A s \in Source : file'.of[s] \in asked'[s]
    BY <1>1, <1>2, <1>5, FileStays
  <1> QED
    BY <1>1, <1>5, <1>6, <1>7, <1>8, ChangesOrder

LEMMA OrderReplace ==
    ASSUME ServiceInv, ~clash, NEW o \in Changer, ReplaceFile(o)
    PROVE  Orderly'
  <1> DEFINE n == doing[o].name
  <1>1. Changes(o)
    BY DEF Changes
  <1>2. /\ pc[o] = "replace" /\ pc' = [pc EXCEPT ![o] = "idle"]
        /\ UNCHANGED <<up, executors, listeners, unheard, doing, toSave, toStart, conn, clash>>
    BY DEF ReplaceFile, Goes, memory, guests
  <1>3. /\ n \in Source /\ Placed(o) /\ up
        /\ \A p \in Changer \ {o} : pc[p] = "idle" /\ pc'[p] = "idle"
    BY <1>1, ChangesAlone
  <1>4. partial = Whole(executors) /\ executors[n] = doing[o].to /\ doing[o].to \in asked[n]
    BY <1>2, <1>3 DEF Placed
  <1>5. /\ file'.of = executors
        /\ asked' = IF o = Starter THEN asked ELSE [asked EXCEPT ![n] = {doing[o].to}]
    BY <1>4 DEF ReplaceFile, Whole
  <1>6. executors[n] \in asked'[n] /\ \A x \in Source \ {n} : asked'[x] = asked[x]
    BY <1>3, <1>4, <1>5 DEF ServiceInv, TypeOK
  <1>7. pc'[o] = "idle" /\ \A p \in Changer : pc'[p] = "idle"
    BY <1>2, <1>3 DEF ServiceInv, TypeOK
  <1>8. \A x \in Source : Unrestored(x)' <=> Unrestored(x)
    BY <1>2, <1>3, <1>7 DEF Unrestored, Changer
  <1>9. toStart[n] = Absent
    BY <1>3 DEF Placed
  <1>10. \A x \in Source : Kept(x)'
    <2>1. \A x \in Source : x = n => Kept(x)'
      <3>1. ~Unrestored(n)'
        BY <1>2, <1>7, <1>9 DEF Unrestored, Changer
      <3> QED
        BY <1>2, <1>6, <3>1 DEF Kept
    <2>2. \A x \in Source \ {n} : Kept(x)'
      BY <1>2, <1>6, <1>8 DEF Kept, ServiceInv, Orderly
    <2> QED
      BY <2>1, <2>2
  <1>11. \A x \in Source : Heard(x)'
    BY <1>2, <1>3 DEF Heard, Sound, ServiceInv, Orderly
  <1>12. ASSUME ~Underway(Starter)', NEW x \in Source PROVE file'.of[x] \in asked'[x]
    <2>1. Starter \in Changer /\ toStart' = None
      BY <1>12 DEF Underway, Changer
    <2>2. ~Unrestored(x)'
      BY <1>7, <2>1 DEF Unrestored, None
    <2> QED
      BY <1>2, <1>3, <1>5, <1>10, <2>2 DEF Kept
  <1> QED
    BY <1>1, <1>7, <1>8, <1>10, <1>11, <1>12, ChangesOrder

LEMMA OrderGuest ==
    ASSUME ServiceInv, ~clash, NEW g \in Guest, _stamp_executor(g) \/ \E s \in Source : Connect(g, s)
    PROVE  Orderly'
  <1>1. UNCHANGED <<up, executors, listeners, unheard, file, partial, pc, doing, toSave, fd, toStart, asked, clash>>
    BY DEF _stamp_executor, Connect, memory, disk, changer
  <1>2. \A x \in Source : Unrestored(x)' <=> Unrestored(x)
    BY <1>1 DEF Unrestored
  <1>3. \A x \in Source : x \in listeners => ~Unrestored(x)
    BY DEF ServiceInv, Orderly, Kept
  <1>4. \A h \in Guest : conn'[h] # Absent => ~Unrestored(conn[h])'
    <2>1. CASE _stamp_executor(g)
      BY <1>2, <2>1 DEF _stamp_executor, ServiceInv, Orderly, TypeOK
    <2>2. CASE \E s \in Source : Connect(g, s)
      <3>1. PICK s \in Source : Connect(g, s)
        BY <2>2
      <3>2. \A h \in Guest : conn'[h] = conn[h] \/ conn'[h] = s
        BY <3>1 DEF Connect, ServiceInv, TypeOK
      <3>3. ~Unrestored(s)
        BY <1>3, <3>1 DEF Connect
      <3> QED
        BY <1>2, <3>2, <3>3 DEF ServiceInv, Orderly, TypeOK
    <2> QED
      BY <2>1, <2>2
  <1>5. Alone' /\ (Underway(Starter)' <=> Underway(Starter))
    BY <1>1 DEF ServiceInv, Orderly, Alone, Underway
  <1>6. \A o \in Changer : pc'[o] # "idle" => Placed(o)'
    BY <1>1 DEF ServiceInv, Orderly, Placed
  <1>7. \A s \in Source : Kept(s)' /\ Heard(s)'
    BY <1>1, <1>2 DEF ServiceInv, Orderly, Kept, Heard, Sound
  <1> QED
    BY <1>1, <1>4, <1>5, <1>6, <1>7 DEF Orderly, ServiceInv

\* An operator's request that fails leaves what it did in memory, and at most
\* its own source without a listener; a start that fails was cut short.
LEMMA OrderFails ==
    ASSUME ServiceInv, ~clash', NEW o \in Changer, Fails(o)
    PROVE  Orderly'
  <1> DEFINE n == doing[o].name
  <1>1. PICK deaf \in SUBSET ({n} \ listeners) :
          /\ Raises(o, deaf)
          /\ pc[o] = "listen" => deaf = {n} \ listeners
          /\ pc[o] \in {"listen", "save", "open", "write", "replace"}
    BY FailsRaise, Zenon
  <1>2. o # Starter
    <2>1. ASSUME o = Starter, Ends PROVE FALSE
      <3>1. Underway(Starter)
        BY <1>1, <2>1 DEF Underway
      <3>2. clash' = (clash \/ Underway(Starter))
        BY <2>1 DEF Ends
      <3> QED
        BY <3>1, <3>2, Zenon
    <2> QED
      BY <1>1, <2>1 DEF Raises
  <1>3. /\ pc' = [pc EXCEPT ![o] = "idle"]
        /\ unheard' = unheard \cup deaf
        /\ UNCHANGED <<up, executors, listeners, doing, toSave, toStart, conn, asked, clash>>
    BY <1>1, <1>2 DEF Raises, Goes, guests
  <1>4. /\ Underway(o) /\ Placed(o) /\ n \in Source
        /\ \A p \in Changer \ {o} : ~Underway(p) /\ pc[p] = "idle"
    BY <1>1, <1>3 DEF ServiceInv, Orderly, Alone, Underway, TypeOK
  <1>5. /\ Starter \in Changer /\ pc[Starter] = "idle" /\ ~Underway(Starter)
        /\ \A p \in Changer : pc'[p] = "idle"
        /\ toStart = None
    BY <1>2, <1>3, <1>4 DEF ServiceInv, TypeOK, Changer, Underway
  <1>6. file' = file
    <2>1. fd[o] # "file"
      BY <1>4 DEF Placed, ServiceInv, TypeOK
    <2> QED
      BY <2>1, FailsFiles DEF ServiceInv
  <1>7. \A x \in Source : ~Unrestored(x) /\ ~Unrestored(x)'
    BY <1>3, <1>5 DEF Unrestored, None
  <1>8. Alone'
    BY <1>3, <1>5 DEF Alone, Underway
  <1>9. \A x \in Source : Kept(x)'
    BY <1>3, <1>7 DEF Kept, ServiceInv, Orderly
  <1>10. \A x \in Source : Heard(x)'
    <2>1. \A x \in Source \ {n} : Sound(x)
      BY <1>3, <1>4 DEF ServiceInv, Orderly, Heard
    <2>2. ASSUME NEW x \in Source \ {n} PROVE Sound(x)'
      BY <1>3, <2>1 DEF Sound
    <2>3. ASSUME NEW x \in Source, x = n PROVE Sound(x)'
      <3>1. CASE pc[o] = "listen"
        <4>1. executors[n] # Absent /\ deaf = {n} \ listeners
          BY <1>1, <1>4, <3>1 DEF Placed
        <4>2. n \in listeners => n \notin unheard
          BY DEF ServiceInv, TypeOK
        <4>3. n \in listeners <=> n \notin unheard'
          BY <1>3, <4>1, <4>2
        <4> QED
          BY <1>3, <2>3, <4>1, <4>3 DEF Sound
      <3>2. CASE pc[o] # "listen"
        <4>1. Sound(n)
          BY <1>1, <1>3, <1>4, <3>2 DEF ServiceInv, Orderly, Heard
        <4>2. n \in listeners => n \notin unheard'
          BY <1>3 DEF ServiceInv, TypeOK
        <4> QED
          BY <1>3, <2>3, <4>1, <4>2 DEF Sound
      <3> QED
        BY <3>1, <3>2
    <2>4. \A x \in Source : Sound(x)'
      BY <2>2, <2>3
    <2> QED
      BY <2>4 DEF Heard
  <1>11. \A x \in Source : file'.of[x] \in asked'[x]
    BY <1>3, <1>5, <1>6 DEF ServiceInv, Orderly
  <1>12. \A g \in Guest : conn'[g] # Absent => ~Unrestored(conn[g])'
    BY <1>3, <1>7 DEF ServiceInv, TypeOK
  <1> QED
    BY <1>5, <1>8, <1>9, <1>10, <1>11, <1>12 DEF Orderly

LEMMA OrderStep == ServiceInv /\ [Next]_vars => ServiceInv'
  <1> SUFFICES ASSUME ServiceInv, [Next]_vars PROVE ServiceInv'
    OBVIOUS
  <1>1. TypeOK' /\ Down'
    BY TypeStep, DownStep DEF ServiceInv
  <1>2. ASSUME ~clash' PROVE Orderly'
    <2>1. CASE Start
      BY <1>2, <2>1, OrderStart DEF Start
    <2>2. CASE Kill
      BY <1>2, <2>2, OrderKill
    <2>3. ASSUME NEW s \in Source, Restore(s) PROVE Orderly'
      <3>1. ~clash
        BY <1>2, <2>3 DEF Restore
      <3> QED
        BY <2>3, <3>1, OrderRestore
    <2>4. CASE \E o \in Operator : Request(o)
      BY <1>2, <2>4, RequestIsAdmin, OrderAdmin
    <2>5. ASSUME NEW o \in Changer, Changes(o) PROVE Orderly'
      <3>1. ~clash
        BY <1>2, <2>5 DEF Changes, SetExecutor, add_source, remove_source, DropExecutor, Collect,
                          OpenPartial, WritePartial, ReplaceFile
      <3> QED
        BY <2>5, <3>1, OrderSet, OrderListen, OrderPop, OrderDrop, OrderSave, OrderReplace DEF Changes
    <2>6. CASE \E g \in Guest : _stamp_executor(g) \/ \E s \in Source : Connect(g, s)
      <3>1. ~clash
        BY <1>2, <2>6 DEF _stamp_executor, Connect
      <3> QED
        BY <2>6, <3>1, OrderGuest
    <2>7. CASE UNCHANGED vars
      <3>1. UNCHANGED <<up, executors, listeners, unheard, file, partial, pc, doing, toSave, fd, toStart, conn, asked, clash>>
        BY <2>7 DEF vars, memory, disk, changer, guests
      <3>2. Orderly
        BY <1>2, <3>1 DEF ServiceInv
      <3> QED
        BY <3>1, <3>2 DEF Orderly, Alone, Placed, Kept, Heard, Sound, Unrestored, Underway
    <2>8. ASSUME NEW o \in Changer, Fails(o) PROVE Orderly'
      BY <1>2, <2>8, OrderFails
    <2> QED
      BY <2>1, <2>2, <2>3, <2>4, <2>5, <2>6, <2>7, <2>8 DEF Next, Changes, Fails
  <1> QED
    BY <1>1, <1>2 DEF ServiceInv

LEMMA OrderHolds == Spec => []ServiceInv
  <1>1. Init => ServiceInv
    BY OrderInit
  <1> QED
    BY <1>1, OrderStep, PTL DEF Spec

\* Whenever nothing is under way the service listens on what the operators were
\* last answered for, however often it was killed, unless two changes ever
\* overlapped or a start was cut short.
THEOREM AcknowledgedKept == Spec => []AcknowledgedHolds
  <1>1. ASSUME ServiceInv, up, ~clash, \A o \in Changer : ~Underway(o), NEW s \in Source
        PROVE  executors[s] \in asked[s] /\ (s \in listeners <=> executors[s] # Absent /\ s \notin unheard)
    <2>1. Starter \in Changer /\ toStart = None /\ \A o \in Changer : pc[o] = "idle"
      BY <1>1 DEF Underway, Changer
    <2>2. ~Unrestored(s)
      BY <2>1 DEF Unrestored, None
    <2>3. executors[s] \in asked[s]
      BY <1>1, <2>2 DEF ServiceInv, Orderly, Kept
    <2> QED
      BY <1>1, <2>1, <2>3 DEF ServiceInv, Orderly, Heard, Sound
  <1>2. ServiceInv => AcknowledgedHolds
    BY <1>1 DEF AcknowledgedHolds
  <1> QED
    BY <1>2, OrderHolds, PTL

\* What a guest's run records is the executor the operators bound to its source,
\* also over a connection made while the service was starting again.
THEOREM BindingRecorded == Spec => RunsRecordTheBinding
  <1>1. ASSUME ServiceInv, NEW g \in Guest, NEW m \in Model, ~clash, _stamp_executor(g), asked[conn[g]] = {m}
        PROVE  stamp'[g] = m
    <2>1. conn[g] \in Source /\ conn[g] # Absent /\ stamp \in [Guest -> Executor]
      BY <1>1 DEF ServiceInv, TypeOK, _stamp_executor
    <2>2. up /\ ~Unrestored(conn[g])
      BY <1>1, <2>1 DEF ServiceInv, Down, Orderly
    <2>3. executors[conn[g]] = m
      BY <1>1, <2>1, <2>2 DEF ServiceInv, Orderly, Kept
    <2>4. m # Absent
      BY ServiceAssumption
    <2> QED
      BY <1>1, <2>1, <2>3, <2>4 DEF _stamp_executor
  <1>2. ServiceInv => [\A g \in Guest, m \in Model :
           (~clash /\ _stamp_executor(g) /\ asked[conn[g]] = {m}) => stamp'[g] = m]_vars
    BY <1>1
  <1> QED
    BY <1>2, OrderHolds, PTL DEF RunsRecordTheBinding
=============================================================================
