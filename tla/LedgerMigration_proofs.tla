----------------------- MODULE LedgerMigration_proofs -----------------------
(***************************************************************************)
(* Theorems about LedgerMigration, for any number of openers and kills,    *)
(* any version on disk and first openers cut short or not: the types, and  *)
(* that a ledger is upgraded whole, its rows kept, unless an opener was    *)
(* cut short in a migration or met another one in it.                      *)
(***************************************************************************)
EXTENDS LedgerMigration, SequenceTheorems, TLAPS

-----------------------------------------------------------------------------
(* What the migrations are made of.                                        *)

\* The versions with a migration.
Versions == 1 .. 12

\* The columns each version adds, one by one.
LEMMA AddedIs ==
    /\ \A v \in Versions : v \notin {4, 5, 6, 8, 9, 10, 11, 12} => Added[v] = <<>>
    /\ Added[4] = <<"baseline.source">>
    /\ Added[5] = <<"plan_contract.ancillary_files">>
    /\ Added[6] = <<"sensitivity_check.evidence_line">>
    /\ Added[8] = <<"artifact_check.regenerate_failed">>
    /\ Added[9] = <<"run.start_sha">>
    /\ Added[10] = <<"gate_result.tree_hash", "gate_result.skipped">>
    /\ Added[11] = <<"invocation.others_observed">>
    /\ Added[12] = <<"run.source", "plan_contract.source">>
  BY DEF Added, SCHEMA_VERSION, Versions

\* The version that adds a column.
Adds(c) ==
    CASE c = "baseline.source" -> 4
      [] c = "plan_contract.ancillary_files" -> 5
      [] c = "sensitivity_check.evidence_line" -> 6
      [] c = "artifact_check.regenerate_failed" -> 8
      [] c = "run.start_sha" -> 9
      [] c \in {"gate_result.tree_hash", "gate_result.skipped"} -> 10
      [] c = "invocation.others_observed" -> 11
      [] c \in {"run.source", "plan_contract.source"} -> 12
      [] OTHER -> 0

\* No version adds more than two columns, none adds one twice or one of another version.
LEMMA AddedOnce ==
    ASSUME NEW v \in Versions
    PROVE  /\ Len(Added[v]) \in 0 .. 2 /\ DOMAIN Added[v] = 1 .. Len(Added[v])
           /\ \A i \in 1 .. Len(Added[v]) : Adds(Added[v][i]) = v
           /\ \A i, k \in 1 .. Len(Added[v]) : Added[v][i] = Added[v][k] => i = k
           /\ v = 12 => Len(Added[v]) = 2
  <1>1. CASE v \notin {4, 5, 6, 8, 9, 10, 11, 12}
    BY <1>1, AddedIs, EmptySeq
  <1>2. CASE v = 4 BY <1>2, AddedIs DEF Adds
  <1>3. CASE v = 5 BY <1>3, AddedIs DEF Adds
  <1>4. CASE v = 6 BY <1>4, AddedIs DEF Adds
  <1>5. CASE v = 8 BY <1>5, AddedIs DEF Adds
  <1>6. CASE v = 9 BY <1>6, AddedIs DEF Adds
  <1>7. CASE v = 10 BY <1>7, AddedIs DEF Adds
  <1>8. CASE v = 11 BY <1>8, AddedIs DEF Adds
  <1>9. CASE v = 12 BY <1>9, AddedIs DEF Adds
  <1>10. QED
    BY <1>1, <1>2, <1>3, <1>4, <1>5, <1>6, <1>7, <1>8, <1>9 DEF Versions

\* What is there before a version, and what it adds to that.
LEMMA ColumnsGrow ==
    ASSUME NEW v \in Versions
    PROVE  /\ \A i \in 1 .. Len(Added[v]) : Added[v][i] \notin ColumnsBefore(v)
           /\ ColumnsBefore(v + 1) = ColumnsBefore(v) \cup {Added[v][i] : i \in 1 .. Len(Added[v])}
  <1>1. \A w \in 1 .. v : w \in Versions
    BY DEF Versions
  <1>2. \A w \in 1 .. v : DOMAIN Added[w] = 1 .. Len(Added[w])
    BY <1>1, AddedOnce
  <1>3. ASSUME NEW i \in 1 .. Len(Added[v]), NEW w \in 1 .. v - 1, NEW j \in DOMAIN Added[w]
        PROVE  Added[v][i] # Added[w][j]
    <2>1. w \in Versions /\ w # v
      BY <1>1 DEF Versions
    <2>2. Adds(Added[v][i]) = v /\ Adds(Added[w][j]) = w
      BY <1>3, <2>1, AddedOnce
    <2>3. QED
      BY <2>1, <2>2
  <1>4. v \in 1 .. v /\ (v + 1) - 1 = v /\ \A w \in 1 .. v : w # v => w \in 1 .. v - 1
    BY DEF Versions
  <1>5. ColumnsBefore(v + 1) = UNION {{Added[w][i] : i \in DOMAIN Added[w]} : w \in 1 .. v}
    BY <1>4 DEF ColumnsBefore
  <1>6. QED
    BY <1>2, <1>3, <1>4, <1>5 DEF ColumnsBefore

\* Nothing is added that version 13 has not.
LEMMA ColumnsBound ==
    ASSUME NEW v \in 1 .. 13
    PROVE  ColumnsBefore(v) \subseteq Columns
  BY DEF ColumnsBefore, Columns, SCHEMA_VERSION

\* Two sequences, one after the other.
LEMMA Joined ==
    ASSUME NEW S, NEW s \in Seq(S), NEW t \in Seq(S)
    PROVE  /\ s \o t \in Seq(S)
           /\ Len(s \o t) = Len(s) + Len(t)
           /\ \A i \in 1 .. Len(s) : (s \o t)[i] = s[i]
           /\ \A i \in 1 .. Len(t) : (s \o t)[Len(s) + i] = t[i]
  <1>1. \A i \in 1 .. Len(s) + Len(t) :
          (s \o t)[i] = IF i <= Len(s) THEN s[i] ELSE t[i - Len(s)]
    BY ConcatProperties
  <1>2. Len(s) \in Nat /\ Len(t) \in Nat
    BY LenProperties
  <1>3. ASSUME NEW i \in 1 .. Len(t) PROVE (s \o t)[Len(s) + i] = t[i]
    <2>1. Len(s) + i \in 1 .. Len(s) + Len(t) /\ ~(Len(s) + i <= Len(s)) /\ (Len(s) + i) - Len(s) = i
      BY <1>2
    <2>2. QED
      BY <1>1, <2>1
  <1>4. QED
    BY <1>1, <1>2, <1>3, ConcatProperties

\* The statements that add a column.
Any == {Do("add", Added[v][i]) : v \in Versions, i \in 1 .. 2}
         \cup {Do(op, t) : op \in {"create", "copy", "drop", "rename"}, t \in Table}

\* The adding statements of a migration.
LEMMA AddsAre ==
    ASSUME NEW v \in Versions
    PROVE  LET adds == [i \in DOMAIN Added[v] |-> Do("add", Added[v][i])]
           IN  /\ adds \in Seq(Any)
               /\ Len(adds) = Len(Added[v])
               /\ \A i \in 1 .. Len(Added[v]) : adds[i] = Do("add", Added[v][i])
  <1> DEFINE n == Len(Added[v])
             adds == [i \in DOMAIN Added[v] |-> Do("add", Added[v][i])]
  <1>1. n \in Nat /\ n <= 2 /\ DOMAIN Added[v] = 1 .. n
    BY AddedOnce
  <1>2. \A i \in 1 .. n : i \in 1 .. 2
    BY <1>1
  <1>3. \A i \in 1 .. n : Do("add", Added[v][i]) \in Any
    BY <1>2 DEF Any
  <1>4. adds = [i \in 1 .. n |-> Do("add", Added[v][i])]
    BY <1>1
  <1> HIDE DEF n
  <1>5. adds \in [1 .. n -> Any]
    BY <1>3, <1>4
  <1>6. adds \in Seq(Any) /\ Len(adds) = n
    BY <1>1, <1>5
  <1>7. QED
    BY <1>4, <1>6 DEF n

\* The migrations before the last only add columns.
LEMMA MigrationAdds ==
    ASSUME NEW v \in 1 .. 11
    PROVE  /\ Len(MIGRATIONS(v)) = Len(Added[v])
           /\ \A i \in 1 .. Len(Added[v]) : MIGRATIONS(v)[i] = Do("add", Added[v][i])
  <1> DEFINE adds == [i \in DOMAIN Added[v] |-> Do("add", Added[v][i])]
  <1>1. /\ adds \in Seq(Any)
        /\ Len(adds) = Len(Added[v])
        /\ \A i \in 1 .. Len(Added[v]) : adds[i] = Do("add", Added[v][i])
    <2>1. v \in Versions
      BY DEF Versions
    <2>2. QED
      BY <2>1, AddsAre
  <1>2. MIGRATIONS(v) = adds \o <<>>
    BY DEF MIGRATIONS
  <1> HIDE DEF adds
  <1>3. QED
    BY <1>1, <1>2, ConcatEmptySeq

\* The last one adds two and rebuilds three tables, one after the other.
LEMMA MigrationRebuilds ==
    /\ Len(MIGRATIONS(12)) \in Nat /\ Len(MIGRATIONS(12)) <= 14 /\ 14 <= Len(MIGRATIONS(12))
    /\ \A i \in 1 .. 2 : MIGRATIONS(12)[i] = Do("add", Added[12][i])
    /\ \A j \in 1 .. 4 : /\ MIGRATIONS(12)[2 + j] = Rebuild("baseline_claim")[j]
                         /\ MIGRATIONS(12)[6 + j] = Rebuild("advance_claim")[j]
                         /\ MIGRATIONS(12)[10 + j] = Rebuild("baseline_cache")[j]
  <1> DEFINE adds == [i \in DOMAIN Added[12] |-> Do("add", Added[12][i])]
             one == Rebuild("baseline_claim")
             two == Rebuild("advance_claim")
             three == Rebuild("baseline_cache")
             rebuilds == (one \o two) \o three
  <1>1. adds \in Seq(Any) /\ Len(adds) = Len(Added[12]) /\ Len(Added[12]) = 2
    BY AddsAre, AddedOnce DEF Versions
  <1>2. \A i \in 1 .. 2 : adds[i] = Do("add", Added[12][i])
    BY <1>1
  <1>3. \A t \in Table, op \in {"create", "copy", "drop", "rename"} : Do(op, t) \in Any
    BY DEF Any
  <1>4. ASSUME NEW t \in Table PROVE Rebuild(t) \in Seq(Any) /\ Len(Rebuild(t)) = 4
    BY <1>3 DEF Rebuild
  <1>5. "baseline_claim" \in Table /\ "advance_claim" \in Table /\ "baseline_cache" \in Table
    BY DEF Table, Since
  <1>6. /\ one \in Seq(Any) /\ two \in Seq(Any) /\ three \in Seq(Any)
        /\ Len(one) = 4 /\ Len(two) = 4 /\ Len(three) = 4
    BY <1>4, <1>5
  <1>7. MIGRATIONS(12) = adds \o rebuilds
    BY DEF MIGRATIONS
  <1> HIDE DEF adds, one, two, three
  <1>8. one \in Seq(Any) /\ two \in Seq(Any) /\ three \in Seq(Any)
    BY <1>6
  <1>9. /\ one \o two \in Seq(Any) /\ Len(one \o two) = Len(one) + Len(two)
        /\ \A i \in 1 .. Len(one) : (one \o two)[i] = one[i]
        /\ \A i \in 1 .. Len(two) : (one \o two)[Len(one) + i] = two[i]
    BY <1>8, Joined
  <1>10. /\ rebuilds \in Seq(Any) /\ Len(rebuilds) = Len(one \o two) + Len(three)
         /\ \A i \in 1 .. Len(one \o two) : rebuilds[i] = (one \o two)[i]
         /\ \A i \in 1 .. Len(three) : rebuilds[Len(one \o two) + i] = three[i]
    BY <1>8, <1>9, Joined
  <1> HIDE DEF rebuilds
  <1>11. adds \in Seq(Any)
    BY <1>1
  <1>12. /\ Len(MIGRATIONS(12)) = Len(adds) + Len(rebuilds)
         /\ \A i \in 1 .. Len(adds) : MIGRATIONS(12)[i] = adds[i]
         /\ \A i \in 1 .. Len(rebuilds) : MIGRATIONS(12)[Len(adds) + i] = rebuilds[i]
    BY <1>7, <1>10, <1>11, Joined
  <1>13. Len(rebuilds) = 12 /\ Len(one \o two) = 8 /\ Len(adds) = 2
    BY <1>1, <1>6, <1>9, <1>10
  <1>14. ASSUME NEW j \in 1 .. 4
         PROVE  /\ MIGRATIONS(12)[2 + j] = one[j]
                /\ MIGRATIONS(12)[6 + j] = two[j]
                /\ MIGRATIONS(12)[10 + j] = three[j]
    <2>1. j \in 1 .. Len(one) /\ j \in 1 .. Len(two) /\ j \in 1 .. Len(three)
      BY <1>6
    <2>2. /\ Len(one) + j = 4 + j /\ Len(one \o two) + j = 8 + j
          /\ Len(adds) + j = 2 + j /\ Len(adds) + (4 + j) = 6 + j /\ Len(adds) + (8 + j) = 10 + j
          /\ j \in 1 .. Len(one \o two) /\ 4 + j \in 1 .. Len(one \o two)
          /\ j \in 1 .. Len(rebuilds) /\ 4 + j \in 1 .. Len(rebuilds) /\ 8 + j \in 1 .. Len(rebuilds)
      BY <1>6, <1>13
    <2>3. (one \o two)[j] = one[j] /\ (one \o two)[4 + j] = two[j]
      <3>1. (one \o two)[Len(one) + j] = two[j]
        BY <1>9, <2>1
      <3>2. QED
        BY <1>9, <2>1, <2>2, <3>1
    <2>4. rebuilds[j] = one[j] /\ rebuilds[4 + j] = two[j] /\ rebuilds[8 + j] = three[j]
      <3>1. rebuilds[Len(one \o two) + j] = three[j]
        BY <1>10, <2>1
      <3>2. rebuilds[j] = (one \o two)[j] /\ rebuilds[4 + j] = (one \o two)[4 + j]
        BY <1>10, <2>2
      <3>3. QED
        BY <2>2, <2>3, <3>1, <3>2
    <2>5. /\ MIGRATIONS(12)[Len(adds) + j] = rebuilds[j]
          /\ MIGRATIONS(12)[Len(adds) + (4 + j)] = rebuilds[4 + j]
          /\ MIGRATIONS(12)[Len(adds) + (8 + j)] = rebuilds[8 + j]
      BY <1>12, <2>2
    <2>6. QED
      BY <2>2, <2>4, <2>5
  <1>15. ASSUME NEW i \in 1 .. 2 PROVE MIGRATIONS(12)[i] = Do("add", Added[12][i])
    <2>1. i \in 1 .. Len(adds)
      BY <1>13
    <2>2. QED
      BY <1>2, <1>12, <2>1
  <1>16. Len(MIGRATIONS(12)) \in Nat /\ Len(MIGRATIONS(12)) <= 14 /\ 14 <= Len(MIGRATIONS(12))
    <2>1. Len(adds) + Len(rebuilds) \in Nat /\ Len(adds) + Len(rebuilds) <= 14 /\ 14 <= Len(adds) + Len(rebuilds)
      BY <1>13
    <2>2. QED
      BY <1>12, <2>1
  <1>17. QED
    BY <1>12, <1>14, <1>15, <1>16 DEF one, two, three

\* The statement before the one that creates a table's copy.
Turn == [baseline_claim |-> 2, advance_claim |-> 6, baseline_cache |-> 10]

\* What an opener has next in the migration from v: a column to add or, from 12, one of
\* the four steps of a table's rebuilding.
LEMMA NextStatement ==
    ASSUME NEW v \in Versions, NEW a \in Nat, 1 <= a, a <= Len(MIGRATIONS(v))
    PROVE  \/ a <= Len(Added[v]) /\ MIGRATIONS(v)[a] = Do("add", Added[v][a])
           \/ v = 12 /\ \E t \in Table, j \in 1 .. 4 :
                           a = Turn[t] + j /\ MIGRATIONS(v)[a] = Rebuild(t)[j]
  <1>1. CASE v # 12
    <2>1. v \in 1 .. 11
      BY <1>1 DEF Versions
    <2>2. Len(MIGRATIONS(v)) = Len(Added[v])
      BY <2>1, MigrationAdds
    <2>3. a \in 1 .. Len(Added[v])
      BY <2>2, AddedOnce
    <2>4. QED
      BY <2>1, <2>3, MigrationAdds
  <1>2. CASE v = 12
    <2>1. /\ a \in 1 .. 14
          /\ "baseline_claim" \in Table /\ "advance_claim" \in Table /\ "baseline_cache" \in Table
          /\ Turn["baseline_claim"] = 2 /\ Turn["advance_claim"] = 6 /\ Turn["baseline_cache"] = 10
      <3>1. a \in 1 .. 14
        BY <1>2, MigrationRebuilds
      <3>2. QED
        BY <3>1 DEF Table, Since, Turn
    <2>2. CASE a \in 1 .. 2
      <3>1. MIGRATIONS(12)[a] = Do("add", Added[12][a])
        BY <2>2, MigrationRebuilds
      <3>2. Len(Added[12]) = 2
        BY <1>2, AddedOnce
      <3>3. QED
        BY <1>2, <2>2, <3>1, <3>2
    <2>3. CASE a \in 3 .. 6
      <3>1. PICK j \in 1 .. 4 : a = 2 + j
        <4>1. a - 2 \in 1 .. 4 /\ a = 2 + (a - 2)
          BY <2>3
        <4>2. QED
          BY <4>1
      <3>2. MIGRATIONS(12)[2 + j] = Rebuild("baseline_claim")[j]
        BY MigrationRebuilds
      <3>3. QED
        BY <1>2, <2>1, <3>1, <3>2
    <2>4. CASE a \in 7 .. 10
      <3>1. PICK j \in 1 .. 4 : a = 6 + j
        <4>1. a - 6 \in 1 .. 4 /\ a = 6 + (a - 6)
          BY <2>4
        <4>2. QED
          BY <4>1
      <3>2. MIGRATIONS(12)[6 + j] = Rebuild("advance_claim")[j]
        BY MigrationRebuilds
      <3>3. QED
        BY <1>2, <2>1, <3>1, <3>2
    <2>5. CASE a \in 11 .. 14
      <3>1. PICK j \in 1 .. 4 : a = 10 + j
        <4>1. a - 10 \in 1 .. 4 /\ a = 10 + (a - 10)
          BY <2>5
        <4>2. QED
          BY <4>1
      <3>2. MIGRATIONS(12)[10 + j] = Rebuild("baseline_cache")[j]
        BY MigrationRebuilds
      <3>3. QED
        BY <1>2, <2>1, <3>1, <3>2
    <2>6. QED
      BY <2>1, <2>2, <2>3, <2>4, <2>5
  <1>3. QED
    BY <1>1, <1>2

\* How many statements there are.
LEMMA MigrationLength ==
    ASSUME NEW v \in Versions
    PROVE  /\ Len(MIGRATIONS(v)) \in Nat /\ Len(MIGRATIONS(v)) <= 14
           /\ v # 12 => Len(MIGRATIONS(v)) = Len(Added[v])
           /\ v = 12 => 14 <= Len(MIGRATIONS(v))
  <1>1. CASE v = 12
    BY <1>1, MigrationRebuilds
  <1>2. CASE v # 12
    <2>1. v \in 1 .. 11
      BY <1>2 DEF Versions
    <2>2. Len(MIGRATIONS(v)) = Len(Added[v])
      BY <2>1, MigrationAdds
    <2>3. QED
      BY <1>2, <2>2, AddedOnce
  <1>3. QED
    BY <1>1, <1>2

\* There are 14 at most.
LEMMA PositionsAre ==
    Positions = 1 .. 15 /\ \A a \in Positions : a \in Nat /\ 1 <= a
  <1>1. Positions = 1 .. 15
    BY MigrationRebuilds DEF Positions
  <1>2. QED
    BY <1>1

\* Past a statement there is a next one or the end.
LEMMA NextPosition ==
    ASSUME NEW v \in Versions, NEW a \in Nat, 1 <= a, a <= Len(MIGRATIONS(v))
    PROVE  a + 1 \in Positions
  <1>1. Len(MIGRATIONS(v)) \in Nat /\ Len(MIGRATIONS(v)) <= 14
    BY MigrationLength
  <1>2. a + 1 \in 1 .. 15
    BY <1>1
  <1>3. Positions = 1 .. 15
    BY PositionsAre
  <1>4. QED
    BY <1>2, <1>3

\* What a statement works on is a column or a table of version 13.
LEMMA StatementType ==
    ASSUME NEW v \in Versions, NEW a \in Nat, 1 <= a, a <= Len(MIGRATIONS(v))
    PROVE  LET s == MIGRATIONS(v)[a]
           IN  \/ s.op = "add" /\ s.what \in Columns
               \/ s.op \in {"create", "copy", "drop", "rename"} /\ s.what \in Table
  <1>1. ASSUME a <= Len(Added[v]) PROVE Added[v][a] \in Columns
    <2>1. a \in DOMAIN Added[v]
      BY <1>1, AddedOnce
    <2>2. v \in 1 .. SCHEMA_VERSION - 1
      BY DEF Versions, SCHEMA_VERSION
    <2>3. QED
      BY <2>1, <2>2 DEF Columns, ColumnsBefore
  <1>2. ASSUME NEW t \in Table, NEW j \in 1 .. 4
        PROVE  Rebuild(t)[j].op \in {"create", "copy", "drop", "rename"} /\ Rebuild(t)[j].what = t
    BY DEF Rebuild, Do
  <1>3. CASE a <= Len(Added[v]) /\ MIGRATIONS(v)[a] = Do("add", Added[v][a])
    BY <1>1, <1>3 DEF Do
  <1>4. CASE \E t \in Table, j \in 1 .. 4 : MIGRATIONS(v)[a] = Rebuild(t)[j]
    BY <1>2, <1>4
  <1>5. QED
    BY <1>3, <1>4, NextStatement

-----------------------------------------------------------------------------
(* The type invariant.                                                     *)

\* Whatever the openers do, the ledger's version is one a tool writes, and the columns
\* and tables are those of version 13 or of an earlier one.
THEOREM TypeCorrect == Spec => []TypeOK
  <1> USE DEF SCHEMA_VERSION
  <1>1. 1 \in Positions
    BY PositionsAre
  <1>2. Init => TypeOK
    <2> SUFFICES ASSUME Init PROVE TypeOK
      OBVIOUS
    <2>1. PICK v \in OnDisk, cut \in CutShort :
            /\ version = IF cut THEN 0 ELSE v
            /\ columns = IF v = 0 THEN {} ELSE IF v > 13 THEN Columns ELSE ColumnsBefore(v)
            /\ shape = [t \in Table |-> IF v = 0 \/ Since[t] > v THEN "none"
                                        ELSE IF v < 13 THEN "old" ELSE "new"]
            /\ rebuilt = {} /\ rest = (v # 0) /\ lost = {}
            /\ rows = [t \in Table |-> IF shape[t] = "none" \/ cut THEN {} ELSE {"table"}]
            /\ pc = [o \in Opener |-> "idle"]
            /\ stored = [o \in Opener |-> 0]
            /\ left = [o \in Opener |-> Table \cup {"rest"}]
            /\ at = [o \in Opener |-> 1]
            /\ disturbed = (cut /\ v # 0)
      BY DEF Init
    <2>2. v \in 0 .. 14 /\ cut \in BOOLEAN
      BY MigrationAssumption
    <2>3. columns \subseteq Columns
      <3>1. CASE v \in 1 .. 13
        BY <2>1, <3>1, ColumnsBound
      <3>2. CASE v = 0 \/ v = 14
        BY <2>1, <3>2
      <3>3. QED
        BY <2>2, <3>1, <3>2
    <2>4. version \in 0 .. 14 /\ rest \in BOOLEAN /\ disturbed \in BOOLEAN
      BY <2>1, <2>2
    <2>5. shape \in [Table -> {"none", "old", "new"}]
      BY <2>1
    <2>6. rows \in [Table -> SUBSET {"table", "copy"}]
      BY <2>1
    <2>7. at \in [Opener -> Positions] /\ stored \in [Opener -> 0 .. 14]
      BY <1>1, <2>1
    <2>8. QED
      BY <1>1, <2>1, <2>3, <2>4, <2>5, <2>6, <2>7 DEF TypeOK
  <1>3. ASSUME TypeOK, [Next]_vars
        PROVE  TypeOK'
    <2> USE <1>1, <1>3 DEF TypeOK
    <2>1. ASSUME NEW o \in Opener, _stored_version(o) PROVE TypeOK'
      BY <2>1 DEF _stored_version, Goes, ledger
    <2>2. ASSUME NEW o \in Opener, NEW t \in Table \cup {"rest"}, SCHEMA(o, t) PROVE TypeOK'
      <3>1. /\ left' = [left EXCEPT ![o] = @ \ {t}]
            /\ UNCHANGED <<version, rebuilt, rows, lost, pc, stored, at, disturbed>>
        BY <2>2 DEF SCHEMA
      <3>2. columns' \subseteq Columns /\ rest' \in BOOLEAN
        BY <2>2 DEF SCHEMA
      <3>3. shape' \in [Table -> {"none", "old", "new"}]
        <4>1. shape' = shape \/ shape' = [shape EXCEPT ![t] = IF @ = "none" THEN "new" ELSE @]
          BY <2>2 DEF SCHEMA
        <4>2. QED
          BY <4>1
      <3>4. left' \in [Opener -> SUBSET (Table \cup {"rest"})]
        BY <3>1
      <3>5. QED
        BY <3>1, <3>2, <3>3, <3>4
    <2>3. ASSUME NEW o \in Opener, SchemaDone(o) PROVE TypeOK'
      BY <2>3 DEF SchemaDone, Goes, ledger
    <2>4. ASSUME NEW o \in Opener, Statement(o) PROVE TypeOK'
      <3> DEFINE v == stored[o]
                 a == at[o]
                 s == MIGRATIONS(v)[a]
      <3>1. v \in Versions /\ a \in Nat /\ 1 <= a /\ a <= Len(MIGRATIONS(v))
        BY <2>4, PositionsAre DEF Statement, Migrating, Versions
      <3>2. a + 1 \in Positions /\ v + 1 \in 0 .. 13 /\ v <= 13
        <4>1. a + 1 \in Positions
          BY <3>1, NextPosition
        <4>2. QED
          BY <3>1, <4>1 DEF Versions
      <3>3. \/ s.op = "add" /\ s.what \in Columns
            \/ s.op \in {"create", "copy", "drop", "rename"} /\ s.what \in Table
        BY <3>1, StatementType
      <3>4. UNCHANGED <<version, rest, left, disturbed>>
        BY <2>4 DEF Statement
      <3> HIDE DEF s
      <3>5. CASE Executes(s) /\ at' = [at EXCEPT ![o] = @ + 1] /\ UNCHANGED <<pc, stored>>
        <4>1. columns' \subseteq Columns
          BY <3>3, <3>5 DEF Executes
        <4>2. rebuilt' \subseteq Table
          BY <3>3, <3>5 DEF Executes
        <4>3. shape' \in [Table -> {"none", "old", "new"}]
          BY <3>3, <3>5 DEF Executes
        <4>4. rows' \in [Table -> SUBSET {"table", "copy"}]
          BY <3>3, <3>5 DEF Executes
        <4>5. lost' \subseteq Table
          BY <3>3, <3>5 DEF Executes
        <4>6. at' \in [Opener -> Positions]
          BY <3>2, <3>5
        <4>7. QED
          BY <3>4, <3>5, <4>1, <4>2, <4>3, <4>4, <4>5, <4>6
      <3>6. CASE Onward(o) /\ UNCHANGED pc /\ UNCHANGED <<columns, shape, rebuilt, rows, lost>>
        BY <3>2, <3>4, <3>6 DEF Onward
      <3>7. CASE /\ Goes(o, "failed") /\ UNCHANGED <<stored, at>>
                 /\ UNCHANGED <<columns, shape, rebuilt, rows, lost>>
        <4>1. pc' \in [Opener -> {"idle", "schema", "migrate", "open", "refused", "failed", "killed"}]
          BY <3>7 DEF Goes
        <4>2. \A p \in Opener : pc'[p] # "refused" => stored'[p] <= 13
          BY <3>2, <3>7 DEF Goes
        <4>3. QED
          BY <3>4, <3>7, <4>1, <4>2
      <3>8. QED
        BY <2>4, <3>5, <3>6, <3>7 DEF Statement, s
    <2>5. ASSUME NEW o \in Opener, MigrationDone(o) PROVE TypeOK'
      BY <2>5 DEF MigrationDone, Migrating, Onward, ledger
    <2>6. ASSUME NEW o \in Opener, WriteVersion(o) PROVE TypeOK'
      BY <2>6 DEF WriteVersion, Goes
    <2>7. ASSUME NEW o \in Opener, Kill(o) PROVE TypeOK'
      BY <2>7 DEF Kill, Goes, Underway, ledger
    <2>8. CASE UNCHANGED vars
      BY <2>8 DEF vars, ledger, opener
    <2>9. QED
      BY <2>1, <2>2, <2>3, <2>4, <2>5, <2>6, <2>7, <2>8 DEF Next
  <1>4. QED
    BY <1>2, <1>3, PTL DEF Spec

-----------------------------------------------------------------------------
(* The upgrade.                                                            *)

\* A table when statement a is next: not yet rebuilt, copy made, copy filled, table
\* dropped, copy renamed.
Rebuilding(t, a) ==
    /\ a <= Turn[t] + 1 => t \notin rebuilt /\ shape[t] # "none" /\ rows[t] \subseteq {"table"}
    /\ a = Turn[t] + 2 => t \in rebuilt /\ shape[t] # "none" /\ rows[t] \subseteq {"table"}
    /\ a = Turn[t] + 3 => t \in rebuilt /\ shape[t] # "none" /\ rows[t] \in {{}, {"table", "copy"}}
    /\ a = Turn[t] + 4 => t \in rebuilt /\ shape[t] = "none" /\ rows[t] \in {{}, {"copy"}}
    /\ a >= Turn[t] + 5 => t \notin rebuilt /\ shape[t] = "new" /\ rows[t] \subseteq {"table"}

\* The ledger while its one opener is about to run a statement of the migration from v.
Midway(v, a) ==
    /\ a \in 1 .. Len(MIGRATIONS(v)) + 1
    /\ columns = ColumnsBefore(v) \cup {Added[v][i] : i \in {i \in 1 .. Len(Added[v]) : i < a}}
    /\ \A t \in Table : Rebuilding(t, a)

\* A ledger made from nothing: any number of openers at once, none of which migrates.
Fresh ==
    /\ version \in {0, 13} /\ rebuilt = {}
    /\ rest => columns = Columns
    /\ \A t \in Table : shape[t] # "old" /\ "copy" \notin rows[t]
    /\ \A o \in Opener :
          /\ stored[o] \in {0, 13} /\ at[o] = 1
          /\ \A t \in Table \ left[o] : shape[t] # "none"
          /\ "rest" \notin left[o] => rest
          /\ pc[o] \in {"migrate", "open"} => left[o] = {}

\* A ledger of an earlier version: one opener at most is under way.
Old ==
    /\ version \in 1 .. 12 /\ rest
    /\ \A o \in Opener : Underway(o) \/ pc[o] = "idle"
    /\ \A o, p \in Opener : Underway(o) /\ Underway(p) => o = p
    /\ (\A o \in Opener : pc[o] # "migrate") =>
          /\ rebuilt = {} /\ columns = ColumnsBefore(version)
          /\ \A t \in Table : rows[t] \subseteq {"table"}
    /\ \A o \in Opener :
          /\ pc[o] # "migrate" => at[o] = 1
          /\ \A t \in Table : pc[o] = "idle" => t \in left[o]
          /\ pc[o] = "schema" =>
                stored[o] = version /\ \A t \in Table \ left[o] : shape[t] # "none"
          /\ pc[o] = "migrate" => stored[o] \in 1 .. 12 /\ Midway(stored[o], at[o])

\* A ledger that has all version 13 has, whatever version it says it is: a migration
\* started on it now ends every script at its first statement.
Upgraded ==
    /\ Current /\ rest
    /\ \A t \in Table : "copy" \notin rows[t]
    /\ \A o \in Opener : at[o] = 1

\* UpgradedWhenAlone is not inductive: it says nothing of a ledger under way.
UpgradeInv ==
    ~disturbed =>
        /\ Fresh \/ Old \/ Upgraded
        /\ lost = {}
        /\ \A o \in Opener : pc[o] # "failed"

\* Where the three rebuildings stand among the statements, none overlapping another.
LEMMA Turns ==
    /\ \A t \in Table : Turn[t] \in Nat /\ 2 <= Turn[t] /\ Turn[t] <= 10
    /\ \A t, u \in Table : t # u => Turn[t] + 4 <= Turn[u] \/ Turn[u] + 4 <= Turn[t]
    /\ "rest" \notin Table
  BY DEF Turn, Table, Since

\* The next statement of a migration that nothing disturbed is accepted, takes the ledger
\* one statement further and loses no row.
LEMMA MidwayStep ==
    ASSUME TypeOK, NEW v \in Versions, NEW a \in Nat, 1 <= a, a <= Len(MIGRATIONS(v)),
           Midway(v, a), lost = {}
    PROVE  /\ Accepts(MIGRATIONS(v)[a])
           /\ Executes(MIGRATIONS(v)[a]) => Midway(v, a + 1)' /\ lost' = {}
  <1> DEFINE s == MIGRATIONS(v)[a]
  <1>1. a + 1 \in 1 .. Len(MIGRATIONS(v)) + 1
    BY MigrationLength
  <1>2. Len(Added[v]) \in Nat /\ Len(Added[v]) <= 2
    BY AddedOnce
  <1>3. CASE a <= Len(Added[v]) /\ s = Do("add", Added[v][a])
    <2>1. s.op = "add" /\ s.what = Added[v][a]
      BY <1>3 DEF Do
    <2>2. a \in 1 .. Len(Added[v])
      BY <1>2, <1>3
    <2>3. Added[v][a] \notin ColumnsBefore(v)
      BY <2>2, ColumnsGrow
    <2>4. \A i \in 1 .. Len(Added[v]) : i < a => Added[v][i] # Added[v][a]
      <3>1. \A i \in 1 .. Len(Added[v]) : i < a => i # a
        BY <1>2
      <3>2. QED
        BY <2>2, <3>1, AddedOnce
    <2>5. Accepts(s)
      BY <2>1, <2>3, <2>4 DEF Accepts, Midway
    <2>6. ASSUME Executes(s) PROVE Midway(v, a + 1)' /\ lost' = {}
      <3>1. /\ columns' = columns \cup {Added[v][a]}
            /\ rebuilt' = rebuilt /\ shape' = shape /\ rows' = rows /\ lost' = lost
        BY <2>1, <2>6 DEF Executes
      <3>2. \A i \in 1 .. Len(Added[v]) : i < a + 1 <=> i < a \/ i = a
        BY <1>2
      <3>3. columns' = ColumnsBefore(v) \cup {Added[v][i] : i \in {i \in 1 .. Len(Added[v]) : i < a + 1}}
        BY <2>2, <3>1, <3>2 DEF Midway
      <3>4. ASSUME NEW t \in Table PROVE Rebuilding(t, a + 1)'
        <4>1. a <= Turn[t] + 1 /\ a + 1 <= Turn[t] + 1 /\ Turn[t] \in Nat
          BY <1>2, <2>2, Turns
        <4>2. Rebuilding(t, a)
          BY DEF Midway
        <4>3. t \notin rebuilt' /\ shape'[t] # "none" /\ rows'[t] \subseteq {"table"}
          BY <3>1, <4>1, <4>2 DEF Rebuilding
        <4>4. QED
          BY <4>1, <4>3 DEF Rebuilding
      <3>5. QED
        BY <1>1, <3>1, <3>3, <3>4 DEF Midway
    <2>7. QED
      BY <2>5, <2>6
  <1>4. ASSUME v = 12, NEW t \in Table, NEW j \in 1 .. 4, a = Turn[t] + j, s = Rebuild(t)[j]
        PROVE  Accepts(s) /\ (Executes(s) => Midway(v, a + 1)' /\ lost' = {})
    <2>1. /\ j = 1 => s.op = "create"
          /\ j = 2 => s.op = "copy"
          /\ j = 3 => s.op = "drop"
          /\ j = 4 => s.op = "rename"
          /\ s.what = t
      BY <1>4 DEF Rebuild, Do
    <2>2. Rebuilding(t, a)
      BY DEF Midway
    <2>3. /\ Turn[t] \in Nat
          /\ j = 1 \/ j = 2 \/ j = 3 \/ j = 4
          /\ j = 1 => a <= Turn[t] + 1
          /\ a + 1 = Turn[t] + (j + 1)
          /\ a > 2
      BY <1>4, Turns
    <2>4. /\ j = 1 => t \notin rebuilt /\ shape[t] # "none" /\ rows[t] \subseteq {"table"}
          /\ j = 2 => t \in rebuilt /\ shape[t] # "none" /\ rows[t] \subseteq {"table"}
          /\ j = 3 => t \in rebuilt /\ shape[t] # "none" /\ rows[t] \in {{}, {"table", "copy"}}
          /\ j = 4 => t \in rebuilt /\ shape[t] = "none" /\ rows[t] \in {{}, {"copy"}}
      BY <1>4, <2>2, <2>3 DEF Rebuilding
    <2> HIDE DEF s
    <2>5. Accepts(s)
      BY <2>1, <2>3, <2>4 DEF Accepts
    <2>6. ASSUME Executes(s) PROVE Midway(v, a + 1)' /\ lost' = {}
      <3>1. /\ columns' = columns
            /\ j = 1 => rebuilt' = rebuilt \cup {t} /\ shape' = shape /\ rows' = rows
            /\ j = 2 => /\ rebuilt' = rebuilt /\ shape' = shape
                        /\ rows' = IF rows[t] # {} THEN [rows EXCEPT ![t] = @ \cup {"copy"}] ELSE rows
            /\ j = 3 => /\ rebuilt' = rebuilt /\ shape' = [shape EXCEPT ![t] = "none"]
                        /\ rows' = [rows EXCEPT ![t] = @ \ {"table"}]
            /\ j = 4 => /\ rebuilt' = rebuilt \ {t} /\ shape' = [shape EXCEPT ![t] = "new"]
                        /\ rows' = IF rows[t] # {} THEN [rows EXCEPT ![t] = {"table"}] ELSE rows
            /\ lost' = IF j = 3 /\ rows[t] = {"table"} THEN lost \cup {t} ELSE lost
        BY <2>1, <2>3, <2>6 DEF Executes
      <3>2. lost' = {}
        BY <2>4, <3>1
      <3>3. columns' = ColumnsBefore(v) \cup {Added[v][i] : i \in {i \in 1 .. Len(Added[v]) : i < a + 1}}
        <4>1. \A i \in 1 .. Len(Added[v]) : i < a /\ i < a + 1
          BY <1>2, <2>3
        <4>2. QED
          BY <3>1, <4>1 DEF Midway
      <3>4. Rebuilding(t, a + 1)'
        <4>1. shape'[t] = IF j = 3 THEN "none" ELSE IF j = 4 THEN "new" ELSE shape[t]
          BY <2>3, <3>1 DEF TypeOK
        <4>2. /\ j = 1 => rows'[t] = rows[t]
              /\ j = 2 => rows'[t] = IF rows[t] # {} THEN rows[t] \cup {"copy"} ELSE rows[t]
              /\ j = 3 => rows'[t] = rows[t] \ {"table"}
              /\ j = 4 => rows'[t] = IF rows[t] # {} THEN {"table"} ELSE rows[t]
          <5>1. rows \in [Table -> SUBSET {"table", "copy"}]
            BY DEF TypeOK
          <5>2. \A x : [rows EXCEPT ![t] = x][t] = x
            BY <5>1
          <5>3. QED
            BY <3>1, <5>2
        <4>3. /\ j = 1 => t \in rebuilt' /\ shape'[t] # "none" /\ rows'[t] \subseteq {"table"}
              /\ j = 2 => t \in rebuilt' /\ shape'[t] # "none" /\ rows'[t] \in {{}, {"table", "copy"}}
              /\ j = 3 => t \in rebuilt' /\ shape'[t] = "none" /\ rows'[t] \in {{}, {"copy"}}
              /\ j = 4 => t \notin rebuilt' /\ shape'[t] = "new" /\ rows'[t] \subseteq {"table"}
          <5>1. CASE j = 1
            BY <2>4, <3>1, <4>1, <4>2, <5>1
          <5>2. CASE j = 2
            BY <2>4, <3>1, <4>1, <4>2, <5>2
          <5>3. CASE j = 3
            BY <2>4, <3>1, <4>1, <4>2, <5>3
          <5>4. CASE j = 4
            BY <2>4, <3>1, <4>1, <4>2, <5>4
          <5>5. QED
            BY <2>3, <5>1, <5>2, <5>3, <5>4
        <4>4. QED
          BY <2>3, <4>3 DEF Rebuilding
      <3>5. ASSUME NEW u \in Table, u # t PROVE Rebuilding(u, a + 1)'
        <4>1. /\ (u \in rebuilt' <=> u \in rebuilt)
              /\ shape'[u] = shape[u] /\ rows'[u] = rows[u]
          BY <2>3, <3>1, <3>5 DEF TypeOK
        <4>2. Rebuilding(u, a)
          BY DEF Midway
        <4>3. \/ a <= Turn[u] + 1 /\ a + 1 <= Turn[u] + 1
              \/ a >= Turn[u] + 5
          <5>1. \A x, y \in Nat : \A k \in 1 .. 4 : x + 4 <= y \/ y + 4 <= x =>
                   \/ x + k <= y + 1 /\ (x + k) + 1 <= y + 1
                   \/ x + k >= y + 5
            OBVIOUS
          <5>2. Turn[t] \in Nat /\ Turn[u] \in Nat
            BY Turns
          <5>3. Turn[t] + 4 <= Turn[u] \/ Turn[u] + 4 <= Turn[t]
            BY <3>5, Turns
          <5>4. QED
            BY <1>4, <5>1, <5>2, <5>3
        <4>4. Turn[u] \in Nat
          BY Turns
        <4>5. CASE a <= Turn[u] + 1 /\ a + 1 <= Turn[u] + 1
          BY <4>1, <4>2, <4>4, <4>5 DEF Rebuilding
        <4>6. CASE a >= Turn[u] + 5
          BY <4>1, <4>2, <4>4, <4>6 DEF Rebuilding
        <4>7. QED
          BY <4>3, <4>5, <4>6
      <3>6. \A u \in Table : Rebuilding(u, a + 1)'
        BY <3>4, <3>5
      <3>7. QED
        BY <1>1, <3>2, <3>3, <3>6 DEF Midway
    <2>7. QED
      BY <2>5, <2>6
  <1>5. QED
    BY <1>3, <1>4, NextStatement

\* A migration that has run every statement has the columns of the next version, and the
\* last one the tables of version 13.
LEMMA MidwayEnd ==
    ASSUME TypeOK, NEW v \in Versions, NEW a \in Nat, 1 <= a, a > Len(MIGRATIONS(v)), Midway(v, a)
    PROVE  /\ columns = ColumnsBefore(v + 1)
           /\ v # 12 => \A t \in Table : t \notin rebuilt /\ shape[t] # "none" /\ rows[t] \subseteq {"table"}
           /\ v = 12 => \A t \in Table : t \notin rebuilt /\ shape[t] = "new" /\ rows[t] \subseteq {"table"}
  <1>1. /\ Len(Added[v]) \in Nat /\ Len(Added[v]) <= 2
        /\ Len(MIGRATIONS(v)) \in Nat
        /\ v # 12 => Len(MIGRATIONS(v)) = Len(Added[v])
        /\ v = 12 => 14 <= Len(MIGRATIONS(v))
        /\ a <= Len(MIGRATIONS(v)) + 1
    BY AddedOnce, MigrationLength DEF Midway
  <1>2. \A i \in 1 .. Len(Added[v]) : i < a
    BY <1>1
  <1>3. columns = ColumnsBefore(v) \cup {Added[v][i] : i \in 1 .. Len(Added[v])}
    BY <1>2 DEF Midway
  <1>4. ASSUME NEW t \in Table
        PROVE  /\ v # 12 => t \notin rebuilt /\ shape[t] # "none" /\ rows[t] \subseteq {"table"}
               /\ v = 12 => t \notin rebuilt /\ shape[t] = "new" /\ rows[t] \subseteq {"table"}
    <2>1. v # 12 => a <= Turn[t] + 1
      BY <1>1, Turns
    <2>2. v = 12 => a >= Turn[t] + 5
      BY <1>1, Turns
    <2>3. Rebuilding(t, a)
      BY DEF Midway
    <2>4. QED
      BY <2>1, <2>2, <2>3 DEF Rebuilding
  <1>5. QED
    BY <1>3, <1>4, ColumnsGrow

\* The versions that are upgraded.
Earlier == 1 .. SCHEMA_VERSION - 1

\* A second opener of an earlier ledger, and the killing of one that migrates, disturb.
LEMMA Disturbances ==
    ASSUME NEW o \in Opener, ~disturbed'
    PROVE  /\ _stored_version(o) /\ version \in 1 .. 12 => \A p \in Opener : ~Underway(p)
           /\ Kill(o) => stored[o] \notin 1 .. 12
  <1>1. Earlier = 1 .. 12
    BY DEF Earlier, SCHEMA_VERSION
  <1>2. _stored_version(o) /\ version \in Earlier => \A p \in Opener : ~Underway(p)
    BY Zenon DEF _stored_version, Earlier
  <1>3. Kill(o) => stored[o] \notin Earlier
    BY Zenon DEF Kill, Earlier
  <1>4. QED
    BY <1>1, <1>2, <1>3

\* No rows are lost and no opening has failed.
Safe == lost = {} /\ \A o \in Opener : pc[o] # "failed"

\* Openers of a ledger made from nothing keep it so, killed or not.
LEMMA FreshStep ==
    ASSUME TypeOK, Fresh, Safe, [Next]_vars
    PROVE  Fresh' /\ Safe'
  <1> USE DEF Fresh, Safe, SCHEMA_VERSION
  <1>1. ASSUME NEW o \in Opener, _stored_version(o) PROVE Fresh' /\ Safe'
    BY <1>1 DEF _stored_version, Goes, ledger, TypeOK
  <1>2. ASSUME NEW o \in Opener, NEW t \in Table \cup {"rest"}, SCHEMA(o, t) PROVE Fresh' /\ Safe'
    <2>1. /\ left' = [left EXCEPT ![o] = @ \ {t}] /\ pc[o] = "schema"
          /\ UNCHANGED <<version, rebuilt, rows, lost, pc, stored, at>>
      BY <1>2 DEF SCHEMA
    <2>2. CASE t = "rest"
      <3>1. rest' = TRUE /\ shape' = shape /\ columns' = Columns
        BY <1>2, <2>2 DEF SCHEMA
      <3>2. \A p \in Opener : \A u \in Table : u \in left[p] => u \in left'[p]
        BY <2>1, <2>2, Turns DEF TypeOK
      <3>3. QED
        BY <2>1, <3>1, <3>2 DEF TypeOK
    <2>3. CASE t \in Table
      <3>1. /\ rest' = rest /\ columns' = columns
            /\ shape' = [shape EXCEPT ![t] = IF @ = "none" THEN "new" ELSE @]
        BY <1>2, <2>3, Turns DEF SCHEMA
      <3>2. /\ \A u \in Table : shape[u] # "none" => shape'[u] # "none"
            /\ \A u \in Table : shape'[u] # "old"
            /\ shape'[t] # "none"
        BY <2>3, <3>1 DEF TypeOK
      <3>3. /\ \A p \in Opener : \A u \in Table : u # t => (u \in left'[p] <=> u \in left[p])
            /\ \A p \in Opener : "rest" \in left'[p] <=> "rest" \in left[p]
            /\ \A p \in Opener : pc[p] \in {"migrate", "open"} => left'[p] = left[p]
        BY <2>1, <2>3, Turns DEF TypeOK
      <3>4. QED
        BY <2>1, <3>1, <3>2, <3>3
    <2>4. QED
      BY <2>2, <2>3
  <1>3. ASSUME NEW o \in Opener, SchemaDone(o) PROVE Fresh' /\ Safe'
    BY <1>3 DEF SchemaDone, Goes, ledger, TypeOK
  <1>4. \A o \in Opener : ~Migrating(o)
    BY DEF Migrating
  <1>5. ASSUME NEW o \in Opener, WriteVersion(o) PROVE Fresh' /\ Safe'
    BY <1>5 DEF WriteVersion, Goes, TypeOK
  <1>6. ASSUME NEW o \in Opener, Kill(o) PROVE Fresh' /\ Safe'
    BY <1>6 DEF Kill, Goes, ledger, TypeOK
  <1>7. CASE UNCHANGED vars
    BY <1>7 DEF vars, ledger, opener
  <1>8. QED
    BY <1>1, <1>2, <1>3, <1>4, <1>5, <1>6, <1>7 DEF Next, Statement, MigrationDone

\* Nothing is left to do on a ledger that has it all: every script ends at a column that
\* exists, or is empty.
LEMMA UpgradedStep ==
    ASSUME TypeOK, Upgraded, Safe, [Next]_vars
    PROVE  Upgraded' /\ Safe'
  <1> USE DEF Upgraded, Safe, Current
  <1>1. ASSUME NEW o \in Opener, _stored_version(o) PROVE Upgraded' /\ Safe'
    BY <1>1 DEF _stored_version, Goes, ledger, TypeOK
  <1>2. ASSUME NEW o \in Opener, NEW t \in Table \cup {"rest"}, SCHEMA(o, t) PROVE Upgraded' /\ Safe'
    <2>1. shape' = shape \/ (t \in Table /\ shape' = [shape EXCEPT ![t] = IF @ = "none" THEN "new" ELSE @])
      BY <1>2 DEF SCHEMA
    <2>2. \A u \in Table : shape'[u] = "new"
      BY <2>1 DEF TypeOK
    <2>3. QED
      BY <1>2, <2>2 DEF SCHEMA
  <1>3. ASSUME NEW o \in Opener, SchemaDone(o) PROVE Upgraded' /\ Safe'
    BY <1>3 DEF SchemaDone, Goes, ledger, TypeOK
  <1>4. ASSUME NEW o \in Opener, Statement(o) PROVE Upgraded' /\ Safe'
    <2>1. PICK v : v = stored[o] /\ v \in Versions /\ 1 <= Len(MIGRATIONS(v))
      BY <1>4 DEF Statement, Migrating, Versions, SCHEMA_VERSION
    <2>2. MIGRATIONS(v)[1] = Do("add", Added[v][1]) /\ 1 <= Len(Added[v])
      <3>1. \A t \in Table, j \in 1 .. 4 : 1 # Turn[t] + j
        BY Turns
      <3>2. QED
        BY <2>1, <3>1, NextStatement
    <2>3. MIGRATIONS(v)[1].op = "add" /\ MIGRATIONS(v)[1].what \in Columns
      BY <2>1, <2>2, StatementType DEF Do
    <2>4. ~Accepts(MIGRATIONS(v)[1])
      BY <2>3 DEF Accepts
    <2>5. MIGRATIONS(stored[o])[at[o]] = MIGRATIONS(v)[1]
      BY <2>1
    <2>6. Onward(o) /\ UNCHANGED pc /\ UNCHANGED <<columns, shape, rebuilt, rows, lost, rest>>
      BY <1>4, <2>3, <2>4, <2>5 DEF Statement
    <2>7. QED
      BY <2>6 DEF Onward, TypeOK
  <1>5. ASSUME NEW o \in Opener, MigrationDone(o) PROVE Upgraded' /\ Safe'
    BY <1>5 DEF MigrationDone, Onward, ledger, TypeOK
  <1>6. ASSUME NEW o \in Opener, WriteVersion(o) PROVE Upgraded' /\ Safe'
    BY <1>6 DEF WriteVersion, Goes, TypeOK
  <1>7. ASSUME NEW o \in Opener, Kill(o) PROVE Upgraded' /\ Safe'
    BY <1>7 DEF Kill, Goes, ledger, TypeOK
  <1>8. CASE UNCHANGED vars
    BY <1>8 DEF vars, ledger, opener
  <1>9. QED
    BY <1>1, <1>2, <1>3, <1>4, <1>5, <1>6, <1>7, <1>8 DEF Next

\* The one opener of an earlier ledger takes it from version to version and leaves it
\* upgraded, unless it is killed on the way or a second one joins it.
LEMMA OldStep ==
    ASSUME TypeOK, Old, Safe, [Next]_vars, ~disturbed'
    PROVE  (Old \/ Upgraded)' /\ Safe'
  <1> DEFINE Untouched == /\ rebuilt = {} /\ columns = ColumnsBefore(version)
                          /\ \A t \in Table : rows[t] \subseteq {"table"}
  <1>1. ASSUME NEW o \in Opener, _stored_version(o) PROVE Old' /\ Safe'
    <2>1. \A p \in Opener : ~Underway(p) /\ pc[p] = "idle"
      BY <1>1, Disturbances DEF Old
    <2>2. /\ pc' = [pc EXCEPT ![o] = "schema"]
          /\ stored' = [stored EXCEPT ![o] = version]
          /\ UNCHANGED <<version, columns, shape, rebuilt, rest, rows, lost, left, at>>
      <3>1. ~(version > SCHEMA_VERSION)
        BY DEF Old, SCHEMA_VERSION
      <3>2. QED
        BY <1>1, <3>1 DEF _stored_version, Goes, ledger
    <2>3. \A p \in Opener : pc'[p] = (IF p = o THEN "schema" ELSE "idle")
      BY <2>1, <2>2 DEF TypeOK
    <2>4. stored'[o] = version
      BY <2>2 DEF TypeOK
    <2>5. Untouched
      BY <2>1 DEF Old
    <2>6. \A t \in Table \ left[o] : FALSE
      BY <2>1 DEF Old
    <2>7. Old'
      BY <2>1, <2>2, <2>3, <2>4, <2>5, <2>6 DEF Old, Underway
    <2>8. QED
      BY <2>2, <2>3, <2>7 DEF Safe
  <1>2. ASSUME NEW o \in Opener, pc[o] \in {"schema", "migrate"}
        PROVE  \A p \in Opener : p # o => pc[p] = "idle" /\ at[p] = 1 /\ \A t \in Table : t \in left[p]
    BY <1>2 DEF Old, Underway
  <1>3. ASSUME NEW o \in Opener, NEW t \in Table \cup {"rest"}, SCHEMA(o, t) PROVE Old' /\ Safe'
    <2>1. /\ pc[o] = "schema" /\ left' = [left EXCEPT ![o] = @ \ {t}]
          /\ UNCHANGED <<version, rebuilt, rows, lost, pc, stored, at>>
      BY <1>3 DEF SCHEMA
    <2>2. rest' /\ columns' = columns
      BY <1>3 DEF SCHEMA, Old
    <2>3. \A u \in Table : /\ shape[u] # "none" => shape'[u] # "none"
                           /\ u = t => shape'[u] # "none"
      <3>1. \/ t = "rest" /\ shape' = shape
            \/ t \in Table /\ shape' = [shape EXCEPT ![t] = IF @ = "none" THEN "new" ELSE @]
        BY <1>3 DEF SCHEMA
      <3>2. QED
        BY <3>1, Turns DEF TypeOK
    <2>4. /\ \A p \in Opener : p # o => pc[p] = "idle" /\ at[p] = 1
          /\ \A p \in Opener : p # o => left'[p] = left[p]
          /\ \A u \in Table : u # t => (u \in left'[o] <=> u \in left[o])
      BY <1>2, <2>1 DEF TypeOK
    <2>5. \A p \in Opener : pc[p] # "migrate"
      BY <2>1, <2>4
    <2>6. stored[o] = version /\ (\A u \in Table \ left[o] : shape[u] # "none") /\ at[o] = 1
      BY <2>1 DEF Old
    <2>7. \A u \in Table \ left'[o] : shape'[u] # "none"
      BY <2>3, <2>4, <2>6
    <2>8. Untouched
      BY <2>5 DEF Old
    <2>9. Old'
      BY <1>2, <2>1, <2>2, <2>4, <2>5, <2>6, <2>7, <2>8 DEF Old, Underway
    <2>10. QED
      BY <2>1, <2>9 DEF Safe
  <1>4. ASSUME NEW o \in Opener, SchemaDone(o) PROVE Old' /\ Safe'
    <2>1. /\ pc[o] = "schema" /\ left[o] = {} /\ pc' = [pc EXCEPT ![o] = "migrate"]
          /\ UNCHANGED <<version, columns, shape, rebuilt, rest, rows, lost, stored, left, at>>
      BY <1>4 DEF SchemaDone, Goes, ledger
    <2>2. \A p \in Opener : pc'[p] = (IF p = o THEN "migrate" ELSE "idle")
      BY <1>2, <2>1 DEF TypeOK
    <2>3. \A p \in Opener : pc[p] # "migrate"
      BY <1>2, <2>1
    <2>4. Untouched /\ stored[o] = version /\ at[o] = 1 /\ \A t \in Table : shape[t] # "none"
      BY <2>1, <2>3 DEF Old
    <2>5. version \in Versions
      BY DEF Old, Versions
    <2>6. Midway(version, 1)
      <3>1. 1 \in 1 .. Len(MIGRATIONS(version)) + 1
        BY <2>5, MigrationLength
      <3>2. {i \in 1 .. Len(Added[version]) : i < 1} = {}
        BY <2>5, AddedOnce
      <3>3. columns = ColumnsBefore(version) \cup
                        {Added[version][i] : i \in {i \in 1 .. Len(Added[version]) : i < 1}}
        BY <2>4, <3>2
      <3>4. ASSUME NEW t \in Table PROVE Rebuilding(t, 1)
        BY <2>4, Turns DEF Rebuilding
      <3>5. QED
        BY <3>1, <3>3, <3>4 DEF Midway
    <2>7. Midway(stored[o], at[o])'
      BY <2>1, <2>4, <2>6 DEF Midway, Rebuilding
    <2>8. Old'
      BY <1>2, <2>1, <2>2, <2>4, <2>7 DEF Old, Underway
    <2>9. QED
      BY <2>1, <2>2, <2>8 DEF Safe
  <1>5. ASSUME NEW o \in Opener, Migrating(o)
        PROVE  \E v \in Versions, a \in Nat :
                  v = stored[o] /\ a = at[o] /\ 1 <= a /\ Midway(v, a)
    <2>1. stored[o] \in Versions /\ Midway(stored[o], at[o])
      BY <1>5 DEF Migrating, Old, Versions
    <2>2. at[o] \in Nat /\ 1 <= at[o]
      BY PositionsAre DEF TypeOK
    <2>3. QED
      BY <2>1, <2>2
  <1>6. ASSUME NEW o \in Opener, Statement(o) PROVE Old' /\ Safe'
    <2>1. Migrating(o) /\ pc[o] = "migrate"
      BY <1>6 DEF Statement, Migrating
    <2>2. PICK v \in Versions, a \in Nat : v = stored[o] /\ a = at[o] /\ 1 <= a /\ Midway(v, a)
      BY <1>5, <2>1
    <2>3. a <= Len(MIGRATIONS(v))
      BY <1>6, <2>2 DEF Statement
    <2>4. /\ Accepts(MIGRATIONS(v)[a])
          /\ Executes(MIGRATIONS(v)[a]) => Midway(v, a + 1)' /\ lost' = {}
      BY <2>2, <2>3, MidwayStep DEF Safe
    <2>5. /\ Executes(MIGRATIONS(v)[a])
          /\ at' = [at EXCEPT ![o] = @ + 1]
          /\ UNCHANGED <<pc, stored, version, rest, left>>
      BY <1>6, <2>2, <2>4 DEF Statement
    <2>6. Midway(v, a + 1)' /\ lost' = {}
      BY <2>4, <2>5
    <2>7. at'[o] = a + 1 /\ \A p \in Opener : p # o => at'[p] = at[p]
      BY <2>2, <2>5 DEF TypeOK
    <2>8. Midway(stored[o], at[o])'
      BY <2>2, <2>5, <2>6, <2>7
    <2>9. Old'
      BY <1>2, <2>1, <2>2, <2>5, <2>7, <2>8 DEF Old, Underway
    <2>10. QED
      BY <2>5, <2>6, <2>9 DEF Safe
  <1>7. ASSUME NEW o \in Opener, MigrationDone(o) PROVE (Old \/ Upgraded)' /\ Safe'
    <2>1. Migrating(o) /\ pc[o] = "migrate"
      BY <1>7 DEF MigrationDone, Migrating
    <2>2. PICK v \in Versions, a \in Nat : v = stored[o] /\ a = at[o] /\ 1 <= a /\ Midway(v, a)
      BY <1>5, <2>1
    <2>3. /\ stored' = [stored EXCEPT ![o] = @ + 1]
          /\ at' = [at EXCEPT ![o] = 1]
          /\ UNCHANGED <<pc, version, columns, shape, rebuilt, rest, rows, lost, left>>
      BY <1>7 DEF MigrationDone, Onward, ledger
    <2>4. a > Len(MIGRATIONS(v))
      BY <1>7, <2>2 DEF MigrationDone
    <2>5. /\ columns = ColumnsBefore(v + 1)
          /\ v # 12 => \A t \in Table : t \notin rebuilt /\ shape[t] # "none" /\ rows[t] \subseteq {"table"}
          /\ v = 12 => \A t \in Table : t \notin rebuilt /\ shape[t] = "new" /\ rows[t] \subseteq {"table"}
      BY <2>2, <2>4, MidwayEnd
    <2>6. /\ stored'[o] = v + 1 /\ at'[o] = 1
          /\ \A p \in Opener : p # o => at'[p] = 1 /\ stored'[p] = stored[p]
      BY <1>2, <2>1, <2>2, <2>3 DEF TypeOK
    <2>7. Safe'
      BY <2>3 DEF Safe
    <2>8. CASE v # 12
      <3>1. v + 1 \in Versions /\ v + 1 \in 1 .. 12
        BY <2>8 DEF Versions
      <3>2. 1 \in 1 .. Len(MIGRATIONS(v + 1)) + 1
        BY <3>1, MigrationLength
      <3>3. {i \in 1 .. Len(Added[v + 1]) : i < 1} = {}
        BY <3>1, AddedOnce
      <3>4. columns' = ColumnsBefore(v + 1) \cup
                        {Added[v + 1][i] : i \in {i \in 1 .. Len(Added[v + 1]) : i < 1}}
        BY <2>3, <2>5, <3>3
      <3>5. ASSUME NEW t \in Table PROVE Rebuilding(t, 1)'
        BY <2>3, <2>5, <2>8, Turns DEF Rebuilding
      <3>6. Midway(v + 1, 1)'
        BY <3>2, <3>4, <3>5 DEF Midway
      <3>7. Midway(stored[o], at[o])'
        BY <2>6, <3>6
      <3>8. Old'
        BY <1>2, <2>1, <2>3, <2>6, <3>1, <3>7 DEF Old, Underway
      <3>9. QED
        BY <2>7, <3>8
    <2>9. CASE v = 12
      <3>1. rebuilt' = {}
        BY <2>3, <2>5, <2>9 DEF TypeOK
      <3>2. columns' = Columns
        BY <2>3, <2>5, <2>9 DEF Columns, SCHEMA_VERSION
      <3>3. \A t \in Table : shape'[t] = "new" /\ "copy" \notin rows'[t]
        BY <2>3, <2>5, <2>9
      <3>4. rest' /\ \A p \in Opener : at'[p] = 1
        BY <2>3, <2>6 DEF Old
      <3>5. QED
        BY <2>7, <3>1, <3>2, <3>3, <3>4 DEF Upgraded, Current
    <2>10. QED
      BY <2>8, <2>9
  <1>8. ASSUME NEW o \in Opener PROVE ~WriteVersion(o)
    <2>1. pc[o] = "migrate" => stored[o] \in 1 .. SCHEMA_VERSION - 1
      BY DEF Old, SCHEMA_VERSION
    <2>2. QED
      BY <2>1 DEF WriteVersion, Migrating
  <1>9. ASSUME NEW o \in Opener PROVE ~Kill(o)
    <2>1. Underway(o) => stored[o] \in 1 .. 12
      BY DEF Underway, Old
    <2>2. QED
      BY <2>1, Disturbances DEF Kill
  <1>10. CASE UNCHANGED vars
    BY <1>10 DEF vars, ledger, opener, Old, Safe, Underway, Midway, Rebuilding
  <1>11. QED
    BY <1>1, <1>3, <1>4, <1>6, <1>7, <1>8, <1>9, <1>10 DEF Next

\* For any number of openers and kills, from any version: a ledger is opened whole, with
\* the rows that were in it, and no opening fails, unless an opener was cut short in a
\* migration or another came while it was in it.
THEOREM UpgradesWhenAlone == Spec => []UpgradedWhenAlone
  <1>1. ASSUME Init PROVE UpgradeInv
    <2>1. PICK v \in OnDisk, cut \in CutShort :
            /\ version = IF cut THEN 0 ELSE v
            /\ columns = IF v = 0 THEN {} ELSE IF v > SCHEMA_VERSION THEN Columns ELSE ColumnsBefore(v)
            /\ shape = [t \in Table |-> IF v = 0 \/ Since[t] > v THEN "none"
                                        ELSE IF v < 13 THEN "old" ELSE "new"]
            /\ rebuilt = {} /\ rest = (v # 0) /\ lost = {}
            /\ rows = [t \in Table |-> IF shape[t] = "none" \/ cut THEN {} ELSE {"table"}]
            /\ pc = [o \in Opener |-> "idle"]
            /\ stored = [o \in Opener |-> 0]
            /\ left = [o \in Opener |-> Table \cup {"rest"}]
            /\ at = [o \in Opener |-> 1]
            /\ disturbed = (cut /\ v # 0)
      BY <1>1 DEF Init
    <2>2. v \in 0 .. 14 /\ cut \in BOOLEAN
      BY MigrationAssumption DEF SCHEMA_VERSION
    <2>3. SUFFICES ASSUME ~disturbed PROVE (Fresh \/ Old \/ Upgraded) /\ Safe
      BY DEF UpgradeInv, Safe
    <2>4. Safe
      BY <2>1 DEF Safe
    <2>5. CASE v = 0
      BY <2>1, <2>4, <2>5 DEF Fresh
    <2>6. CASE v \in 1 .. 12
      <3>1. ~cut /\ version = v /\ rest /\ columns = ColumnsBefore(v)
        <4>1. v # 0 /\ ~(v > SCHEMA_VERSION) /\ (v # 0) = TRUE
          BY <2>6 DEF SCHEMA_VERSION
        <4>2. ~cut
          BY <2>1, <2>3, <4>1
        <4>3. QED
          BY <2>1, <4>1, <4>2
      <3>2. rebuilt = {} /\ \A t \in Table : rows[t] \subseteq {"table"}
        BY <2>1
      <3>3. \A o \in Opener : pc[o] = "idle" /\ at[o] = 1 /\ \A t \in Table : t \in left[o]
        BY <2>1
      <3>4. QED
        BY <2>4, <2>6, <3>1, <3>2, <3>3 DEF Old, Underway
    <2>7. CASE v \in {13, 14}
      <3>1. rest /\ columns = Columns
        <4>1. v # 0 /\ (v # 0) = TRUE
          BY <2>7
        <4>2. CASE v = 13
          <5>1. ~(v > SCHEMA_VERSION) /\ Columns = ColumnsBefore(v)
            BY <4>2 DEF SCHEMA_VERSION, Columns
          <5>2. QED
            BY <2>1, <4>1, <5>1
        <4>3. CASE v = 14
          <5>1. v > SCHEMA_VERSION
            BY <4>3 DEF SCHEMA_VERSION
          <5>2. QED
            BY <2>1, <4>1, <5>1
        <4>4. QED
          BY <2>7, <4>2, <4>3
      <3>2. \A t \in Table : Since[t] \in {2, 3, 4}
        BY DEF Table, Since
      <3>3. \A t \in Table : shape[t] = "new" /\ "copy" \notin rows[t]
        BY <2>1, <2>7, <3>2
      <3>4. QED
        BY <2>1, <2>4, <3>1, <3>3 DEF Upgraded, Current
    <2>8. QED
      BY <2>2, <2>4, <2>5, <2>6, <2>7
  <1>2. ASSUME TypeOK, UpgradeInv, [Next]_vars
        PROVE  UpgradeInv'
    <2>1. disturbed => disturbed'
      BY <1>2 DEF Next, _stored_version, SCHEMA, SchemaDone, Statement, MigrationDone,
                  WriteVersion, Kill, vars
    <2>2. SUFFICES ASSUME ~disturbed' PROVE (Fresh \/ Old \/ Upgraded)' /\ Safe'
      BY DEF UpgradeInv, Safe
    <2>3. (Fresh \/ Old \/ Upgraded) /\ Safe
      BY <1>2, <2>1, <2>2 DEF UpgradeInv, Safe
    <2>4. QED
      BY <1>2, <2>2, <2>3, FreshStep, OldStep, UpgradedStep
  <1>3. ASSUME TypeOK, UpgradeInv PROVE UpgradedWhenAlone
    <2>1. SUFFICES ASSUME ~disturbed, NEW o \in Opener, pc[o] = "open"
                   PROVE  Current /\ \A t \in Table : "copy" \notin rows[t]
      BY <1>3 DEF UpgradedWhenAlone, UpgradeInv
    <2>2. CASE Fresh
      <3>1. left[o] = {}
        BY <2>1, <2>2 DEF Fresh
      <3>2. rest /\ \A t \in Table : shape[t] # "none"
        BY <2>2, <3>1 DEF Fresh
      <3>3. QED
        BY <1>3, <2>2, <3>2 DEF Fresh, Current, TypeOK
    <2>3. CASE Old
      BY <2>1, <2>3 DEF Old, Underway
    <2>4. CASE Upgraded
      BY <2>4 DEF Upgraded
    <2>5. QED
      BY <1>3, <2>1, <2>2, <2>3, <2>4 DEF UpgradeInv
  <1>4. QED
    BY <1>1, <1>2, <1>3, TypeCorrect, PTL DEF Spec

=============================================================================
