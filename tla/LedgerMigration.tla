-------------------------- MODULE LedgerMigration --------------------------
(***************************************************************************)
(* Opening a ledger (Ledger.__init__): processes open one SQLite file,     *)
(* each bringing it forward from the version it read.  Every statement of  *)
(* SCHEMA and of a migration is committed by itself, an opener may be      *)
(* killed between any two, and openers interleave: no lock spans them.     *)
(*                                                                         *)
(* A table that a migration rebuilds is followed with its rows; of every   *)
(* other change only which columns exist.                                  *)
(***************************************************************************)
EXTENDS Integers, Sequences, FiniteSets

CONSTANTS
  Opener,   \* the processes that open the ledger
  OnDisk,   \* the versions the ledger may have been left at, 0 for no ledger
  CutShort, \* whether its first opener was killed before it wrote the version
  MaxKills  \* bound: openers killed

SCHEMA_VERSION == 13

ASSUME MigrationAssumption ==
  /\ OnDisk \subseteq 0 .. SCHEMA_VERSION + 1
  /\ CutShort \subseteq BOOLEAN
  /\ MaxKills \in Nat

\* The columns each migration adds before it rebuilds anything, in order.
Added == [v \in 1 .. SCHEMA_VERSION - 1 |->
  CASE v = 4 -> <<"baseline.source">>
    [] v = 5 -> <<"plan_contract.ancillary_files">>
    [] v = 6 -> <<"sensitivity_check.evidence_line">>
    [] v = 8 -> <<"artifact_check.regenerate_failed">>
    [] v = 9 -> <<"run.start_sha">>
    [] v = 10 -> <<"gate_result.tree_hash", "gate_result.skipped">>
    [] v = 11 -> <<"invocation.others_observed">>
    [] v = 12 -> <<"run.source", "plan_contract.source">>
    [] OTHER -> <<>>]

\* The tables version 13 gives a source, with the version that first had them.
Since == [baseline_claim |-> 2, advance_claim |-> 3, baseline_cache |-> 4]
Table == DOMAIN Since

ColumnsBefore(v) == UNION {{Added[w][i] : i \in DOMAIN Added[w]} : w \in 1 .. v - 1}
Columns == ColumnsBefore(SCHEMA_VERSION)

Do(op, what) == [op |-> op, what |-> what]

\* Mutant: the old table is dropped before its rows are copied.
Rebuild_drop_first(t) == <<Do("create", t), Do("drop", t), Do("copy", t), Do("rename", t)>>

\* A table with a changed constraint: a new one is filled and takes its name.
Rebuild(t) == <<Do("create", t), Do("copy", t), Do("drop", t), Do("rename", t)>>

\* The statements of the migration from version v.
MIGRATIONS(v) ==
  [i \in DOMAIN Added[v] |-> Do("add", Added[v][i])] \o
    (IF v = 12 THEN Rebuild("baseline_claim") \o Rebuild("advance_claim") \o Rebuild("baseline_cache")
     ELSE <<>>)

\* Where an opener may be in the longest of them, its end included.
Positions == 1 .. Len(MIGRATIONS(12)) + 1

VARIABLES
  version,    \* the version in `meta`, 0 while there is none
  columns,    \* the added columns that exist
  shape,      \* each table: "none", "old" or "new"
  rebuilt,    \* the tables of which the _v13 copy exists
  rest,       \* whether the tables no migration rebuilds exist
  rows,       \* where the rows of each table are: of {"table", "copy"}
  pc,         \* each opener: "idle", "schema", "migrate", "open", "refused",
              \* "failed" or "killed"
  stored,     \* the version it has brought the ledger to, as far as it knows
  left,       \* what of SCHEMA an opener has still to look at
  at,         \* the next statement of the migration it runs
  lost,       \* the tables whose rows are nowhere any more (observation)
  disturbed   \* whether an opener was killed before it was done, or two were
              \* under way at once on a ledger that was there (observation)

ledger == <<version, columns, shape, rebuilt, rest, rows, lost>>
opener == <<pc, stored, left, at>>
vars == <<ledger, opener, disturbed>>

TypeOK ==
  /\ version \in 0 .. SCHEMA_VERSION + 1
  /\ columns \subseteq Columns
  /\ shape \in [Table -> {"none", "old", "new"}]
  /\ rebuilt \subseteq Table
  /\ rows \in [Table -> SUBSET {"table", "copy"}]
  /\ pc \in [Opener -> {"idle", "schema", "migrate", "open", "refused", "failed", "killed"}]
  /\ stored \in [Opener -> 0 .. SCHEMA_VERSION + 1]
  /\ \A o \in Opener : pc[o] # "refused" => stored[o] <= SCHEMA_VERSION
  /\ left \in [Opener -> SUBSET (Table \cup {"rest"})]
  /\ at \in [Opener -> Positions]
  /\ lost \subseteq Table
  /\ rest \in BOOLEAN /\ disturbed \in BOOLEAN

\* A ledger that version v of the tool left, each table with a row, none
\* yet, or one whose first opener, of version v, was killed before it wrote
\* the version.
Init ==
  \E v \in OnDisk, cut \in CutShort :
    /\ version = IF cut THEN 0 ELSE v
    /\ columns = IF v = 0 THEN {} ELSE IF v > SCHEMA_VERSION THEN Columns ELSE ColumnsBefore(v)
    /\ shape = [t \in Table |-> IF v = 0 \/ Since[t] > v THEN "none"
                                ELSE IF v < 13 THEN "old" ELSE "new"]
    /\ rebuilt = {} /\ rest = (v # 0) /\ lost = {}
    /\ rows = [t \in Table |-> IF shape[t] = "none" \/ cut THEN {} ELSE {"table"}]
    /\ pc = [o \in Opener |-> "idle"]
    /\ stored = [o \in Opener |-> 0]
    /\ left = [o \in Opener |-> Table \cup {"rest"}]
    /\ at = [o \in Opener |-> 1]
    /\ disturbed = (cut /\ v # 0)

Underway(o) == pc[o] \in {"schema", "migrate"}

Goes(o, to) == pc' = [pc EXCEPT ![o] = to]

\* Mutant: only a ledger two versions ahead is refused.
_stored_version_late(o) ==
  /\ pc[o] = "idle"
  /\ stored' = [stored EXCEPT ![o] = version]
  /\ Goes(o, IF version > SCHEMA_VERSION + 1 THEN "refused" ELSE "schema")
  /\ disturbed' = (disturbed \/ (version \in 1 .. SCHEMA_VERSION - 1 /\ \E p \in Opener : Underway(p)))
  /\ UNCHANGED <<ledger, left, at>>

\* The version is read; a ledger of a newer tool is not touched.
_stored_version(o) ==
  /\ pc[o] = "idle"
  /\ stored' = [stored EXCEPT ![o] = version]
  /\ Goes(o, IF version > SCHEMA_VERSION THEN "refused" ELSE "schema")
  /\ disturbed' = (disturbed \/ (version \in 1 .. SCHEMA_VERSION - 1 /\ \E p \in Opener : Underway(p)))
  /\ UNCHANGED <<ledger, left, at>>

\* CREATE TABLE IF NOT EXISTS: a table that is missing is made whole.
SCHEMA(o, t) ==
  /\ pc[o] = "schema" /\ t \in left[o]
  /\ left' = [left EXCEPT ![o] = @ \ {t}]
  /\ IF t = "rest"
     THEN /\ rest' = TRUE
          /\ columns' = IF rest THEN columns ELSE Columns
          /\ UNCHANGED shape
     ELSE /\ shape' = [shape EXCEPT ![t] = IF @ = "none" THEN "new" ELSE @]
          /\ UNCHANGED <<rest, columns>>
  /\ UNCHANGED <<version, rebuilt, rows, lost, pc, stored, at, disturbed>>

SchemaDone(o) ==
  /\ pc[o] = "schema" /\ left[o] = {}
  /\ Goes(o, "migrate")
  /\ UNCHANGED <<ledger, stored, left, at, disturbed>>

Migrating(o) == pc[o] = "migrate" /\ stored[o] \in 1 .. SCHEMA_VERSION - 1

Onward(o) ==
  /\ stored' = [stored EXCEPT ![o] = @ + 1]
  /\ at' = [at EXCEPT ![o] = 1]

\* What one statement does to the ledger, when SQLite accepts it.
Accepts(s) ==
  CASE s.op = "add" -> s.what \notin columns
    [] s.op = "create" -> s.what \notin rebuilt
    [] s.op = "copy" -> s.what \in rebuilt /\ shape[s.what] # "none"
                        /\ ~({"table", "copy"} \subseteq rows[s.what])
    [] s.op = "drop" -> shape[s.what] # "none"
    [] s.op = "rename" -> s.what \in rebuilt /\ shape[s.what] = "none"

Executes(s) ==
  /\ columns' = IF s.op = "add" THEN columns \cup {s.what} ELSE columns
  /\ rebuilt' = CASE s.op = "create" -> rebuilt \cup {s.what}
                  [] s.op = "rename" -> rebuilt \ {s.what}
                  [] OTHER -> rebuilt
  /\ shape' = CASE s.op = "drop" -> [shape EXCEPT ![s.what] = "none"]
                [] s.op = "rename" -> [shape EXCEPT ![s.what] = "new"]
                [] OTHER -> shape
  /\ rows' = CASE s.op = "copy" /\ rows[s.what] # {} -> [rows EXCEPT ![s.what] = @ \cup {"copy"}]
               [] s.op = "drop" -> [rows EXCEPT ![s.what] = @ \ {"table"}]
               [] s.op = "rename" /\ rows[s.what] # {} -> [rows EXCEPT ![s.what] = {"table"}]
               [] OTHER -> rows
  /\ lost' = IF s.op = "drop" /\ rows[s.what] = {"table"} THEN lost \cup {s.what} ELSE lost

\* executescript: the next statement.  One that meets a column that exists
\* ends the script and not the opening; any other failure is raised.
Statement(o) ==
  /\ Migrating(o) /\ at[o] <= Len(MIGRATIONS(stored[o]))
  /\ LET s == MIGRATIONS(stored[o])[at[o]]
     IN IF Accepts(s)
        THEN Executes(s) /\ at' = [at EXCEPT ![o] = @ + 1] /\ UNCHANGED <<pc, stored>>
        ELSE /\ IF s.op = "add" THEN Onward(o) /\ UNCHANGED pc
                                ELSE Goes(o, "failed") /\ UNCHANGED <<stored, at>>
             /\ UNCHANGED <<columns, shape, rebuilt, rows, lost>>
  /\ UNCHANGED <<version, rest, left, disturbed>>

MigrationDone(o) ==
  /\ Migrating(o) /\ at[o] > Len(MIGRATIONS(stored[o]))
  /\ Onward(o)
  /\ UNCHANGED <<ledger, pc, left, disturbed>>

\* The last statement: the version is this tool's.
WriteVersion(o) ==
  /\ pc[o] = "migrate" /\ ~Migrating(o)
  /\ version' = SCHEMA_VERSION
  /\ Goes(o, "open")
  /\ UNCHANGED <<columns, shape, rebuilt, rest, rows, lost, stored, left, at, disturbed>>

Kill(o) ==
  /\ Cardinality({p \in Opener : pc[p] = "killed"}) < MaxKills
  /\ Underway(o)
  /\ Goes(o, "killed")
  /\ disturbed' = (disturbed \/ stored[o] \in 1 .. SCHEMA_VERSION - 1)
  /\ UNCHANGED <<ledger, stored, left, at>>

Next ==
  \E o \in Opener :
    \/ _stored_version(o)
    \/ \E t \in Table \cup {"rest"} : SCHEMA(o, t)
    \/ SchemaDone(o)
    \/ Statement(o)
    \/ MigrationDone(o)
    \/ WriteVersion(o)
    \/ Kill(o)

Spec == Init /\ [][Next]_vars

(***************************************************************************)
(* Properties                                                              *)
(***************************************************************************)

\* The ledger has the shape version 13 of the code works on.
Current == columns = Columns /\ rebuilt = {} /\ \A t \in Table : shape[t] = "new"

\* Every opener but those of a newer ledger gets a ledger it can work on, with
\* the rows that were in it, when no opener was cut short in a migration or
\* met another one in it.  A ledger made from nothing needs no such luck:
\* two may make it at once and either may be killed.
UpgradedWhenAlone ==
  ~disturbed =>
    /\ lost = {}
    /\ \A o \in Opener :
         /\ pc[o] # "failed"
         /\ pc[o] = "open" => Current /\ \A t \in Table : "copy" \notin rows[t]

\* "an old ledger is upgraded rather than silently run against a shape the
\* code no longer expects" (ledger.py:29-30): whoever opens a ledger that was
\* whole has the current shape to work on.
OpenedIsUpgraded == (\E o \in Opener : pc[o] = "open") => Current
=============================================================================
