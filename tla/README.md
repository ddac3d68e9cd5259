# tdd-cli in TLA+

`tdd-cli` drives an agent through the cycles of a registered plan. It owns the
state: a ledger in SQLite, the commits it makes, and the working tree it
observes. The agent edits the tree and runs commands; the tool decides what phase
the run is in, from what suites report, and answers with a `next_action`. These
modules model what the tool decides and what may interleave with it.

Paths below are relative to `src/src/tddcli` unless they begin with `docs/`.

## The system

| Part | State | Operations | Hard behaviour |
|---|---|---|---|
| Phase machine: `machine.py`, `advance.py` | the open cycle's phase, targets, events, last tree hash | `advance` and its five handlers, open / close a cycle | the evidence a cycle needs spreads over many advances, the agent edits and commits between them; order of commit, regeneration, gates and close |
| Run commands: `cli.py` | the run row | `run start`, `cycle skip`, `target`, `annotate`, `blocker`, `resume --unblock`, `run abandon`, `sensitivity begin/check/end` | they change what `advance` relies on, in any phase |
| Ledger: `ledger.py` | one SQLite file per repository, shared by worktrees and guests | rows appended and updated, claims, cached baselines, migrations | several processes, one transaction per statement, crashes between statements |
| Claims: `ledger.py`, `cli.py` | `baseline_claim`, `advance_claim` | claim by insert, judge stale, release by worktree | reads before the claim, release of another owner's claim |
| Git: `gitutil.py`, `staging.py` | the working tree, HEAD | dirty paths, tree hash, classify and commit per phase | what was dirty before the run, what is outside the cycle's roots |
| Sensitivity snapshot: `snapshot.py` | the captured contents of dirty paths | capture, restore, fingerprint | contents it does not capture; commits between begin and end |
| Leases: `leases.py` | lock files and lease files on one host | take, sweep dead ones, release | files half written; two sweepers of one dead lock |
| Ledger service: `service.py`, `remote.py`, `wire.py` | sources, sessions, leases | guests' calls checked and forwarded, sources added and bound | threads; a run that closes between check and write |
| Contract, configuration: `contract.py`, `config.py` | the registered plan, `tdd.toml` | parsing, reachability over artifacts | a plan that fits in no run |
| Adapters: `adapters/` | result files of the last run (gradle) | run a suite, collect, parse the report | reports that say nothing, half written ones, one suite of several failing |
| Reports and identity: `render.py`, `docs.py`, `envelope.py`, `harness.py`, `fleet.py`, `identity.py`, `actor.py`, `runner.py`, `agentfs.py`, ... | none a run decides by | formatting, hooks, accounts | none modelled |

The parts meet in four places. A command reads the ledger, acts, and writes it,
one statement at a time. `advance` reads git, commits, and runs hooks that write
the tree. The agent writes the same tree, at any moment, and may commit by hand.
A supervisor blocks, unblocks and abandons runs.

What makes them correct, part by part:

- *Phase machine*: cycles in the plan's order, one at a time; a run completes
  when all are done; RED before GREEN for the test that counts, or an event that
  says otherwise; a close only on a tree the suites passed on; no close over a
  flagged stray path or a changed reference path; implementation in HEAD only
  after RED; what was dirty before the run is never the run's.
- *Claims*: one advance at a time in a worktree, one live run in a worktree, and a
  dead owner never bricks either.
- *Ledger*: after any crash the run can be continued or abandoned; a migrated
  ledger has the schema its version names.
- *Snapshot*: after a verified end the tree is what it was at begin.
- *Leases*: one holder of a named lease, live suites never share more than the budget
  for long, a crash frees its lease.
- *Adapters*: no verdict claims a test that did not run, no failure that was heard is
  lost, one bad file costs no other file its tests.
- *Baselines and sweep*: a baseline says what `start_sha` said; what a cycle may break is
  run before it closes.
- *Service*: a guest reads and writes its own source only; a closed run takes no
  writes; what is saved is what is listening.

`PROJECT.json` lists every component with its status, and under `hazards` what is
hard to test in this code, each at its line.

## Modules

| Module | What it is |
|---|---|
| `TddRun` | one run of one plan in one worktree: the tool's commands, the suites, the agent |
| `PlanProgress` | what a run promises whoever supervises it: order, one at a time, what completes it |
| `TddRun_proofs` | theorems about `TddRun`, `PlanProgress` among them |
| `MCTddRun` | instances of `TddRun` for TLC |
| `Claims` | several `tdd` processes over one worktree and one ledger, a step per ledger statement |
| `Claims_proofs` | theorems about the claims of `Claims` |
| `ClaimRows_proofs` | theorems about the type and the rows of `Claims` |
| `MCClaims` | instances of `Claims` for TLC |
| `Leases` | the lock and lease files of one machine, a step per file operation |
| `Leases_proofs` | theorems about `Leases` |
| `MCLeases` | an instance of `Leases` for TLC |
| `Registry` | what `config.py` answers about projects and artifacts, as operators |
| `CloseSweep` | baselines, GREEN's regression check and the close sweep of one cycle, over `Registry` |
| `CloseSweep_proofs` | theorems about `CloseSweep`, for every registry |
| `MCCloseSweep` | instances of `CloseSweep` for TLC |
| `Adapters` | the six adapters against a test runner, from a run to its verdict |
| `Adapters_proofs` | theorems about `Adapters`, for every adapter, registry and tree |
| `MCAdapters` | an instance of `Adapters` for TLC |
| `LedgerMigration` | processes opening one ledger file, a step per statement |
| `LedgerMigration_proofs` | theorems about `LedgerMigration` |
| `MCLedgerMigration` | instances of `LedgerMigration` for TLC |
| `LedgerService` | the sources of the ledger service, a step per statement |
| `LedgerService_proofs` | theorems about `LedgerService` |
| `MCLedgerService` | an instance of `LedgerService` for TLC |

The modules are coupled by what one assumes of another and not by one state space:
`TddRun` takes commands as atomic, which is what `Claims` is about; it takes verdicts as
free, which is what `Adapters` restricts; its green sweep is what `CloseSweep`
opens up, over the answers of `Registry`; a suite in any of them runs under the leases of
`Leases`; and the ledger they write is the one `LedgerMigration` opened.

### TddRun

*State.* The run row (`status`, `excluded` for `preexisting_dirty`, `base` for the
content of `start_sha`), the cycle rows (`phase`, `targets`), what the code reads
back of the append-only tables (`events`, `flagged`, `annotated`, `seen` for the
tree hash of the last invocation, `check` and `verified` for sensitivity checks),
and git: `wt` and `head` are functions from files to contents, so dirt, tree
hashes, snapshots and commits are what they are in the code. `tip` says what the
HEAD commit was made for, as its `TDD-Phase` trailer does. Five variables are
observations that no action reads: `red`, `green`, `own`, `bitten`, `proven`. `own` keeps
every tree a cycle's whole suites have passed on, not the last one: after a sweep on a
second tree that the gate of undeclared files blocked, the agent may commit its way back
to GREEN's tree, and `skip_own` rightly closes on that. `own_suites_run` says when a green sweep
has run them: not when `skip_own` holds, and only in a cycle of `Swept`, because
`close_sweep_projects` leaves a project with `in_close_sweep = false` out of its own cycle's
sweep too.

*Actions.* One per command, and for `advance` one per handler, each from its
guards to its last write:

| Action | Code |
|---|---|
| `AdvanceTest` | `_handle_test_phase` with `_adopt` and `_evaluate_adopted`, for AWAITING_TEST and AWAITING_PIN |
| `AdvanceImpl`, `AdvanceSensitivity` | `_handle_impl`, `_handle_sensitivity` |
| `AdvanceRefactor` | `_handle_refactor`: commit, artifacts, reference paths, sweep, gate, close |
| `AdvanceReferenceBlocked` | `_reference_paths_blocked`, before any handler |
| `run_start` | `cmd_run_start` from the reading of the dirty paths on; a refusal before the run row changes nothing |
| `cycle_skip`, `annotate`, `target`, `blocker`, `resume_unblock`, `run_abandon` | the `cmd_` function of that name |
| `sensitivity_begin`, `_check`, `_end` | the three steps of `cmd_sensitivity` |
| `Edit`, `CommitByHand` | the agent, one path at a time |

What a suite, a collection, a gate or a hook says is chosen freely: the properties
hold whatever it says. In particular `others`, the failures outside the targets, may
occur in every test phase (only a cycle of several projects can meet them there),
and the close sweep is green or not, with its baselines, late probes, gates and
flaky reruns inside that choice.

*Abstractions.*

- Ordinals are 1..N; the code compares declared ordinals and takes the next.
- A path has one class (`test`, `stub`, `implementation`, `ancillary`, `generated`,
  `outside`), and one set `Under` of paths is under the roots of every cycle's
  projects. Ignored files do not exist. `generated` includes what an artifact owns.
- The hooks write generated paths only, as the registry says they do.
- Every command is atomic: two commands never interleave. That is what the
  claims are for: `Claims`.
- The retry escalation (three retries in a row) only chooses the wording of
  a refusal, and is left out.
- A contract's targets are heard per project as `run_projects` hears them: the
  first target of a project's name in the list, declared ones before adopted ones.

### PlanProgress

Three variables: the run's standing, the cycle in progress, the cycles done.
`TddRun` implements it with `done` as the cycles in an ended phase and `current`
as the open cycle of lowest ordinal, 0 when there is none. A run that the
run-close gate blocked may resume with no cycle in progress; that is what the code
does, and the `unblock` run sets it against the document.

### Claims

`TddRun` has commands one after another; `Claims` has them side by side. The two do
not refine each other: `Claims` keeps the run rows, the cycle rows and the two claim
rows, and chooses freely what `TddRun` decides from suites and the tree.

*State.* `run` and `rows` are the tables, `advance_claim` and `baseline_claim` the
owner of each claim row (`Nobody` when there is none). `pc` and `my` are where each
process is and what it has read: a command acts on the run, row and phase it read, as
the code does, not on what the ledger says by then. `robbed`, `crossed` and `gone` are
observations no action reads.

*Actions.* Each command begins by reading the worktree's run (`BeginsOn`) and goes on
one statement at a time, because `Ledger._write` commits each by itself:

| Command | Steps |
|---|---|
| `advance` | read the open cycle, look at the claim, judge its owner, delete a stale row, insert or be refused, handle, re-read and close (`MoveToClosed`, `MarkClosed`), end the run or open the next cycle (read, then insert), release |
| `cycle skip` | read the open cycle, skip it, end the run or open the next; no claim |
| `run start` | no live run, plan not delivered, look, judge, delete, insert or be refused; baselines, run row, artifacts, first cycle, release |
| `run abandon` | run, look at the advance claim, judge; end the run, delete both claims |
| `blocker`, `resume --unblock` | run; end it, or make it live again |
| `Crash` | a process killed at any label; rows stay as they are |

*Abstractions.*

- One host: a claim is stale when its owner's pid is gone. The 60 minutes that stand
  in for it across hosts are not modelled. No pid is used twice. A process runs one command,
  so the number of processes bounds the commands of a behaviour.
- The phases before REFACTOR are one, `WORK`: closing reads only whether the row
  is to be closed. Gates, suites, artifacts, dirt and the tree are free choices.
- Two consecutive reads at the start of one command are one step (live run, else latest
  blocked run). Every pair of answers they can get holds at some one moment.
- A cycle row's `transition` row is only appended, and is left out.
- At least one cycle is declared.

### Leases

*State.* The lock file at the named path is `lockBy` (whose descriptor made it),
`lockText` (whether its owner is written yet) and `lockAge`; each process's worker
lease is a file of its own, with its age. `listed`, `counted`, `doomed` are what a
counting process has read and not yet acted on, `share` the workers it runs with.
`read` and `robbed` are observations.

*Actions.* One per file operation, because every one of them is where a kill or
another process can come between:

| Action | Code |
|---|---|
| `_run_suite` | `Adapter._run_suite`: the named lease first, where declared |
| `Open`, `Write`, `Judge`, `Sweep`, `Wait`, `Unlock` | `named_lease`: exclusive create, write, judge the owner, unlink, sleep, unlink |
| `Create`, `Fill`, `CountOne`, `Discard`, `TakeShare`, `Leave` | `worker_lease`: write the own file, judge every file listed, remove the dead ones, divide the cores, remove the own file |
| `SuiteEnds` | the suite ends, or `run_command` kills it |
| `Kill`, `Reuse`, `Tick` | a kill leaves the files, the pid may come to name another program, files age |

*Abstractions.* One named lease, one machine, one suite a process. Time is ticks; a file
is stale above `Stale` ticks as it is above `STALE_AFTER_S` seconds. Its clock stops at
`MaxAge`, above `Stale`, where nothing looks at how old it is any more. No process is
suspended longer than its suite's timeout. A worker lease is listed at one moment,
as `glob` reads a directory, and judged file by file afterwards. A guest takes its lease from
the service; `snapshot` only reads; neither is here.

### Registry and CloseSweep

`Registry` has no state. It defines `_root_project`, `close_sweep_projects`,
`reachable_projects`, `upstream_producer_roots` and `artifact_touched` over a
registry as a value, loops as least closed sets.

*State of CloseSweep.* The tree is what a suite and a gate can tell of it: which projects
fail, which leave no report (`mute`), whose gates fail, and a version per project from which
the hashes are made. `dirty` is what is uncommitted. `base`, `listed`, `gate`, `swept` and
`green` are the rows the decisions read. `changed` and `heard` are observations.

*Actions.* `cmd_run_start` (baselines of all the plan can reach, some of them reused from
the cache), `AdvanceImpl` (GREEN), `AdvanceRefactor` (commit, gates, `skip_own`, suites, late
baselines from a worktree of `start_sha`, rerun of untouched tests, close),
`_accept_failures_into_baseline`, and `Edit`.

*Abstractions.* A project has one suite with one test that matters, and one gate for lint
and typecheck. A shaky test may fail or pass on any tree, and nothing else is
flaky. Failing, mute and lint change only with an edit of a project they can depend on
through the registry. A cached baseline is the present result wherever the hash covers what
the project depends on, and free where it does not. The plan has one cycle. Test and
implementation phases before GREEN, and artifacts and reference paths, are in `TddRun`.

### Adapters

*State.* The project's registry entry as a member of `Registries` (adapter, what the override
owns, what the suites' commands discover, deselect and name), the tree (what each test does,
which files do not import or compile), gradle's result files, what was collected at run
start, and one run: its mode, the invocations left, what was heard, what really ran, the
verdict.

*Actions.* `Start`, `_clear_results`, `_run_suite` (one invocation), `gradle_suite`, `Judge`
(the adapter's `run` from the report to the verdict), `Return`, `Edit`. `collect`, `collectable`
and `override_isolation` are operators.

*Commands.* A suite has a test command and a listing command. `reach` and `drops` say, for
each of the two, which files it discovers and which tests its markers and options deselect.
`fixed` are the suites whose listing command names a path of its own, which pytest takes
whole when it is given a file or a test besides (`pytest_adapter.py:151-162`); `bare` is an
override without a `collect_command`, which with pytest lists with its `test_command`
(`pytest_adapter.py:239-246`) and with vitest not at all. A target-only run of pytest is one of
the listing command (`Cmd`); `odd` are the suites whose listing command runs a test otherwise
than their test command does. `override_isolation` looks at the default suite alone: at the
test command with pytest, at the listing command with vitest (`Probe`).

*Abstractions.* The runners (pytest, vitest, cargo, gradle, xcodebuild, a script) are
external: `Pytest` and its siblings say what a runner may report, for each state of the
tree, as the adapters rely on it, a death at any point included. A report is the set of
results in it; its text is not modelled. A test whose file another suite owns may do anything
under this one. A project has one override at most. A vitest listing takes the
file it is given as a filter and no path of its own. The ids that xctest greps from the sources
when its enumeration fails are taken to be the enumeration's (`xctest_adapter.py:187-202`).

### LedgerMigration

*State.* The version row, the columns that exist, each rebuilt table's shape and where its
rows are, and per opener what it has read and how far it is.

*Actions.* `_stored_version` (refuse a newer ledger), `SCHEMA` (one `CREATE TABLE IF NOT
EXISTS` at a time), `Statement` (one statement of the migration, ending the script at a column
that exists), `MigrationDone`, `WriteVersion`, `Kill`. The migrations are data: `Added` and
`Rebuild` spell out `MIGRATIONS`.

*Abstractions.* The migrations that only add a table are empty here, because `SCHEMA`
has made it. Of the tables no migration rebuilds only the added columns are
followed, and they are made together. A table has rows or none; a copy takes all of them.

### LedgerService

*State.* `executors` and `listeners` are the service's two dictionaries, `file` and
`partial` what `sources.json` and its `.partial` hold, `fd` which of them a writer's
descriptor is of by now. Each connection of an operator, and the start of the service, is a
changer with its own `pc`. `asked` and `clash` are observations.

*Actions.* `Start`, `Restore`, `Kill`; `admin` for the requests, then `SetExecutor`,
`add_source`, `remove_source`, `DropExecutor` for the statements of a change, and `Collect`,
`OpenPartial`, `WritePartial`, `ReplaceFile` for `_save`; `Connect` and `_stamp_executor` for a
guest. `ListenFails` is a socket that does not open (`service.py:466`), `CollectFails` the
`KeyError` of a source with an executor and no listener (446), `SaveFails` and `ReplaceFails` an
operation on the saved file that fails: each ends the operator's connection unanswered,
because nothing catches it (353-370), and ends a service that is starting. `unheard` are the
sources whose socket did not open.

*Abstractions.* A guest's calls are the two that record an executor. A file is missing,
empty, torn or whole. What is written is on disk: only the process is killed,
not the machine. Two writers through one file leave the later text, or a torn one. An operation
that fails leaves the file as it was before it.

## Runs

| Run | Shows | Instance | States |
|---|---|---|---|
| `core` | type, order, arrival, red before green, audited targets, close on a green tree, excluded dirt, implementation after RED, refinement of `PlanProgress` | a standard and a pin cycle, two tests of one project, a test file and an implementation file, two contents | 1.45M |
| `close` | completion, clean closes, reference paths | a contract cycle over two projects and a refactor cycle with an annotation, a third test to adopt, a test file, a stray file outside the roots, a generated file that is a reference path | 634k |
| `claims` | the claims exclude unless another command deletes one; the dead refuse nobody; while no two writers of cycle rows overlap, a run has one open row and a complete run shows all its cycles | three processes, three cycles of which the first opens in REFACTOR, two run ids, with no run at first or with a run just started | 91.5k |
| `leases` | who gets past the named lease, whose file a sweep takes, who counts whom; under fairness, no crash blocks the name and every suite ends | two processes and one killed before them, all under the lease, two cores, one kill, `Timeout` = `Stale` = 1, `MaxAge` = 2 | 420k |
| `sweep` | types, baselines say what `start_sha` said, sweeps stay in reach, closes leave no regression and no failing gate | three projects in a chain of three artifacts, plain or nested under a root of ".", a cycle at either end, one shaky project, three edits | 2.8M |
| `adapters` | types and the six properties of verdicts and collection | the six adapters, two tests in two files, 250 registries of the families in `MCAdapters`, one edit | 3.15M |
| `migration` | types, whoever opens alone gets the current shape with all rows | three openers, two kills, ledgers of versions 0, 1, 3, 4, 7, 10, 12, 13 and 14, cut short or whole | 657k |
| `service` | types, what was answered is what is listened on after any restart, runs record what was bound | two operators, two sources, one model, one guest, three requests, one kill, one failure | 4.43M |
| `unblock`, `survives`, `downstream`, `upgrade` | one disagreement of code and document each | the smallest instance that has the case | |

*Bounds.* `Fuel` counts what the agent and the supervisor do of their own accord in
`TddRun`: an edit, a hand commit, a renamed target, a sensitivity begin, an unblock. The
tool's own steps are not bounded. Three are enough in `core` for the sequences its
properties are about: edit between GREEN and close, dirt before start that changes
later, mutation between begin and end, retarget after RED. Two are enough in
`close`: a stray edit or a changed reference path, and one more step. Two contents
tell changed from unchanged and from absent; two cycles tell this cycle from the
next and from the last. Neither instance of `TddRun` has symmetry.

In `claims` three processes are an advance that judges, one that owns, and one that
deletes between the two; a fourth process added nothing when it was tried. Three cycles
are needed to tell a row opened again from the row that is open. Two run ids let a
second start, or an unblock, meet another run. Processes are interchangeable, so the
instances use their symmetry, which is sound here: no property is a liveness property,
and no action or constant singles a process out.

In `leases` the three processes are an owner, a waiter that judged, and another that
takes the lock in between; the one killed before the others is the owner whose sweep
starts the trouble. `MaxKills` is one more kill. `Timeout` = `Stale` is the boundary at which a
suite may still run while its file is exactly as old as the limit allows. The run has
liveness properties and no symmetry.

In `sweep` three edits are a change, a break elsewhere and a repair; three projects are the
least with a consumer of a consumer. `MaxEdits` counts the versions of all projects
together. In `adapters` the second test is the one whose failure, file or result may be
taken for the target's, and one edit is what lies between two runs of a cycle. The families of
registries each vary one thing: what the runs discover, with every file owned by the override
or none; what the listings discover; overrides that cannot list; commands that name a
path; markers of one command or one suite. In
`migration` every version at which the shape of something changes for the modelled tables
is among `OnDisk`, with 14 for a newer tool; two kills are a migration cut short twice. In
`service` two requests can overlap and a third repair or repeat; `MaxFails` is one socket or file
operation that fails. The operators are interchangeable and no property is a liveness property.
The view `Live` drops what a request that is over had in hand, which nothing reads.

*Deadlock.* A run of `TddRun` that is over stutters in `Over`, `Claims` in `Rest`, a machine
of `Leases` ages without end, and every other state has a step, so those runs check deadlock,
as `adapters` does. `CHECK_DEADLOCK FALSE` stands where the system may stop: a cycle that is
closed (`sweep`), openers that are all done (`migration`), and a service whose operators
have made their requests, or that was last killed over a file it cannot read (`service`).

*Fairness.* `Leases` is the one module with fairness: weak fairness of `Tick`, because
time passes, and of each running process's own next step, because the operating system
schedules it and `run_command` ends its suite. There is none for starting a suite, for kills or
for the reuse of a pid. Nothing is strongly fair, so a waiter may be overtaken; `EverySuiteEnds`
holds because each process has one suite, hence finitely many overtakings. Everywhere else
the properties are safety properties: nothing in the code makes an agent run the next
command.

*What is deliberately weaker than one might expect.* `RedBeforeGreen` is about standard
cycles: a contract cycle drops verdicts and hears one target per project.
`CloseOnGreenTree` is about cycles whose projects are all in the close sweep.
`ExcludedNeverAbsorbed` exempts generated paths: an artifact's commit takes every dirty
generated path. `CloseIsClean` is about closes: a skipped last cycle passes no gate.
`LeaseExcludes` and `OneSeesTheOther` except a process whose file was removed while it
lived, which the code allows; `ReadHolderKeeps` says who can do that. `ClosedIsClean`
excepts what `skip_own` cannot see. `GatesAreCurrent` is about gates that read nothing but
the project's root. `UpgradedWhenAlone`, `AcknowledgedHolds` and `RunsRecordTheBinding`
except two that were under way at once, and one that was cut short; `AcknowledgedHolds` also a
source whose socket did not open. `PassedIsEarned` and `NarrowAgreesWithWhole` except suites that
`override_isolation` finds not isolated and those that reach the target where it does not look
(`Stray`), and the second a pytest suite whose two commands run the target differently.
`CollectionIsWhole` excepts what a listing command deselects or does not discover, and a pytest
command that names a path. `TypeOK` of `Leases` and of `CloseSweep` hold more than types:
a running suite has a worker, and no probe without an observation is recorded. Each exception
is a disagreement below.

## Known disagreements

Four are shown by a run; `PROJECT.json` quotes the lines under `findings`.

- `unblock`: an unblock after the run-close gate leaves a live run nothing can complete.
- `survives`: a kill between closing a cycle and opening the next leaves a live run in which
  no command opens the cycles that are left.
- `downstream`: a consumer of an artifact the cycle changed at GREEN is not swept at
  the close.
- `upgrade`: two processes that open an old ledger at once can leave one of them working
  on a shape that is not migrated yet.

Six more are stated in `TddRun` and `Claims`, under what the documentation says and the
code does not do, with the line each quotes. TLC refuted each on the instance of its own
that it needed; they are kept as definitions, without a run:

- `SensitivityProven` (`docs/PRD.md:290`, `advance.py:487`): a sensitivity check that
  mutated nothing opens the way out of SENSITIVITY_REQUIRED.
- `TargetsFailTogether` (`docs/PRD.md:824`, `advance.py:317`): a contract cycle leaves
  AWAITING_TEST with a kept target passing.
- `NoCommitUnderCheck` (`docs/PRD.md:912`, `cli.py:1313`): a skip leaves a check open
  under which the next cycle commits.
- `SingleFlight` (`docs/PRD.md:929`, `cli.py:1283`): a release deletes the worktree's
  claim whoever owns it, so two advances can be at work.
- `OneOpenRow` (`docs/PRD.md:925`, `machine.py:593`): two skips can open one cycle twice.
- `OneStartWins` (`tests/test_run_claim.py:130`, `cli.py:920`): two starts that both looked
  before either claimed both start a run.

Others were met while translating. Those a property excepts are modelled; the rest are
notes for whoever changes that code:

- *Leases.* The named lease is not exclusive: a lock file is empty before its owner is
  written, and what a waiter judged dead is not what it unlinks. The bound in the comment at
  `leases.py:51` holds for suites that have a timeout no longer than it.
- *Sweep.* `skip_own` hashes the cycle's own roots, so a suite that an upstream project
  broke is not run again. A gate is reused on the hash of its own root. A sweep does not
  look at a verdict's `error`: a suite that left no report has no failures (`docs/PRD.md:386`
  says otherwise of a run). A project with `in_close_sweep = false` is not in the sweep of its own
  cycles either (`config.py:284`, as `docs/PRD.md:711` has it), so what its REFACTOR changed is
  never run; the full sweep that would run it at plan completion (R9.3, `docs/PRD.md:716`)
  does not exist: `full_sweep_projects` (`config.py:295`) has no caller. A chain of artifacts that comes back to itself loads, and
  `_root_project` recurses without end.
- *Adapters.* A pytest run with an uncollectable file elsewhere reports the target not
  found. A cargo that dies without "could not compile" reads as a clean run, and one id in two
  crates as passed when either passed. gradle reads an old result file it could not
  remove, and skips a torn one. The `exec` adapter takes no lease and no timeout
  (`exec_adapter.py:163`, `config.py:114-118`). The listing and the per-file loop disagree about
  files that a suite's own discovery skips, and about tests a listing command deselects.
  `override_isolation` probes the default suite only, and of vitest its listing command: an
  override that reaches a file it does not own runs it unseen. RED runs the listing
  command and GREEN the test command (`pytest_adapter.py:151-162`): options in one only decide
  what each of them sees. A pytest override without a `collect_command` whose `test_command`
  names a path loses all its files to one broken file there (`pytest_adapter.py:349-360`). A
  healthy file that `vitest list` does not discover is recorded as failed
  (`vitest_adapter.py:398-406`).
- *Ledger.* An old ledger whose migration was killed half way is not completed: the next
  opener meets the first column it added and goes on to raise the version. A new ledger whose
  first opener, of an older tool, was killed before the
  version row is taken for new and is never migrated.
- *Service.* Two saves share one `.partial` file; a service killed while it starts has
  saved the sources added so far and drops the others (`docs/split-runner.md:254`); a bind that
  meets a removal leaves an executor without a listener, and so does one operator who adds
  a source whose socket does not open (`service.py:465-466`). From then on every add, bind
  and removal of another source is made in memory and raises `KeyError` in the save (446), as
  the listing of sources does, until the source is added again; its own removal raises before
  it changes anything (513). A start that meets such a socket
  ends, having saved only the sources added so far. "A
  closed run stays closed" (`docs/split-runner.md:334`) is checked before the write and not
  with it (`service.py:211`).

## Proofs

`TddRun_proofs` proves for every plan, repository, classification and behaviour
of suites, from the assumptions on constants that `TddRun` names:

| Theorem | Argument |
|---|---|
| `TypeCorrect` | inductive as it stands; one lemma per handler |
| `CyclesInOrder`, `CompleteRunIsDone` | `OrderInv`: order and completion, and that a started run has its first cycle's row, an unstarted one none, and an ended cycle its successor's. Order alone is not inductive: opening the successor must meet a row that does not exist yet, and completion needs that the last cycle's end leaves no row open |
| `RefinesPlanProgress` | a step is reduced to `RunStep` (start, move the open cycle, end it, change the row only), then mapped under `OrderInv` |
| `ArrivalIsVerified` | `ArrivalInv`: a cycle still in its test or implementation phases has no violation event, a pin cycle is never in AWAITING_TEST or AWAITING_IMPL, so the only way on is through the check |
| `TargetsAreAudited` | inductive with the evidence steps |
| `RedComesBeforeGreen` | `RedInv`: a standard cycle has one target, which from RED on was seen failing, unless the agent named it; it is in SENSITIVITY_REQUIRED only with the violation event |
| `ExcludedStaysOut`, `ImplementationBehindRed` | no invariant beyond the type: `StageTakes`, what a phase's commit may take of each class of paths, applied to every handler that commits |
| `ClosesOnGreen` | `SeenGreen`: past its test and implementation phases, the tree hash in a cycle's row is of a tree its whole suites passed on, which is what `skip_own` compares with; in a cycle of `Swept` the sweep runs them otherwise. `ClosesByRefactor` reduces every close to the one in `AdvanceRefactor` |
| `ClosesClean`, `ClosesWithinReferences` | the same reduction, and the guards between it and the close: the gate reads the tree that is left after regeneration and commit |

`ArrivalIsVerified`, `TargetsAreAudited` and `RedComesBeforeGreen` rest on `EvidenceStep`: whatever the step, each cycle's evidence
(phase, targets, events, red, green, verified) changes in one of a few ways. Assumptions used: N
is a natural number; kinds are the four; a refactor cycle and only it declares no
test; a standard or pin cycle declares one (`contract.py` refuses others); tests,
files and contents are arbitrary sets.

`Claims_proofs` proves for any number of processes, cycles and run ids:

| Theorem | Argument |
|---|---|
| `ClaimsExclude` | `Owned`: who is past a claim owns its row unless robbed. It is inductive because the insert needs an empty row, a release empties it, and a release that meets another running owner's row puts that owner in `robbed` |
| `OnlyTheLivingRefuse` | `Judged`: from its look to its insert, a command whose claim row belongs to a process that had ended before it began has read that owner, so it judges it stale; with `Past`, that what had ended stays ended and inserts nothing |

Both rest on `StepEffect`: a step of a process waits, takes a claim, or drops one,
leaves the other processes where they are, and is taken by a process that has not ended. One
lemma per command shows it. The invariant needs no assumption about the ledger's rows,
only that `Nobody` is no process.

`ClaimRows_proofs` goes on to the rows, from any coherent set of ledgers:

| Theorem | Argument |
|---|---|
| `RowsTyped` | the type, with `RowsInv` |
| `ApartIsOne`, `CompleteIsClosed` | `RowsInv`: the type, what holds of the shared rows (`Shared`: a row has a run and its predecessors' rows, two starting processes have different runs, and writers that are between their statements at once have `crossed`), and what a process may believe (`Local(p)`: the row in hand is of its run, a starting run has no rows; and while writers have not crossed, the row it is about to close is open, and the run whose next cycle it is about to open has none open). Each step of a process is `Acts(p)`: it changes the rows in one of the ways `RowEffect` lists, and leaves `Local` true. Single rows need the stale row an advance may still hold, hence `Local`; that the newest row of a cycle is the one the code reads is `NewestIsOne`, by well-founded minimality |

`RunsAssumption` (run ids are 1..n) and `LedgersAssumption` (the ledgers a behaviour begins
with are coherent) are the assumptions it adds.

`Leases_proofs` proves for any number of processes and any cores, timeouts and kills:

| Theorem | Argument |
|---|---|
| `TypeCorrect` | inductive with what a removal has in mind; a share is at least one worker because `TakeShare` rounds up to one |
| `LeaseExcluded` | `HoldersOwn`: who is past the lease owns the file at the path, or is in `robbed`. Creating exclusively establishes it; whatever removes a living owner's file records it |
| `ReadHolderKept` | `Judged`: no living owner's file is older than `Timeout`, and what a sweeper read as a whole file belongs to a dead process. It needs `Timeout <= Stale`, a hypothesis of the theorem: the code bounds neither by the other |
| `SharesAreKnown` | `Witnessed`: of two processes that are counting or running, one is in what the other has still to judge, or counted it, or lost its file |

`CloseSweep_proofs` proves for every registry the assumptions admit, any plan, any set of
shaky tests and any number of edits. It begins with the registry: `Least` of a closure is
closed and contained in every closed set, so what can affect a project is what
`upstream_producer_roots` lists for its hash (`HashCovers`), and what a cycle of its own files
can affect is within `reachable_projects`.

| Theorem | Argument |
|---|---|
| `TypeCorrect` | inductive as it stands |
| `BaselinesHold`, `SweepsStayInReach` | `StartInv`: the type, the baselines themselves, and `Begun`: until run start the tree is that of `start_sha`, afterwards what was listed is what the plan can reach, and what was swept is within it. A baseline from the cache is of the start because its hash covers everything an edit could have come from (`NothingCachedIsStale`) |
| `ClosesClean`, `ClosesOnCurrentGates` | `CloseInv`: `StartInv`, `GreenSound` (while the hash of GREEN is still that of the cycle's roots, what fails there failed at the start or was broken from outside those roots, which is all `skip_own` may believe) and `GateSound` (the same of a gate and its project's root) |

`LedgerService_proofs` proves for any number of operators, sources, guests, requests and kills:

| Theorem | Argument |
|---|---|
| `TypeCorrect` | inductive with `Down`: nothing is under way in a service that does not run, and with no source both heard and unheard |
| `AcknowledgedKept`, `BindingRecorded` | `ServiceInv`: the type, `Down`, and unless there was a clash `Orderly`: one changer at most is under way; what it has done follows from the statement it is at (`Placed`); a source has what was asked for, or waits for the start to add it (`Kept`); it has a listener exactly when it has an executor, unless it is being given or losing one or its socket did not open (`Heard`); and unless the start is under way the file holds nothing but what was asked for. `Kept` alone is not inductive: the file replaces what a kill takes, and what the file holds follows from `Placed` |

Both modules assume of their constants what `RegistryAssumption`, `CloseSweepAssumption` and
`ServiceAssumption` name; the next two what `AdapterAssumption` and `MigrationAssumption` do.

`Adapters_proofs` proves for the six adapters, any number of tests, files and edits, any
registry that `IsRegistry` admits (one override at most), and every tree:

| Theorem | Argument |
|---|---|
| `TypeCorrect` | inductive as it stands; `RunnerIs` says of each adapter's runner what may be heard of it, `GradleIs` what it leaves in the result files |
| `CollectsWhole` | a statement about every tree, from `Registered` (the configuration is what `Init` found): a listing is of the whole suite or of nothing (`BatchIs`), so a test that its suite discovers and no listing deselects (`Listed`) is in the listing that settles its file (`SettledIs`), or in the file's own (`AloneIs`, `ListsOrLoops`) |
| `AdoptsNew` | `MissedThen`: the same of the collection at the run's start, which no later edit changes |
| `ReportsFailures` | `RunInv`, below |
| `PassesAreEarned`, `UnimportableIsSaid` | `RunInv`, with `OwnId`: no other test has the target's id. `TargetIs` reads a verdict back to what was heard, `TargetRan` to a run of the target, `RightSuite` to the suite: its own, or one that strays |
| `NarrowAgrees` | `LastIsTrue`: a verdict on the target since the last edit says what the target does on the tree that is there. The property relates two runs and is not inductive; this relates each of them to the tree |

`RunInv` is the run from its call to its verdict: what was heard is what ran; only tests that
the suites asked for could run did, with an outcome they may have; a suite that has been asked
has had its broken files refused, as its adapter does that; and in gradle's result
files, once the old ones are gone, there is nothing that did not run. `OwnId` is a hypothesis of
three theorems, because the adapters compare ids: with two tests of one id TLC refutes all three
on two files, which is the disagreement about one id in two crates above.

`LedgerMigration_proofs` proves for any number of openers and kills, and any versions on disk:

| Theorem | Argument |
|---|---|
| `TypeCorrect` | inductive with what the migrations are made of: no version adds more than two columns, and the last has two columns and three rebuilds |
| `UpgradesWhenAlone` | `UpgradeInv`: while nothing was disturbed, the ledger is in one of three states. `Fresh`: made from nothing, by any number of openers at once, none of which migrates. `Old`: of an earlier version, with one opener at most under way, and `Midway` says which statement of which migration it is at, from which columns and which shape of each table follow. `Upgraded`: all of version 13 is there, whatever version it says. A kill or a second opener in `Old` is what `disturbed` records, so only `Fresh` and `Upgraded` have to bear others |

That a column is added once and by one version, and what is there before each version, are
lemmas about the data (`AddedOnce`, `ColumnsGrow`, `Joined`): the module proves them of the
migrations that `LedgerMigration` spells out.

So every safety property a passing run checks is also a theorem. Model-checked only:
`CrashNeverBlocks` and `EverySuiteEnds` of `Leases`, which are liveness properties and stay
with TLC, as do enabledness and what a recursive definition computes (`_root_project`, the one
recursive function of `Registry`).

## Not modelled

- *Run commands*: `init` and `plan register` write once before a run exists; `progress`, `status`,
  `log` and the doctor's checklist only read. The retry escalation chooses the wording of a refusal.
- *Git interface*: the temporary index behind a tree hash, renames, ignored files,
  submodules.
- *Sensitivity snapshot*: files above the size limit and unreadable ones, which are
  captured without their content.
- *Plan contract, configuration*: parsing, validation, glob patterns and `config_sha`. They are
  functions from text, without a state to go wrong.
- *Ledger service*: leases of guests, the foreign-run and closed-run checks, reports and
  imports; the ledger client (`remote.py`, `wire.py`), one request and one answer a line
  without a retry.
- *Rendering, documentation, identity, accounts, harness, fleet, lint, paths*: they read
  rows or write text, and no decision of a run reads them.
- Between steps of one command the agent does not edit in `TddRun`; `Claims` splits the
  commands and has no tree. So a kill between a commit and its transition, and an edit during
  `run start`, are not covered.

## Plan

Done: `TddRun` and `PlanProgress`, `Claims`, `Leases`, `Adapters`, `Registry` and `CloseSweep`,
`LedgerMigration`, `LedgerService`, and the proofs above.

Left, most important first:

1. `TddRun` with the agent's edits, and kills, between the steps of `advance` and of `run
   start`, which would join `Claims` with the tree.
2. `TddObedient`: an agent that does what `next_action` says, over `TddRun`, with weak
   fairness of the agent and suites that eventually pass; every run ends.
3. The service's guest leases and closed-run check; snapshot contents that are not
   captured.
4. Proofs: that `CloseSweep` restricts the close of `TddRun`, and `Adapters` its verdicts,
   where the modules now only name what they take from each other.
