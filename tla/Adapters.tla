------------------------------ MODULE Adapters ------------------------------
(***************************************************************************)
(* The test adapters of one project: what run, collect and the doctor's    *)
(* probes make of what a test runner does.  The runner is the environment: *)
(* it is started once per suite, its report is what the adapter hears of   *)
(* it, and it may die before it has reported all it ran.  The agent edits  *)
(* the tree between runs.                                                  *)
(*                                                                         *)
(* A test is a model value of one file; IdOf is the id its runner gives    *)
(* it, and the adapters compare ids only.  A project may declare one       *)
(* override, which owns some of the files (Project.override_for).  A test  *)
(* means what it means only under the command and environment of the suite *)
(* that owns its file: under the other any outcome is possible.  A suite   *)
(* has two commands, to run its tests and to list them, which need not     *)
(* discover the same files or select the same tests.                       *)
(***************************************************************************)
EXTENDS Naturals, FiniteSets, Sequences

CONSTANTS
  Test,      \* the tests
  File,      \* the test files
  FileOf,    \* the file of each test
  IdOf,      \* the id of each test
  Target,    \* the test a cycle is about
  Registries, \* the declarations of a project that are considered
  MaxEdits   \* bound: edits of the tree after the run began

Kind == {"pytest", "vitest", "cargo", "gradle", "xctest", "exec"}
Suite == {"default", "override"}
Command == {"test", "collect"}
Outcome == {"passed", "failed", "skipped"}
Body == {"absent", "pass", "fail", "skip"}
Id == {IdOf[t] : t \in Test}
Home == FileOf[Target]

\* What tdd.toml can declare of one project: the fields are the variables of
\* the same names.  Only pytest and vitest compose suites.  A pytest override
\* without a collect_command lists with its test_command.
IsRegistry(r) ==
  /\ r.kind \in Kind
  /\ r.overridden \in BOOLEAN /\ r.bare \in BOOLEAN
  /\ r.owned \subseteq File /\ r.inline \subseteq File \ {Home}
  /\ r.reach \in [Suite -> [Command -> SUBSET File]]
  /\ r.drops \in [Suite -> [Command -> SUBSET Test]]
  /\ r.fixed \subseteq Suite /\ r.odd \subseteq Suite
  /\ ~r.overridden => r.owned = {} /\ ~r.bare
  /\ r.kind # "cargo" => r.inline = {}
  /\ r.kind # "pytest" => r.fixed = {} /\ r.odd = {}
  /\ r.kind \notin {"pytest", "vitest"} =>
       /\ ~r.overridden
       /\ \A c \in Command : r.reach["default"][c] = File /\ r.drops["default"][c] = {}
  /\ r.kind = "pytest" /\ r.bare =>
       /\ r.reach["override"]["collect"] = r.reach["override"]["test"]
       /\ r.drops["override"]["collect"] = r.drops["override"]["test"]
       /\ "override" \notin r.odd

ASSUME AdapterAssumption ==
  /\ FileOf \in [Test -> File]
  /\ Target \in Test
  /\ DOMAIN IdOf = Test
  /\ \A r \in Registries : IsRegistry(r)
  /\ MaxEdits \in Nat

VARIABLES
  kind,      \* the project's adapter
  overridden, \* whether it declares an override
  owned,     \* the files the override owns
  bare,      \* whether the override declares no collect_command
  inline,    \* files that are not under test_paths: cargo's unit tests in src/
  reach,     \* the files each suite's discovery reaches, by command
  drops,     \* the tests each suite's markers and options deselect, by command
  fixed,     \* the suites whose listing command names a path of its own, and so
             \* takes that path whole when it is given a file or a test as well
  odd,       \* those whose listing command runs a test otherwise than the other
  body,      \* what each test does, "absent" until it is written
  broken,    \* files that do not import, compile, or may not be executed
  edits,     \* edits since the run began
  xml,       \* gradle: the outcome each test's result file holds, or "none"
  torn,      \* gradle: files whose result XML was left half written
  stuck,     \* gradle: files whose old result XML could not be removed
  known,     \* the ids collected when the run began
  there,     \* the tests written when the run began (observation)
  spoilt,    \* the files recorded uncollectable then
  pc,        \* "idle", "clear", "suite" or "judged"
  mode,      \* "red" target only, "green" whole with a target, "sweep" whole
  todo,      \* the suite invocations still to make
  heard,     \* what the runners reported so far
  ran,       \* the tests that really ran: <<suite, test, outcome>> (observation)
  verdict,   \* the Verdict
  last       \* the target's last passed or failed since the tree changed

registry == <<kind, overridden, owned, bare, inline, reach, drops, fixed, odd>>
tree == <<body, broken, edits>>
start == <<known, there, spoilt>>
results == <<xml, torn, stuck>>
run_vars == <<pc, mode, todo, heard, ran, verdict>>
vars == <<registry, tree, start, results, run_vars, last>>

Composed == kind \in {"pytest", "vitest"}

(***************************************************************************)
(* Configuration                                                           *)
(***************************************************************************)

\* override_for, as the name of the suite that owns a file.
override_for(f) == IF f \in owned THEN "override" ELSE "default"
Written(t) == body[t] # "absent"
Healthy(f) == f \notin broken
HasTests(f) == \E t \in Test : FileOf[t] = f /\ Written(t)
Ids(T) == {IdOf[t] : t \in T}

\* The default suite, then each override's.
_suite_invocations ==
  IF ~overridden THEN <<"default">> ELSE <<"default", "override">>

(***************************************************************************)
(* Collection                                                              *)
(***************************************************************************)

_test_files == File \ inline
Listable(F) == {t \in Test : FileOf[t] \in F /\ Written(t)}
Discovered(s) == reach[s]["collect"]

\* What the listing command of a suite shows of some files.
Shown(s, F) == Listable(F) \ drops[s]["collect"]

Unusable == [ok |-> FALSE, tests |-> {}]
Listing(T) == [ok |-> TRUE, tests |-> T]

\* Mutant: the exit code of a listing is not looked at.
_collect_batch_anyway(s) == Listing(Shown(s, Discovered(s) \ broken))

\* pytest's exit code also says so when there is nothing to list.
pytest_batch(s) ==
  IF Discovered(s) \cap broken # {} \/ Shown(s, Discovered(s)) = {} THEN Unusable
  ELSE Listing(Shown(s, Discovered(s)))

\* An override without a collect_command is not listed at all.
vitest_batch(s) ==
  IF (s = "override" /\ bare) \/ Discovered(s) \cap broken # {} THEN Unusable
  ELSE Listing(Shown(s, Discovered(s)))

cargo_batch(s) ==
  IF Discovered(s) \cap broken # {} THEN Unusable ELSE Listing(Shown(s, Discovered(s)))

\* One listing of a whole suite: one file it cannot import fails it.
_collect_batch(s) ==
  CASE kind = "pytest" -> pytest_batch(s)
    [] kind = "vitest" -> vitest_batch(s)
    [] OTHER -> cargo_batch(s)

\* A listing that is not empty settles the files of its own suite, listed or
\* not; any other only those it lists.
Settled(s) ==
  LET batch == _collect_batch(s)
      owns == {f \in File : override_for(f) = s}
  IN {FileOf[t] : t \in batch.tests}
       \cup IF batch.ok /\ batch.tests # {} THEN owns ELSE {}

\* The files a suite's listing command looks at when it is given one: pytest
\* adds it to a path the command names, vitest filters what it discovers.
Given(s, f) ==
  CASE kind = "pytest" -> {f} \cup (IF s \in fixed THEN Discovered(s) ELSE {})
    [] kind = "vitest" -> {f} \cap Discovered(s)
    [] OTHER -> {f}
Alone(f) == Given(override_for(f), f)

\* Whether the loop's listing of one file counts as a failure: pytest's exit
\* code, vitest's empty output, cargo's build of the file and the library.
pytest_refuses(f) == Alone(f) \cap broken # {} \/ Shown(override_for(f), Alone(f)) = {}
vitest_refuses(f) == (bare /\ f \in owned) \/ Shown(override_for(f), Alone(f) \ broken) = {}
cargo_refuses(f) == f \in broken \/ inline \cap broken # {}

Refused(f) ==
  CASE kind = "pytest" -> pytest_refuses(f)
    [] kind = "vitest" -> vitest_refuses(f)
    [] OTHER -> cargo_refuses(f)

_collect_per_file(F) ==
  [tests |-> UNION {Shown(override_for(f), Alone(f)) : f \in {f \in F : ~Refused(f)}},
   failed |-> {f \in F : Refused(f)}]

Suites == {_suite_invocations[i] : i \in DOMAIN _suite_invocations}

\* Mutant: a listing settles every file.
base_collect_settles_all ==
  LET listed == UNION {_collect_batch(s).tests : s \in Suites}
      loop == _collect_per_file(IF listed # {} THEN {} ELSE _test_files)
  IN [tests |-> listed \cup loop.tests, failed |-> loop.failed]

\* Listings first, then the loop over the files none of them settled.
base_collect ==
  LET listed == UNION {_collect_batch(s).tests : s \in Suites}
      loop == _collect_per_file(_test_files \ UNION {Settled(s) : s \in Suites})
  IN [tests |-> listed \cup loop.tests, failed |-> loop.failed]

\* gradle greps the sources; xctest does when its enumeration, which builds,
\* fails or finds nothing; exec walks its scripts.
gradle_collect == [tests |-> Listable(File), failed |-> {}]

xctest_collect ==
  LET enumerated == IF broken = {} THEN Listable(File) ELSE {}
  IN [tests |-> IF enumerated # {} THEN enumerated ELSE Listable(File), failed |-> {}]

exec_collect == [tests |-> Listable(File \ broken), failed |-> File \cap broken]

collect ==
  CASE kind = "gradle" -> gradle_collect
    [] kind = "xctest" -> xctest_collect
    [] kind = "exec" -> exec_collect
    [] OTHER -> base_collect

\* The doctor's probe: every suite lists, cargo builds, every script may be
\* executed; a vitest override needs a collect_command.
pytest_collectable == \A s \in Suites : pytest_batch(s).ok
vitest_collectable == \A s \in Suites : vitest_batch(s).ok
cargo_collectable == broken = {}
exec_collectable == broken \cap _test_files = {}

collectable ==
  CASE kind = "pytest" -> pytest_collectable
    [] kind = "vitest" -> vitest_collectable
    [] kind = "cargo" -> cargo_collectable
    [] kind = "exec" -> exec_collectable
    [] OTHER -> TRUE

\* The doctor's other probe, of the default suite alone: pytest's test command,
\* but vitest's listing command, shows no file an override owns.  A listing that
\* fails still shows what it could import.
Probe == IF kind = "pytest" THEN "test" ELSE "collect"
override_isolation ==
  \/ ~Composed \/ ~overridden
  \/ \A t \in Listable(reach["default"][Probe] \ broken) :
       FileOf[t] \notin owned \/ t \in drops["default"][Probe]

\* _adopt_target: the tests a cycle whose declared target is missing may adopt.
_adopt_target == Ids(collect.tests) \ known

(***************************************************************************)
(* The runner, seen from an adapter (external)                             *)
(***************************************************************************)

Narrow == mode = "red"

\* A target-only run of pytest is one of the suite's listing command.
Cmd == IF Narrow /\ kind = "pytest" THEN "collect" ELSE "test"

\* The tests a selector picks are picked by id; what a command's own path holds
\* is run however many are given besides.
Matching == {t \in Test : IdOf[t] = IdOf[Target]}
Picked(s) ==
  CASE ~Narrow -> Test
    [] Narrow /\ s \in fixed -> Matching \cup Listable(Discovered(s))
    [] OTHER -> Matching

\* Mutant: a target-only run always uses the default suite.
_run_invocations_default(m) ==
  IF m = "red" THEN <<"default">> ELSE _suite_invocations

\* Every suite, or for a target-only run the one that owns the target's file.
_run_invocations(m) ==
  IF m = "red" THEN <<override_for(Home)>> ELSE _suite_invocations

\* The files an invocation looks at.  In a target-only run pytest is given the
\* path, vitest a filter on what it discovers, cargo a binary, which links the
\* library; gradle and xcodebuild build everything all the same.
Scope(s) ==
  CASE Narrow /\ kind = "pytest" -> Given(s, Home)
    [] Narrow /\ kind = "exec" -> {Home}
    [] Narrow /\ kind = "vitest" -> {Home} \cap reach[s]["test"]
    [] Narrow /\ kind = "cargo" -> {Home} \cup inline
    [] ~Narrow /\ Composed -> reach[s]["test"]
    [] OTHER -> File

Healthily(s) ==
  {t \in Picked(s) : FileOf[t] \in Scope(s) \ broken /\ Written(t)} \ drops[s][Cmd]
Bad(s) == Scope(s) \cap broken

\* What a test does under a suite: what it says under its own, anything else
\* under the other, which has another command and environment, and under a
\* listing command that does not run it as the test command does.
Outcomes(s, t) ==
  CASE override_for(FileOf[t]) # s \/ (Cmd = "collect" /\ s \in odd) -> {"passed", "failed"}
    [] body[t] = "pass" -> {"passed"}
    [] body[t] = "fail" -> {"failed"}
    [] OTHER -> {"skipped"}

Running(s, T) ==
  {a \in [T -> Outcome] : \A t \in T : a[t] \in Outcomes(s, t)}
Told(s, a) == {<<s, t, a[t]>> : t \in DOMAIN a}

Report(seen, refused, ok, said) ==
  [seen |-> seen, refused |-> refused, ok |-> ok, said |-> said, made |-> TRUE]
NoReport == [seen |-> {}, refused |-> {}, ok |-> FALSE, said |-> {}, made |-> FALSE]

\* pytest runs nothing when a file it reaches does not import or a test it is
\* given does not exist, and writes its report at the end: a run that dies
\* leaves none.
Pytest(s) ==
  {NoReport} \cup
  IF Bad(s) # {} \/ (Narrow /\ Listable({Home}) \cap Matching = {})
  THEN {Report({}, Bad(s), FALSE, {})}
  ELSE {Report(Told(s, a), {}, \A t \in DOMAIN a : a[t] # "failed", {}) :
          a \in Running(s, Healthily(s))}

\* vitest runs every file it can import.
Vitest(s) ==
  {NoReport} \cup
  {Report(Told(s, a), Bad(s), Bad(s) = {} /\ \A t \in DOMAIN a : a[t] # "failed", {}) :
     a \in Running(s, Healthily(s))}

\* cargo compiles all it was asked for or runs nothing, runs one binary after
\* the other and none after one that failed; killed, it has printed a part.
Cargo(s) ==
  LET Part(T, ok) == {Report(Told(s, a), {}, ok /\ \A t \in T : a[t] # "failed", {}) :
                        a \in Running(s, T)}
      Files(T) == {FileOf[t] : t \in T}
      Fails(T) == \E t \in T : body[t] = "fail"
  IN IF Bad(s) # {} THEN {Report({}, {}, FALSE, {"compile"}), Report({}, {}, FALSE, {})}
     ELSE LET Whole(T) == \/ T = Healthily(s)
                          \/ Fails(T) /\ \A t \in Healthily(s) : FileOf[t] \in Files(T) => t \in T
          IN  UNION ({Part(T, FALSE) : T \in SUBSET Healthily(s)} \cup
                     {Part(T, TRUE) : T \in {T \in SUBSET Healthily(s) : Whole(T)}})

\* xcodebuild builds the whole target or runs nothing, then prints each case.
XCTest(s) ==
  IF Bad(s) # {} THEN {Report({}, {}, FALSE, {"build_failed"}), Report({}, {}, FALSE, {})}
  ELSE UNION {{Report(Told(s, a), {}, FALSE, {}) : a \in Running(s, T)} :
                T \in SUBSET Healthily(s)}

\* One process per script; one that may not be executed is not started.
Exec(s) == {Report(Told(s, a), Bad(s), TRUE, {}) : a \in Running(s, Healthily(s))}

Runner(s) ==
  CASE kind = "pytest" -> Pytest(s)
    [] kind = "vitest" -> Vitest(s)
    [] kind = "cargo" -> Cargo(s)
    [] kind = "xctest" -> XCTest(s)
    [] kind = "exec" -> Exec(s)

(***************************************************************************)
(* From what was heard to a verdict                                        *)
(***************************************************************************)

Verdict(outcome, error, passed, failed) ==
  [target |-> outcome, error |-> error, passed |-> passed, failed |-> failed]

Idle == Verdict("none", "none", {}, {})
Hears(o) == {IdOf[h[2]] : h \in {h \in heard.seen : h[3] = o}}

\* The failed ids of a run that also passed under the same id come second.
Found(passed, failed) ==
  CASE IdOf[Target] \in passed -> "passed"
    [] IdOf[Target] \in failed -> "failed"
    [] OTHER -> "not_found"

\* Mutant: a run without a target leaves the outcome unset.
WithTarget_unset(outcome) == IF mode = "sweep" THEN "" ELSE outcome

\* A run without a target has the outcome a Verdict starts with.
WithTarget(outcome) == IF mode = "sweep" THEN "not_found" ELSE outcome

\* The ids more than one suite invocation reported.
_suite_overlap ==
  {i \in Id : \E h, k \in heard.seen :
     IdOf[h[2]] = i /\ IdOf[k[2]] = i /\ h[1] # k[1]}

\* Mutant: the collectors of the report are not looked at.
pytest_run_uninspected ==
  Verdict(WithTarget(Found(Hears("passed"), Hears("failed"))), "none",
          Hears("passed"), Hears("failed"))

\* pytest: a target that ran and did not pass failed, a skipped one included.
pytest_run ==
  CASE ~heard.made -> Verdict("not_found", "no_report", {}, {})
    [] heard.made /\ _suite_overlap # {} -> Verdict("not_found", "overlap", {}, {})
    [] OTHER ->
       LET hit == Found(Hears("passed"), Hears("failed") \cup Hears("skipped"))
       IN Verdict(WithTarget(IF hit = "not_found" /\ Home \in heard.refused
                             THEN "not_collected" ELSE hit),
                  "none", Hears("passed"), Hears("failed"))

\* vitest: a skipped target was not found.
vitest_run ==
  CASE ~heard.made -> Verdict("not_found", "no_report", {}, {})
    [] heard.made /\ _suite_overlap # {} -> Verdict("not_found", "overlap", {}, {})
    [] OTHER ->
       LET hit == Found(Hears("passed"), Hears("failed"))
       IN Verdict(WithTarget(IF hit = "not_found" /\ Home \in heard.refused
                             THEN "not_collected" ELSE hit),
                  "none", Hears("passed"), Hears("failed"))

\* A run without a single result, blamed on the build when it said so.
Unbuilt(blame) ==
  CASE blame /\ mode = "sweep" -> Verdict("not_found", "unbuilt", {}, {})
    [] blame /\ mode # "sweep" -> Verdict("not_collected", "none", {}, {})
    [] OTHER -> Verdict("not_found", "none", {}, {})

Heard == Verdict(WithTarget(Found(Hears("passed"), Hears("failed"))), "none",
                 Hears("passed"), Hears("failed"))

cargo_run ==
  IF Hears("passed") \cup Hears("failed") = {}
  THEN Unbuilt("compile" \in heard.said) ELSE Heard

xctest_run == IF "build_failed" \in heard.said THEN Unbuilt(TRUE) ELSE Heard

\* gradle reads whatever result files there are; a torn one is skipped.
_parse_results(o) == {IdOf[t] : t \in {t \in Test : xml[t] = o /\ FileOf[t] \notin torn}}

gradle_run ==
  LET passed == _parse_results("passed")
      failed == _parse_results("failed")
  IN IF passed \cup failed = {}
     THEN Unbuilt("no_tests" \notin heard.said /\ ~heard.ok)
     ELSE Verdict(WithTarget(Found(passed, failed)), "none", passed, failed)

exec_run ==
  Verdict(WithTarget(IF Home \in heard.refused THEN "not_collected"
                     ELSE Found(Hears("passed"), Hears("failed"))),
          "none", Hears("passed"), Hears("failed"))

run ==
  CASE kind = "pytest" -> pytest_run
    [] kind = "vitest" -> vitest_run
    [] kind = "cargo" -> cargo_run
    [] kind = "gradle" -> gradle_run
    [] kind = "xctest" -> xctest_run
    [] kind = "exec" -> exec_run

(***************************************************************************)
(* Steps                                                                   *)
(***************************************************************************)

Nothing == Report({}, {}, TRUE, {})
Nowhere == [m \in {"red", "green"} |-> "none"]

Init ==
  /\ \E r \in Registries :
       /\ kind = r.kind /\ inline = r.inline
       /\ overridden = r.overridden /\ owned = r.owned /\ bare = r.bare
       /\ reach = r.reach /\ drops = r.drops /\ fixed = r.fixed /\ odd = r.odd
  /\ body \in [Test -> IF kind = "exec" THEN Body \ {"skip"} ELSE Body]
  /\ broken \in SUBSET File
  /\ edits = 0
  /\ xml = [t \in Test |-> "none"]
  /\ torn = {} /\ stuck = {}
  /\ known = Ids(collect.tests)
  /\ spoilt = collect.failed
  /\ there = {t \in Test : Written(t)}
  /\ pc = "idle" /\ mode = "sweep" /\ todo = <<>>
  /\ heard = Nothing /\ ran = {} /\ verdict = Idle
  /\ last = Nowhere

\* The agent changes what one test does, or breaks or mends one file.
Edit ==
  /\ pc = "idle" /\ edits < MaxEdits
  /\ edits' = edits + 1
  /\ \/ \E t \in Test, b \in Body :
          /\ b # body[t] /\ (kind = "exec" => b # "skip")
          /\ body' = [body EXCEPT ![t] = b]
          /\ UNCHANGED broken
     \/ \E f \in File :
          /\ broken' = IF f \in broken THEN broken \ {f} ELSE broken \cup {f}
          /\ UNCHANGED body
  /\ last' = Nowhere
  /\ UNCHANGED <<registry, start, results, run_vars>>

\* Adapter.run is called: with a target alone, with a target in the whole
\* suite, or with none.
Start(m) ==
  /\ pc = "idle"
  /\ pc' = IF kind = "gradle" THEN "clear" ELSE "suite"
  /\ mode' = m
  /\ todo' = _run_invocations(m)
  /\ heard' = Nothing /\ ran' = {} /\ verdict' = Idle
  /\ UNCHANGED <<registry, tree, start, results, last>>

\* Mutant: the results of the last run are left where they are.
_clear_results_not ==
  /\ pc = "clear" /\ pc' = "suite"
  /\ UNCHANGED <<registry, tree, start, results, mode, todo, heard, ran, verdict, last>>

\* The results of earlier runs are removed; one that cannot be stays, silently.
_clear_results ==
  /\ pc = "clear" /\ pc' = "suite"
  /\ stuck' \in SUBSET {FileOf[t] : t \in {t \in Test : xml[t] # "none"}}
  /\ xml' = [t \in Test |-> IF FileOf[t] \in stuck' THEN xml[t] ELSE "none"]
  /\ torn' = torn \cap stuck'
  /\ UNCHANGED <<registry, tree, start, mode, todo, heard, ran, verdict, last>>

Joined(h, r) ==
  Report(h.seen \cup r.seen, h.refused \cup r.refused, h.ok /\ r.ok, h.said \cup r.said)

\* Mutant: a suite's report replaces the one before it.
_run_suite_last ==
  /\ pc = "suite" /\ todo # <<>> /\ kind # "gradle"
  /\ \E r \in Runner(Head(todo)) :
       /\ heard' = r
       /\ todo' = IF r.made THEN Tail(todo) ELSE <<>>
       /\ ran' = ran \cup r.seen
  /\ UNCHANGED <<registry, tree, start, results, pc, mode, verdict, last>>

\* One invocation; the first that leaves no report ends the run.
_run_suite ==
  /\ pc = "suite" /\ todo # <<>> /\ kind # "gradle"
  /\ \E r \in Runner(Head(todo)) :
       /\ heard' = IF r.made THEN Joined(heard, r) ELSE NoReport
       /\ todo' = IF r.made THEN Tail(todo) ELSE <<>>
       /\ ran' = ran \cup r.seen
  /\ UNCHANGED <<registry, tree, start, results, pc, mode, verdict, last>>

\* The tests T of the files F run and their result files are written.
Writes(F, T) ==
  \E a \in Running("default", T), half \in SUBSET F :
    /\ xml' = [t \in Test |-> CASE FileOf[t] \notin F -> xml[t]
                                [] t \in T -> a[t]
                                [] OTHER -> "none"]
    /\ torn' = (torn \ F) \cup half
    /\ ran' = Told("default", a)
    /\ heard' = Report({}, {}, /\ T = Healthily("default") /\ half = {}
                              /\ \A t \in T : a[t] # "failed", {})

\* gradle compiles everything or runs nothing, fails a filter that matches
\* nothing, and writes one result file per test file; a test process that
\* dies leaves the rest unwritten and one of them perhaps half written.
gradle_suite ==
  /\ pc = "suite" /\ todo # <<>> /\ kind = "gradle"
  /\ todo' = Tail(todo)
  /\ \/ /\ Bad("default") # {}
        /\ heard' = Report({}, {}, FALSE, {})
        /\ UNCHANGED <<xml, torn, ran>>
     \/ /\ Bad("default") = {} /\ Narrow /\ Healthily("default") = {}
        /\ heard' = Report({}, {}, FALSE, {"no_tests"})
        /\ UNCHANGED <<xml, torn, ran>>
     \/ /\ Bad("default") = {} /\ (Narrow => Healthily("default") # {})
        /\ \E F \in SUBSET {FileOf[t] : t \in Healthily("default")} :
             Writes(F, {t \in Healthily("default") : FileOf[t] \in F})
  /\ UNCHANGED <<registry, tree, start, stuck, pc, mode, verdict, last>>

Judge ==
  /\ pc = "suite" /\ todo = <<>>
  /\ pc' = "judged"
  /\ verdict' = run
  /\ UNCHANGED <<registry, tree, start, results, mode, todo, heard, ran, last>>

\* The caller has acted on the verdict.
Return ==
  /\ pc = "judged"
  /\ pc' = "idle" /\ mode' = "sweep" /\ todo' = <<>>
  /\ heard' = Nothing /\ ran' = {} /\ verdict' = Idle
  /\ last' = IF mode \in DOMAIN last /\ stuck = {} /\ verdict.target \in {"passed", "failed"}
             THEN [last EXCEPT ![mode] = verdict.target] ELSE last
  /\ UNCHANGED <<registry, tree, start, results>>

Next ==
  \/ Edit
  \/ \E m \in {"red", "green", "sweep"} : Start(m)
  \/ _clear_results
  \/ _run_suite
  \/ gradle_suite
  \/ Judge
  \/ Return

Spec == Init /\ [][Next]_vars

(***************************************************************************)
(* Properties                                                              *)
(***************************************************************************)

\* What a verdict may say of the target.
TargetOutcome == {"none", "passed", "failed", "not_found", "not_collected"}

\* Types.
TypeOK ==
  /\ kind \in Kind
  /\ owned \subseteq File /\ inline \subseteq File /\ bare \in BOOLEAN /\ overridden \in BOOLEAN
  /\ reach \in [Suite -> [Command -> SUBSET File]] /\ drops \in [Suite -> [Command -> SUBSET Test]]
  /\ fixed \subseteq Suite /\ odd \subseteq Suite
  /\ body \in [Test -> Body] /\ broken \subseteq File /\ edits \in 0 .. MaxEdits
  /\ xml \in [Test -> Outcome \cup {"none"}]
  /\ torn \subseteq File /\ stuck \subseteq File
  /\ known \subseteq Id /\ there \subseteq Test /\ spoilt \subseteq File
  /\ pc \in {"idle", "clear", "suite", "judged"}
  /\ mode \in {"red", "green", "sweep"}
  /\ todo \in {<<>>, <<"default">>, <<"override">>, <<"default", "override">>}
  /\ heard.seen \subseteq Suite \X Test \X Outcome /\ heard.refused \subseteq File
  /\ ran \subseteq Suite \X Test \X Outcome
  /\ verdict.passed \subseteq Id /\ verdict.failed \subseteq Id
  /\ verdict.target \in TargetOutcome
  /\ last \in [{"red", "green"} -> {"none", "passed", "failed"}]

Judged == pc = "judged"

\* A suite that does not own the target but whose whole run observes it, unseen
\* by the probe of isolation: an override, which is never probed, or a vitest
\* default suite whose listing does not show what its run discovers.
Stray(s) ==
  /\ s # override_for(Home)
  /\ Home \in reach[s]["test"] /\ Target \notin drops[s]["test"]
  /\ \/ s = "override"
     \/ Home \notin reach[s][Probe] \/ Target \in drops[s][Probe]

\* A target is reported passed only if it ran in this very run and passed, and
\* under the command and environment of the suite that owns it unless the doctor
\* finds the suites not isolated, or the suite it passed under is one that strays
\* where the doctor does not look (pytest_adapter.py:285-315): no result of an
\* earlier run is ever read, as long as old result files can be removed.
PassedIsEarned ==
  (Judged /\ verdict.target = "passed" /\ stuck = {})
  => \E s \in Suite : /\ <<s, Target, "passed">> \in ran
                      /\ s = override_for(Home) \/ ~override_isolation \/ Stray(s)

\* Every failure a runner lived to report, in any of the project's suites, is
\* in the verdict, unless the verdict says that the run itself went wrong.
FailuresAreReported ==
  (Judged /\ verdict.error = "none" /\ verdict.target # "not_collected")
  => \A h \in ran : h[3] = "failed" /\ FileOf[h[2]] \notin torn
                      => IdOf[h[2]] \in verdict.failed

\* A target whose own file does not import or compile is never reported as a
\* name that matches nothing, which would send the agent to rename it: it is
\* not_collected, in a target-only run and in a whole one, as long as its suite
\* discovers the file and a compiler that failed said so.
UnimportableIsNotMissing ==
  ( /\ Judged /\ mode # "sweep" /\ verdict.error = "none" /\ stuck = {}
    /\ Home \in broken
    /\ Composed => Home \in reach[override_for(Home)]["test"]
    /\ kind \in {"cargo", "xctest"} => heard.said # {} )
  => verdict.target = "not_collected"

\* On one and the same tree a target-only run and a whole run never contradict
\* each other about the target: RED is judged by the first, GREEN by the
\* second, and a rerun of a suspected flaky failure by the first again.  Provided
\* that the suites are isolated and none strays onto the target, and that with
\* pytest, where the first is a run of the listing command, the two commands of
\* the target's suite run it alike.  (Different discovery, markers and paths may
\* keep one of them from observing it, but never turn its outcome.)
NarrowAgreesWithWhole ==
  ( /\ override_isolation /\ \A s \in Suite : ~Stray(s)
    /\ override_for(Home) \notin odd )
  => {last["red"], last["green"]} # {"passed", "failed"}

\* The files of a suite whose listing of one file takes a broken path with it.
Encumbered(f) == override_for(f) \in fixed /\ Discovered(override_for(f)) \cap broken # {}

\* A listing that discovers the test's file deselects the test.
Deselected(t) == \E s \in Suites : FileOf[t] \in Discovered(s) /\ t \in drops[s]["collect"]

\* One uncollectable file never costs another file its tests.  Every test that
\* its own suite's listing discovers is collected, if no listing deselects it,
\* and the files recorded as uncollectable are those that are, those without a
\* test to show, and those of a vitest suite that cannot list them.  Not so where
\* a pytest command names a path of its own (pytest_adapter.py:349-360): one
\* broken file in that path is every file's.  (Nor for cargo's unit tests outside
\* test_paths, which only a listing of the whole crate shows.)  What the doctor
\* finds collectable is: only files without a test to show, or that their suite's
\* listing does not discover, are recorded then.
CollectionIsWhole ==
  /\ \A t \in Listable(File \ (broken \cup inline)) :
       LET f == FileOf[t]
       IN f \in Discovered(override_for(f)) /\ ~Deselected(t) /\ inline \cap broken = {}
          => \/ t \in collect.tests
             \/ f \in collect.failed
                /\ (Encumbered(f) \/ (kind = "vitest" /\ bare /\ f \in owned))
  /\ \A f \in collect.failed :
       LET s == override_for(f)
           blank == Shown(s, {f}) = {} \/ (kind = "vitest" /\ f \notin Discovered(s))
       IN /\ \/ f \in broken \/ blank \/ Encumbered(f)
             \/ kind = "vitest" /\ bare /\ f \in owned
             \/ inline \cap broken # {}
          /\ collectable => blank

\* A test a cycle may adopt for its missing target is new since the run began,
\* or its file could not be collected then, or it is one that the listing and
\* the per-file loop disagree about: deselected, in a file its suite's listing
\* skips or, with cargo, outside test_paths.
AdoptionIsNew ==
  (Judged /\ mode = "red" /\ verdict.target = "not_found")
  => \A t \in there : IdOf[t] \in _adopt_target
       => \/ FileOf[t] \in spoilt \cup inline
          \/ FileOf[t] \notin Discovered(override_for(FileOf[t]))
          \/ Deselected(t)
=============================================================================
