-------------------------- MODULE Adapters_proofs --------------------------
(***************************************************************************)
(* Theorems about Adapters, for every adapter, registry, tree and number   *)
(* of tests and edits: the types, what a collection shows and a cycle may  *)
(* adopt, and what a verdict says of the run it is the verdict of.         *)
(***************************************************************************)
EXTENDS Adapters, TLAPS

-----------------------------------------------------------------------------
(* What the runner may say.                                                *)

\* What is heard of a test: the suite it ran in, which it is and what it did.
Three == Suite \X Test \X Outcome

\* What a run of tests under a suite tells.
LEMMA ToldIs ==
    ASSUME NEW s \in Suite, NEW T \in SUBSET Test, NEW a \in Running(s, T)
    PROVE  /\ Told(s, a) \subseteq Three
           /\ \A h \in Told(s, a) : h[1] = s /\ h[2] \in T /\ h[3] \in Outcomes(s, h[2])
           /\ \A t \in T : <<s, t, a[t]>> \in Told(s, a)
  <1>1. a \in [T -> Outcome] /\ \A t \in T : a[t] \in Outcomes(s, t)
    BY DEF Running
  <1>2. QED
    BY <1>1 DEF Told, Three

\* Nothing is heard of a runner that died.
LEMMA NoReportIs ==
    /\ NoReport.seen = {} /\ NoReport.refused = {} /\ NoReport.said = {} /\ NoReport.made = FALSE
  BY DEF NoReport

\* What may be heard of one invocation.
Hearable(s, r) ==
    /\ r.seen \subseteq Three
    /\ \A h \in r.seen : h[1] = s /\ h[2] \in Healthily(s) /\ h[3] \in Outcomes(s, h[2])
    /\ r.refused \subseteq Bad(s)
    /\ r.made \/ (r.seen = {} /\ kind \in {"pytest", "vitest"})
    /\ r.made /\ kind \in {"pytest", "vitest", "exec"} => Bad(s) \subseteq r.refused
    /\ Bad(s) # {} /\ kind = "cargo" => r.seen = {} /\ r.said \subseteq {"compile"}
    /\ Bad(s) # {} /\ kind = "xctest" => r.seen = {} /\ r.said \subseteq {"build_failed"}

LEMMA KindIs ==
    TypeOK => kind \in {"pytest", "vitest", "cargo", "gradle", "xctest", "exec"}
  BY DEF TypeOK, Kind

\* Only tests in files an invocation looks at can run under it.
LEMMA HealthyIs ==
    ASSUME NEW s
    PROVE  /\ Healthily(s) \subseteq Test
           /\ \A t \in Healthily(s) : FileOf[t] \in Scope(s) \ broken /\ Written(t) /\ t \notin drops[s][Cmd]
  <1>1. Picked(s) \subseteq Test
    BY DEF Picked, Matching, Listable
  <1>2. QED
    BY <1>1 DEF Healthily

\* For every adapter: only tests that could run under the suite are heard of, with an
\* outcome they may have, and broken files as that adapter says it.
LEMMA RunnerIs ==
    ASSUME TypeOK, kind # "gradle", NEW s \in Suite, NEW r \in Runner(s)
    PROVE  Hearable(s, r)
  <1>1. Healthily(s) \in SUBSET Test
    BY HealthyIs
  <1>2. kind \in {"pytest", "vitest", "cargo", "gradle", "xctest", "exec"}
    BY KindIs
  <1>3. CASE kind = "pytest"
    <2>1. r \in Pytest(s)
      BY <1>3 DEF Runner
    <2>2. CASE r = NoReport
      BY <1>3, <2>2, NoReportIs DEF Hearable
    <2>3. CASE r = Report({}, Bad(s), FALSE, {})
      <3>1. r.seen = {} /\ r.refused = Bad(s) /\ r.made = TRUE
        BY <2>3 DEF Report
      <3>2. QED
        BY <1>3, <3>1 DEF Hearable
    <2>4. CASE Bad(s) = {} /\ r \in {Report(Told(s, a), {}, \A t \in DOMAIN a : a[t] # "failed", {}) :
                                        a \in Running(s, Healthily(s))}
      <3>1. PICK a \in Running(s, Healthily(s)) :
               r = Report(Told(s, a), {}, \A t \in DOMAIN a : a[t] # "failed", {})
        BY <2>4
      <3>2. r.seen = Told(s, a) /\ r.refused = {} /\ r.made = TRUE
        BY <3>1 DEF Report
      <3>3. QED
        BY <1>1, <1>3, <2>4, <3>2, ToldIs DEF Hearable
    <2>5. QED
      BY <2>1, <2>2, <2>3, <2>4 DEF Pytest
  <1>4. CASE kind = "vitest"
    <2>1. r \in Vitest(s)
      BY <1>4 DEF Runner
    <2>2. CASE r = NoReport
      BY <1>4, <2>2, NoReportIs DEF Hearable
    <2>3. CASE r \in {Report(Told(s, a), Bad(s), Bad(s) = {} /\ \A t \in DOMAIN a : a[t] # "failed", {}) :
                        a \in Running(s, Healthily(s))}
      <3>1. PICK a \in Running(s, Healthily(s)) :
               r = Report(Told(s, a), Bad(s), Bad(s) = {} /\ \A t \in DOMAIN a : a[t] # "failed", {})
        BY <2>3
      <3>2. r.seen = Told(s, a) /\ r.refused = Bad(s) /\ r.made = TRUE
        BY <3>1 DEF Report
      <3>3. QED
        BY <1>1, <1>4, <3>2, ToldIs DEF Hearable
    <2>4. QED
      BY <2>1, <2>2, <2>3 DEF Vitest
  <1>5. CASE kind = "cargo"
    <2>1. r \in Cargo(s)
      BY <1>5 DEF Runner
    <2>2. CASE Bad(s) # {}
      <3>1. r \in {Report({}, {}, FALSE, {"compile"}), Report({}, {}, FALSE, {})}
        BY <2>1, <2>2 DEF Cargo
      <3>2. r.seen = {} /\ r.refused = {} /\ r.made = TRUE /\ r.said \subseteq {"compile"}
        BY <3>1 DEF Report
      <3>3. QED
        BY <1>5, <2>2, <3>2 DEF Hearable
    <2>3. CASE Bad(s) = {}
      <3>1. PICK T \in SUBSET Healthily(s), ok \in BOOLEAN :
               r \in {Report(Told(s, a), {}, ok /\ \A t \in T : a[t] # "failed", {}) :
                        a \in Running(s, T)}
        BY <2>1, <2>3 DEF Cargo
      <3>2. PICK a \in Running(s, T) :
               r = Report(Told(s, a), {}, ok /\ \A t \in T : a[t] # "failed", {})
        BY <3>1
      <3>3. r.seen = Told(s, a) /\ r.refused = {} /\ r.made = TRUE
        BY <3>2 DEF Report
      <3>4. T \in SUBSET Test
        BY <1>1
      <3>5. QED
        BY <1>5, <2>3, <3>3, <3>4, ToldIs DEF Hearable
    <2>4. QED
      BY <2>2, <2>3
  <1>6. CASE kind = "xctest"
    <2>1. r \in XCTest(s)
      BY <1>6 DEF Runner
    <2>2. CASE Bad(s) # {}
      <3>1. r \in {Report({}, {}, FALSE, {"build_failed"}), Report({}, {}, FALSE, {})}
        BY <2>1, <2>2 DEF XCTest
      <3>2. r.seen = {} /\ r.refused = {} /\ r.made = TRUE /\ r.said \subseteq {"build_failed"}
        BY <3>1 DEF Report
      <3>3. QED
        BY <1>6, <2>2, <3>2 DEF Hearable
    <2>3. CASE Bad(s) = {}
      <3>1. PICK T \in SUBSET Healthily(s) :
               r \in {Report(Told(s, a), {}, FALSE, {}) : a \in Running(s, T)}
        BY <2>1, <2>3 DEF XCTest
      <3>2. PICK a \in Running(s, T) : r = Report(Told(s, a), {}, FALSE, {})
        BY <3>1
      <3>3. r.seen = Told(s, a) /\ r.refused = {} /\ r.made = TRUE
        BY <3>2 DEF Report
      <3>4. T \in SUBSET Test
        BY <1>1
      <3>5. QED
        BY <1>6, <2>3, <3>3, <3>4, ToldIs DEF Hearable
    <2>4. QED
      BY <2>2, <2>3
  <1>7. CASE kind = "exec"
    <2>1. PICK a \in Running(s, Healthily(s)) : r = Report(Told(s, a), Bad(s), TRUE, {})
      BY <1>7 DEF Runner, Exec
    <2>2. r.seen = Told(s, a) /\ r.refused = Bad(s) /\ r.made = TRUE
      BY <2>1 DEF Report
    <2>3. QED
      BY <1>1, <1>7, <2>2, ToldIs DEF Hearable
  <1>8. QED
    BY <1>2, <1>3, <1>4, <1>5, <1>6, <1>7

LEMMA HomeIs == Home \in File /\ \A t \in Test : FileOf[t] \in File
  BY AdapterAssumption DEF Home

\* What is asked of the runner, and in which order.
Queues == {<<>>, <<"default">>, <<"override">>, <<"default", "override">>}

\* The suites in such a queue.
Items(q) == {q[i] : i \in DOMAIN q}

LEMMA QueueIs ==
    ASSUME NEW q \in Queues
    PROVE  /\ \A i \in DOMAIN q : q[i] \in Suite
           /\ q # <<>> => /\ Head(q) \in Suite /\ Tail(q) \in Queues
                         /\ Items(q) = {Head(q)} \cup Items(Tail(q))
  <1>1. CASE q = <<>>
    BY <1>1
  <1>2. CASE q = <<"default">>
    BY <1>2 DEF Queues, Suite, Items
  <1>3. CASE q = <<"override">>
    BY <1>3 DEF Queues, Suite, Items
  <1>4. CASE q = <<"default", "override">>
    BY <1>4 DEF Queues, Suite, Items
  <1>5. QED
    BY <1>1, <1>2, <1>3, <1>4 DEF Queues

\* A run always asks for a suite.
LEMMA AskedIs == \A m : _run_invocations(m) \in Queues \ {<<>>}
  BY DEF _run_invocations, _suite_invocations, override_for, Queues

\* A verdict names ids of tests and says one of five things of the target.
IsVerdict(v) == v.passed \subseteq Id /\ v.failed \subseteq Id /\ v.target \in TargetOutcome

\* Every adapter returns such a verdict.
LEMMA RunTyped == TypeOK => IsVerdict(run)
  <1> SUFFICES ASSUME TypeOK PROVE IsVerdict(run)
    OBVIOUS
  <1>1. \A o : Hears(o) \subseteq Id
    BY DEF Hears, Id, TypeOK
  <1>2. \A o : _parse_results(o) \subseteq Id
    BY DEF _parse_results, Id
  <1>3. \A p, f : WithTarget(Found(p, f)) \in TargetOutcome
    BY DEF WithTarget, Found, TargetOutcome
  <1>4. \A b : IsVerdict(Unbuilt(b))
    BY DEF Unbuilt, Verdict, IsVerdict, TargetOutcome
  <1>5. IsVerdict(Heard)
    BY <1>1, <1>3 DEF Heard, Verdict, IsVerdict
  <1>6. WithTarget("not_collected") \in TargetOutcome
    BY DEF WithTarget, TargetOutcome
  <1>7. IsVerdict(pytest_run)
    BY <1>1, <1>3, <1>6 DEF pytest_run, Verdict, IsVerdict, TargetOutcome
  <1>8. IsVerdict(vitest_run)
    BY <1>1, <1>3, <1>6 DEF vitest_run, Verdict, IsVerdict, TargetOutcome
  <1>9. IsVerdict(cargo_run) /\ IsVerdict(xctest_run)
    BY <1>4, <1>5 DEF cargo_run, xctest_run
  <1>10. IsVerdict(gradle_run)
    BY <1>2, <1>3, <1>4 DEF gradle_run, Verdict, IsVerdict
  <1>11. IsVerdict(exec_run)
    BY <1>1, <1>3, <1>6 DEF exec_run, Verdict, IsVerdict
  <1>12. QED
    BY <1>7, <1>8, <1>9, <1>10, <1>11, KindIs DEF run

\* A collection names tests and files there are.
LEMMA CollectTyped ==
    collect.failed \subseteq File /\ collect.tests \subseteq Test
  <1>1. \A F : Listable(F) \subseteq Test /\ \A s : Shown(s, F) \subseteq Test
    BY DEF Listable, Shown
  <1>2. \A s : _collect_batch(s).tests \subseteq Test
    BY <1>1 DEF _collect_batch, pytest_batch, vitest_batch, cargo_batch, Unusable, Listing
  <1>3. \A F \in SUBSET File : /\ _collect_per_file(F).tests \subseteq Test
                              /\ _collect_per_file(F).failed \subseteq File
    BY <1>1 DEF _collect_per_file
  <1>4. base_collect.failed \subseteq File /\ base_collect.tests \subseteq Test
    BY <1>2, <1>3 DEF base_collect, _test_files
  <1>5. QED
    BY <1>1, <1>4 DEF collect, gradle_collect, xctest_collect, exec_collect

\* What gradle leaves when it runs nothing.
GradleUnbuilt ==
    /\ UNCHANGED <<xml, torn, ran>>
    /\ Bad("default") # {} => heard'.said = {} /\ heard'.ok = FALSE

\* What it leaves when it runs tests: each of those has its own outcome in its file.
GradleWrote ==
    /\ Bad("default") = {}
    /\ xml' \in [Test -> Outcome \cup {"none"}] /\ torn' \subseteq File
    /\ ran' \subseteq Three
    /\ \A h \in ran' : /\ h[1] = "default" /\ h[2] \in Healthily("default")
                       /\ h[3] \in Outcomes("default", h[2]) /\ xml'[h[2]] = h[3]
    /\ \A t \in Test : xml'[t] \in {xml[t], "none"} \/ <<"default", t, xml'[t]>> \in ran'

\* gradle does the one or the other.
LEMMA GradleIs ==
    ASSUME TypeOK, gradle_suite
    PROVE  heard'.seen = {} /\ heard'.refused = {} /\ heard'.made = TRUE /\ (GradleUnbuilt \/ GradleWrote)
  <1>1. CASE Bad("default") # {} /\ heard' = Report({}, {}, FALSE, {}) /\ UNCHANGED <<xml, torn, ran>>
    BY <1>1 DEF Report, GradleUnbuilt
  <1>2. CASE Bad("default") = {} /\ heard' = Report({}, {}, FALSE, {"no_tests"}) /\ UNCHANGED <<xml, torn, ran>>
    BY <1>2 DEF Report, GradleUnbuilt
  <1>3. ASSUME Bad("default") = {},
               NEW F \in SUBSET {FileOf[t] : t \in Healthily("default")},
               Writes(F, {t \in Healthily("default") : FileOf[t] \in F})
        PROVE  heard'.seen = {} /\ heard'.refused = {} /\ heard'.made = TRUE /\ GradleWrote
    <2> DEFINE T == {t \in Healthily("default") : FileOf[t] \in F}
    <2>1. PICK a \in Running("default", T), half \in SUBSET F :
            /\ xml' = [t \in Test |-> CASE FileOf[t] \notin F -> xml[t]
                                        [] t \in T -> a[t]
                                        [] OTHER -> "none"]
            /\ torn' = (torn \ F) \cup half
            /\ ran' = Told("default", a)
            /\ heard' = Report({}, {}, /\ T = Healthily("default") /\ half = {}
                                      /\ \A t \in T : a[t] # "failed", {})
      BY <1>3 DEF Writes
    <2>2. T \in SUBSET Test /\ F \subseteq File /\ \A t \in T : t \in Healthily("default") /\ FileOf[t] \in F
      BY HomeIs, HealthyIs
    <2>3. a \in [T -> Outcome]
      BY <2>1 DEF Running
    <2> HIDE DEF T
    <2>4. "default" \in Suite
      BY DEF Suite
    <2>5. /\ ran' \subseteq Three
          /\ \A h \in ran' : h[1] = "default" /\ h[2] \in T /\ h[3] \in Outcomes("default", h[2])
          /\ \A t \in T : <<"default", t, a[t]>> \in ran'
      BY <2>1, <2>2, <2>4, ToldIs
    <2>6. \A h \in ran' : h[3] = a[h[2]]
      BY <2>1, <2>3 DEF Told
    <2>7. \A t \in T : xml'[t] = a[t]
      BY <2>1, <2>2
    <2>8. \A t \in Test : xml'[t] \in {xml[t], "none"} \/ t \in T
      BY <2>1
    <2>9. xml' \in [Test -> Outcome \cup {"none"}] /\ torn' \subseteq File
      BY <2>1, <2>2, <2>3 DEF TypeOK
    <2>10. heard'.seen = {} /\ heard'.refused = {} /\ heard'.made = TRUE
      BY <2>1 DEF Report
    <2>11. QED
      BY <1>3, <2>2, <2>5, <2>6, <2>7, <2>8, <2>9, <2>10 DEF GradleWrote
  <1>4. QED
    BY <1>1, <1>2, <1>3 DEF gradle_suite

\* Every variable of Adapters has its type.
THEOREM TypeCorrect == Spec => []TypeOK
  <1>1. ASSUME Init PROVE TypeOK
    <2>1. /\ kind \in Kind /\ owned \subseteq File /\ inline \subseteq File
          /\ bare \in BOOLEAN /\ overridden \in BOOLEAN
          /\ reach \in [Suite -> [Command -> SUBSET File]]
          /\ drops \in [Suite -> [Command -> SUBSET Test]]
          /\ fixed \subseteq Suite /\ odd \subseteq Suite
      BY <1>1, AdapterAssumption DEF Init, IsRegistry
    <2>2. known \subseteq Id /\ there \subseteq Test /\ spoilt \subseteq File
      BY <1>1, CollectTyped DEF Init, Ids, Id
    <2>3. body \in [Test -> Body]
      BY <1>1 DEF Init
    <2>4. edits \in 0 .. MaxEdits
      BY <1>1, AdapterAssumption DEF Init
    <2>5. last \in [{"red", "green"} -> {"none", "passed", "failed"}]
      BY <1>1 DEF Init, Nowhere
    <2>6. heard.seen = {} /\ heard.refused = {}
      BY <1>1 DEF Init, Nothing, Report
    <2>7. verdict.passed = {} /\ verdict.failed = {} /\ verdict.target \in TargetOutcome
      BY <1>1 DEF Init, Idle, Verdict, TargetOutcome
    <2>8. xml \in [Test -> Outcome \cup {"none"}]
      BY <1>1 DEF Init
    <2>9. QED
      BY <1>1, <2>1, <2>2, <2>3, <2>4, <2>5, <2>6, <2>7, <2>8 DEF Init, TypeOK
  <1>2. ASSUME TypeOK, [Next]_vars PROVE TypeOK'
    <2> USE <1>2
    <2>1. CASE Edit
      <3>1. edits' \in 0 .. MaxEdits
        BY <2>1, AdapterAssumption DEF Edit, TypeOK
      <3>2. body' \in [Test -> Body] /\ broken' \subseteq File
        BY <2>1 DEF Edit, TypeOK
      <3>3. last' \in [{"red", "green"} -> {"none", "passed", "failed"}]
        BY <2>1 DEF Edit, Nowhere
      <3>4. QED
        BY <2>1, <3>1, <3>2, <3>3 DEF Edit, TypeOK, registry, start, results, run_vars
    <2>2. ASSUME NEW m \in {"red", "green", "sweep"}, Start(m) PROVE TypeOK'
      <3>1. todo' \in Queues
        BY <2>2, AskedIs DEF Start
      <3>2. heard'.seen = {} /\ heard'.refused = {}
        BY <2>2 DEF Start, Nothing, Report
      <3>3. verdict'.passed = {} /\ verdict'.failed = {} /\ verdict'.target \in TargetOutcome
        BY <2>2 DEF Start, Idle, Verdict, TargetOutcome
      <3>4. QED
        BY <2>2, <3>1, <3>2, <3>3 DEF Start, Queues, TypeOK, registry, tree, start, results
    <2>3. CASE _clear_results
      <3>1. stuck' \subseteq File /\ torn' \subseteq File
        BY <2>3, HomeIs DEF _clear_results, TypeOK
      <3>2. xml' \in [Test -> Outcome \cup {"none"}]
        BY <2>3 DEF _clear_results, TypeOK
      <3>3. QED
        BY <2>3, <3>1, <3>2 DEF _clear_results, TypeOK, registry, tree, start
    <2>4. CASE _run_suite
      <3>1. Head(todo) \in Suite /\ Tail(todo) \in Queues /\ todo # <<>>
        BY <2>4, QueueIs DEF _run_suite, TypeOK, Queues
      <3>2. PICK r \in Runner(Head(todo)) :
               /\ heard' = IF r.made THEN Joined(heard, r) ELSE NoReport
               /\ todo' = IF r.made THEN Tail(todo) ELSE <<>>
               /\ ran' = ran \cup r.seen
        BY <2>4 DEF _run_suite
      <3>3. r.seen \subseteq Three /\ r.refused \subseteq File
        BY <2>4, <3>1, <3>2, RunnerIs DEF _run_suite, Hearable, Bad, TypeOK
      <3>4. heard'.seen \subseteq Three /\ heard'.refused \subseteq File
        BY <3>2, <3>3, NoReportIs DEF Joined, Report, TypeOK, Three
      <3>5. todo' \in Queues
        BY <3>1, <3>2 DEF Queues
      <3>6. QED
        BY <2>4, <3>2, <3>3, <3>4, <3>5 DEF _run_suite, TypeOK, Three, Queues, registry, tree, start, results
    <2>5. CASE gradle_suite
      <3>1. todo' \in Queues
        BY <2>5, QueueIs DEF gradle_suite, TypeOK, Queues
      <3>2. /\ xml' \in [Test -> Outcome \cup {"none"}] /\ torn' \subseteq File /\ ran' \subseteq Three
            /\ heard'.seen = {} /\ heard'.refused = {}
        BY <2>5, GradleIs DEF GradleUnbuilt, GradleWrote, TypeOK, Three
      <3>3. QED
        BY <2>5, <3>1, <3>2 DEF gradle_suite, TypeOK, Three, Queues, registry, tree, start
    <2>6. CASE Judge
      BY <2>6, RunTyped DEF Judge, TypeOK, IsVerdict, registry, tree, start, results
    <2>7. CASE Return
      <3>1. last' \in [{"red", "green"} -> {"none", "passed", "failed"}]
        BY <2>7 DEF Return, TypeOK
      <3>2. heard'.seen = {} /\ heard'.refused = {}
        BY <2>7 DEF Return, Nothing, Report
      <3>3. verdict'.passed = {} /\ verdict'.failed = {} /\ verdict'.target \in TargetOutcome
        BY <2>7 DEF Return, Idle, Verdict, TargetOutcome
      <3>4. QED
        BY <2>7, <3>1, <3>2, <3>3 DEF Return, TypeOK, registry, tree, start, results
    <2>8. CASE UNCHANGED vars
      BY <2>8 DEF TypeOK, vars, registry, tree, start, results, run_vars
    <2>9. QED
      BY <2>1, <2>2, <2>3, <2>4, <2>5, <2>6, <2>7, <2>8 DEF Next
  <1>3. QED
    BY <1>1, <1>2, PTL DEF Spec

-----------------------------------------------------------------------------
(* Collection.                                                             *)

\* What the registry says is never changed.
Registered ==
    /\ owned # {} => overridden
    /\ overridden => Composed
    /\ inline # {} => kind = "cargo"
    /\ Home \notin inline

\* A project's configuration stays what Init found it to be.
THEOREM RegistryKept == Spec => []Registered
  <1>1. Init => Registered
    BY AdapterAssumption DEF Init, IsRegistry, Registered, Composed
  <1>2. Registered /\ [Next]_vars => Registered'
    <2>1. [Next]_vars => UNCHANGED registry
      BY DEF Next, Edit, Start, _clear_results, _run_suite, gradle_suite, Judge, Return, vars
    <2>2. QED
      BY <2>1 DEF Registered, registry, Composed, Home
  <1>3. QED
    BY <1>1, <1>2, PTL DEF Spec

\* The suite that owns a file is one of the project's.
LEMMA SuitesAre ==
    /\ Suites \subseteq Suite
    /\ Registered => \A f : override_for(f) \in Suites
  BY DEF Suites, _suite_invocations, override_for, Suite, Registered

\* A listing shows a whole suite or nothing.
LEMMA BatchIs ==
    ASSUME NEW s
    PROVE  \/ _collect_batch(s) = Unusable
           \/ _collect_batch(s) = Listing(Shown(s, Discovered(s)))
  BY DEF _collect_batch, pytest_batch, vitest_batch, cargo_batch

\* A test of a file that its suite discovers, and that no listing deselects.
Listed(t) ==
    /\ t \in Test /\ Written(t) /\ FileOf[t] \notin inline
    /\ FileOf[t] \in Discovered(override_for(FileOf[t])) /\ ~Deselected(t)

\* Its file is settled only by a listing that shows the test.
LEMMA SettledIs ==
    ASSUME NEW t, Listed(t), FileOf[t] \in UNION {Settled(s) : s \in Suites}
    PROVE  t \in UNION {_collect_batch(s).tests : s \in Suites}
  <1>1. PICK s \in Suites : FileOf[t] \in Settled(s)
    OBVIOUS
  <1>2. _collect_batch(s).tests # {}
    BY <1>1 DEF Settled
  <1>3. _collect_batch(s).tests = Shown(s, Discovered(s))
    BY <1>2, BatchIs DEF Unusable, Listing
  <1>4. FileOf[t] \in Discovered(s)
    <2>1. CASE \E u \in _collect_batch(s).tests : FileOf[t] = FileOf[u]
      BY <1>3, <2>1 DEF Shown, Listable
    <2>2. CASE FileOf[t] \in {g \in File : override_for(g) = s}
      BY <2>2 DEF Listed
    <2>3. QED
      BY <1>1, <2>1, <2>2 DEF Settled
  <1>5. t \in Shown(s, Discovered(s))
    BY <1>4 DEF Shown, Listable, Listed, Deselected
  <1>6. QED
    BY <1>1, <1>3, <1>5

\* The listing of its file alone shows the test.
LEMMA AloneIs ==
    ASSUME Registered, NEW t, Listed(t)
    PROVE  LET f == FileOf[t] IN f \in Alone(f) /\ t \in Shown(override_for(f), {f})
  <1>1. FileOf[t] \in Alone(FileOf[t])
    BY DEF Alone, Given, Listed
  <1>2. t \notin drops[override_for(FileOf[t])]["collect"]
    BY SuitesAre DEF Listed, Deselected
  <1>3. QED
    BY <1>1, <1>2 DEF Shown, Listable, Listed

\* What a collection that lists and then loops makes of such a test.
LEMMA ListsOrLoops ==
    ASSUME Registered, NEW t, Listed(t)
    PROVE  t \in base_collect.tests \/ (Refused(FileOf[t]) /\ FileOf[t] \in base_collect.failed)
  <1> DEFINE F == _test_files \ UNION {Settled(s) : s \in Suites}
  <1>1. FileOf[t] \in _test_files
    BY HomeIs DEF Listed, _test_files
  <1>2. CASE FileOf[t] \in UNION {Settled(s) : s \in Suites}
    BY <1>2, SettledIs DEF base_collect
  <1>3. CASE FileOf[t] \in F /\ Refused(FileOf[t])
    BY <1>3 DEF base_collect, _collect_per_file
  <1>4. CASE FileOf[t] \in F /\ ~Refused(FileOf[t])
    <2>1. t \in Shown(override_for(FileOf[t]), Alone(FileOf[t]))
      BY AloneIs DEF Shown, Listable
    <2>2. t \in _collect_per_file(F).tests
      BY <1>4, <2>1 DEF _collect_per_file
    <2>3. QED
      BY <2>2 DEF base_collect
  <1>5. QED
    BY <1>1, <1>2, <1>3, <1>4

\* For every adapter: such a test is collected or its file is recorded uncollectable.
LEMMA Collects ==
    ASSUME TypeOK, Registered, NEW t, Listed(t), t \notin collect.tests
    PROVE  FileOf[t] \in collect.failed /\ (kind = "exec" \/ Refused(FileOf[t]))
  <1>1. FileOf[t] \in File /\ \A F : FileOf[t] \in F => t \in Listable(F)
    BY HomeIs DEF Listable, Listed
  <1>2. CASE kind = "gradle"
    BY <1>1, <1>2 DEF collect, gradle_collect
  <1>3. CASE kind = "xctest"
    BY <1>1, <1>3 DEF collect, xctest_collect
  <1>4. CASE kind = "exec"
    BY <1>1, <1>4 DEF collect, exec_collect
  <1>5. CASE kind \notin {"gradle", "xctest", "exec"}
    <2>1. collect = base_collect
      BY <1>5 DEF collect
    <2>2. QED
      BY <2>1, ListsOrLoops
  <1>6. QED
    BY <1>2, <1>3, <1>4, <1>5

\* What is recorded as uncollectable.
LEMMA FailedIs ==
    ASSUME TypeOK, Registered, NEW f \in collect.failed
    PROVE  IF kind = "exec" THEN f \in broken /\ f \in _test_files
           ELSE Refused(f) /\ f \in File /\ f \notin UNION {Settled(s) : s \in Suites}
  <1>1. CASE kind = "exec"
    BY <1>1 DEF collect, exec_collect, Registered, _test_files
  <1>2. CASE kind \in {"gradle", "xctest"}
    BY <1>2 DEF collect, gradle_collect, xctest_collect
  <1>3. CASE kind \notin {"gradle", "xctest", "exec"}
    <2>1. collect = base_collect
      BY <1>3 DEF collect
    <2>2. f \in {g \in _test_files \ UNION {Settled(s) : s \in Suites} : Refused(g)}
      BY <2>1 DEF base_collect, _collect_per_file
    <2>3. QED
      BY <1>3, <2>2 DEF _test_files
  <1>4. QED
    BY <1>1, <1>2, <1>3

\* On every tree and with every registry: one uncollectable file costs no other file its
\* tests, and what is recorded as uncollectable is.
THEOREM CollectsWhole == Spec => []CollectionIsWhole
  <1>1. ASSUME TypeOK, Registered PROVE CollectionIsWhole
    <2> USE <1>1
    <2>1. ASSUME NEW t \in Listable(File \ (broken \cup inline)), inline \cap broken = {},
                 FileOf[t] \in Discovered(override_for(FileOf[t])), ~Deselected(t),
                 t \notin collect.tests
          PROVE  /\ FileOf[t] \in collect.failed
                 /\ Encumbered(FileOf[t]) \/ (kind = "vitest" /\ bare /\ FileOf[t] \in owned)
      <3>1. Listed(t) /\ FileOf[t] \in File \ broken
        BY <2>1 DEF Listable, Listed
      <3>2. FileOf[t] \in collect.failed /\ (kind = "exec" \/ Refused(FileOf[t]))
        BY <2>1, <3>1, Collects
      <3>3. kind # "exec"
        BY <3>1, <3>2 DEF collect, exec_collect
      <3>4. FileOf[t] \in Alone(FileOf[t]) /\ t \in Shown(override_for(FileOf[t]), {FileOf[t]})
        BY <3>1, AloneIs
      <3>5. CASE kind = "pytest"
        <4>1. t \in Shown(override_for(FileOf[t]), Alone(FileOf[t]))
          BY <3>4 DEF Shown, Listable
        <4>2. Alone(FileOf[t]) \cap broken # {}
          BY <3>2, <3>5, <4>1 DEF Refused, pytest_refuses
        <4>3. QED
          BY <3>1, <3>2, <3>5, <4>2 DEF Alone, Given, Encumbered
      <3>6. CASE kind = "vitest"
        <4>1. t \in Shown(override_for(FileOf[t]), Alone(FileOf[t]) \ broken)
          BY <3>1, <3>4 DEF Shown, Listable
        <4>2. QED
          BY <3>2, <3>6, <4>1 DEF Refused, vitest_refuses
      <3>7. CASE kind \notin {"pytest", "vitest"}
        BY <2>1, <3>1, <3>2, <3>3, <3>7 DEF Refused, cargo_refuses
      <3>8. QED
        BY <3>5, <3>6, <3>7
    <2> DEFINE s(f) == override_for(f)
               blank(f) == Shown(s(f), {f}) = {} \/ (kind = "vitest" /\ f \notin Discovered(s(f)))
    <2>2. ASSUME NEW f \in collect.failed
          PROVE  \/ f \in broken \/ blank(f) \/ Encumbered(f)
                 \/ kind = "vitest" /\ bare /\ f \in owned
                 \/ inline \cap broken # {}
      <3>1. CASE kind = "exec"
        BY <2>2, <3>1, FailedIs
      <3>2. CASE kind = "pytest"
        <4>1. Alone(f) \cap broken # {} \/ Shown(s(f), Alone(f)) = {}
          BY <2>2, <3>2, FailedIs DEF Refused, pytest_refuses
        <4>2. Alone(f) = {f} \cup (IF s(f) \in fixed THEN Discovered(s(f)) ELSE {})
          BY <3>2 DEF Alone, Given
        <4>3. CASE Alone(f) \cap broken # {}
          BY <4>2, <4>3 DEF Encumbered
        <4>4. CASE Shown(s(f), Alone(f)) = {}
          BY <4>2, <4>4 DEF Shown, Listable
        <4>5. QED
          BY <4>1, <4>3, <4>4
      <3>3. CASE kind = "vitest"
        <4>1. (bare /\ f \in owned) \/ Shown(s(f), Alone(f) \ broken) = {}
          BY <2>2, <3>3, FailedIs DEF Refused, vitest_refuses
        <4>2. Alone(f) = {f} \cap Discovered(s(f))
          BY <3>3 DEF Alone, Given
        <4>3. ASSUME Shown(s(f), Alone(f) \ broken) = {}, f \notin broken, f \in Discovered(s(f))
              PROVE  blank(f)
          BY <4>2, <4>3 DEF Shown, Listable
        <4>4. QED
          BY <3>3, <4>1, <4>3
      <3>4. CASE kind \notin {"exec", "pytest", "vitest"}
        BY <2>2, <3>4, FailedIs DEF Refused, cargo_refuses
      <3>5. QED
        BY <3>1, <3>2, <3>3, <3>4
    <2>3. ASSUME NEW f \in collect.failed, collectable PROVE blank(f)
      <3>1. CASE kind = "exec"
        BY <2>3, <3>1, FailedIs DEF collectable, exec_collectable
      <3>2. CASE kind # "exec"
        <4>1. Refused(f) /\ f \in File /\ f \notin UNION {Settled(q) : q \in Suites}
          BY <2>3, <3>2, FailedIs
        <4>2. kind \in {"pytest", "vitest", "cargo"}
          BY <2>3, <3>2, KindIs DEF collect, gradle_collect, xctest_collect
        <4>3. CASE kind = "cargo"
          BY <2>3, <4>1, <4>3 DEF collectable, cargo_collectable, Refused, cargo_refuses
        <4>4. CASE kind \in {"pytest", "vitest"}
          <5>1. _collect_batch(s(f)).ok /\ s(f) \in Suites
            BY <2>3, <4>4, SuitesAre DEF collectable, pytest_collectable, vitest_collectable, _collect_batch
          <5>2. _collect_batch(s(f)) = Listing(Shown(s(f), Discovered(s(f))))
            BY <5>1, BatchIs DEF Unusable
          <5>3. _collect_batch(s(f)).tests = Shown(s(f), Discovered(s(f)))
            BY <5>2 DEF Listing
          <5>4. f \notin Settled(s(f))
            BY <4>1, <5>1
          <5>5. Shown(s(f), Discovered(s(f))) = {}
            BY <4>1, <5>1, <5>3, <5>4 DEF Settled
          <5>6. CASE kind = "pytest"
            <6>1. pytest_batch(s(f)).ok
              BY <5>1, <5>6 DEF _collect_batch
            <6>2. QED
              BY <5>5, <6>1 DEF pytest_batch, Unusable
          <5>7. CASE kind = "vitest" /\ f \in Discovered(s(f))
            BY <5>5, <5>7 DEF Shown, Listable
          <5>8. QED
            BY <4>4, <5>6, <5>7
        <4>5. QED
          BY <4>2, <4>3, <4>4
      <3>3. QED
        BY <3>1, <3>2
    <2>4. QED
      BY <2>1, <2>2, <2>3 DEF CollectionIsWhole
  <1>2. QED
    BY <1>1, TypeCorrect, RegistryKept, PTL

\* What a collection missed when the run began is explained by what it recorded then.
MissedThen ==
    \A t \in there :
        \/ IdOf[t] \in known
        \/ FileOf[t] \in spoilt \cup inline
        \/ FileOf[t] \notin Discovered(override_for(FileOf[t]))
        \/ Deselected(t)

\* Whatever the agent does to the tree: a test a cycle may adopt for its target is new,
\* or the collection at the start could not show it.
THEOREM AdoptsNew == Spec => []AdoptionIsNew
  <1>1. ASSUME TypeOK, Registered, Init PROVE MissedThen
    <2>1. SUFFICES ASSUME NEW t \in there, IdOf[t] \notin known, FileOf[t] \notin inline,
                          FileOf[t] \in Discovered(override_for(FileOf[t])), ~Deselected(t)
                   PROVE  FileOf[t] \in spoilt
      BY DEF MissedThen
    <2>2. t \in Test /\ Written(t) /\ known = Ids(collect.tests) /\ spoilt = collect.failed
      BY <1>1, <2>1 DEF Init
    <2>3. t \notin collect.tests /\ Listed(t)
      BY <2>1, <2>2 DEF Ids, Listed
    <2>4. QED
      BY <1>1, <2>2, <2>3, Collects
  <1>2. MissedThen /\ [Next]_vars => MissedThen'
    <2>1. [Next]_vars => UNCHANGED <<registry, start>>
      BY DEF Next, Edit, Start, _clear_results, _run_suite, gradle_suite, Judge, Return, vars
    <2>2. UNCHANGED registry => /\ \A f : (Discovered(override_for(f)))' = Discovered(override_for(f))
                                /\ \A t : Deselected(t)' = Deselected(t)
      BY DEF registry, override_for, Discovered, Deselected, Suites, _suite_invocations
    <2>3. QED
      BY <2>1, <2>2 DEF MissedThen, registry, start
  <1>3. MissedThen => AdoptionIsNew
    BY DEF MissedThen, AdoptionIsNew, _adopt_target
  <1>4. QED
    BY <1>1, <1>2, <1>3, TypeCorrect, RegistryKept, PTL DEF Spec

-----------------------------------------------------------------------------
(* A run.                                                                  *)

\* The suites a run asks for, and those it has still to ask.
Asked == Items(_run_invocations(mode))
Left == Items(todo)

\* What is known of the broken files of a suite that has been asked.
Refusals(s) ==
    /\ kind \in {"pytest", "vitest", "exec"} => Bad(s) \subseteq heard.refused
    /\ kind = "cargo" /\ Bad(s) # {} => heard.seen = {} /\ heard.said \subseteq {"compile"}
    /\ kind = "xctest" /\ Bad(s) # {} => heard.seen = {} /\ heard.said \subseteq {"build_failed"}
    /\ kind = "gradle" /\ Bad(s) # {} => ran = {} /\ heard.said = {} /\ heard.ok = FALSE

\* The result files of gradle: what ran is in them and, once the old ones could all be
\* removed, nothing else.
ResultFiles ==
    /\ \A h \in ran : xml[h[2]] = h[3]
    /\ pc \in {"suite", "judged"} /\ stuck = {} =>
          \A t \in Test : xml[t] = "none" \/ <<"default", t, xml[t]>> \in ran

\* A run, from its call to its verdict.
RunInv ==
    /\ pc = "idle" => ran = {} /\ heard.made
    /\ pc = "clear" => kind = "gradle" /\ todo # <<>>
    /\ pc = "judged" => todo = <<>> /\ verdict = run
    /\ Left \subseteq Asked
    /\ ~Composed /\ todo # <<>> => ran = {} /\ heard = Nothing
    /\ \A h \in ran : h[1] \in Asked /\ h[2] \in Healthily(h[1]) /\ h[3] \in Outcomes(h[1], h[2])
    /\ kind # "gradle" /\ heard.made => heard.seen = ran
    /\ ~heard.made => kind \in {"pytest", "vitest"} /\ todo = <<>>
    /\ pc \in {"suite", "judged"} /\ heard.made => \A s \in Asked \ Left : Refusals(s)
    /\ kind = "gradle" => ResultFiles

\* Nothing a run goes by changes under it.
LEMMA SameTree ==
    ASSUME UNCHANGED <<registry, body, broken, mode>>
    PROVE  /\ Asked' = Asked /\ Composed' = Composed
           /\ \A s : Healthily(s)' = Healthily(s) /\ Bad(s)' = Bad(s)
           /\ \A s, t : Outcomes(s, t)' = Outcomes(s, t)
  <1>1. UNCHANGED <<kind, overridden, owned, inline, reach, drops, fixed, odd>>
    BY DEF registry
  <1>2. Asked' = Asked /\ Composed' = Composed
    BY <1>1 DEF Asked, Items, _run_invocations, _suite_invocations, override_for, Home, Composed
  <1>3. \A s : Scope(s)' = Scope(s)
    BY <1>1 DEF Scope, Narrow, Home, Composed, Given, Discovered
  <1>4. \A s : Picked(s)' = Picked(s)
    BY <1>1 DEF Picked, Narrow, Matching, Listable, Discovered, Written
  <1>5. \A s : Healthily(s)' = Healthily(s) /\ Bad(s)' = Bad(s)
    BY <1>1, <1>3, <1>4 DEF Healthily, Bad, Written, Cmd, Narrow
  <1>6. \A s, t : Outcomes(s, t)' = Outcomes(s, t)
    BY <1>1 DEF Outcomes, override_for, Cmd, Narrow
  <1>7. QED
    BY <1>2, <1>5, <1>6

\* A verdict is read from the registry and what was heard, and from nothing else.
LEMMA SameRun ==
    ASSUME UNCHANGED <<registry, mode, heard, xml, torn>>
    PROVE  run' = run
  <1>1. kind' = kind /\ Home' = Home
    BY DEF registry, Home
  <1>2. \A o : Hears(o)' = Hears(o) /\ _parse_results(o)' = _parse_results(o)
    BY DEF Hears, _parse_results
  <1>3. _suite_overlap' = _suite_overlap
    BY DEF _suite_overlap
  <1>4. \A b : Unbuilt(b)' = Unbuilt(b)
    BY DEF Unbuilt
  <1>5. \A o : WithTarget(o)' = WithTarget(o)
    BY DEF WithTarget
  <1>6. Heard' = Heard
    BY <1>2, <1>5 DEF Heard
  <1>7. pytest_run' = pytest_run
    BY <1>1, <1>2, <1>3, <1>5 DEF pytest_run
  <1>8. vitest_run' = vitest_run
    BY <1>1, <1>2, <1>3, <1>5 DEF vitest_run
  <1>9. cargo_run' = cargo_run
    BY <1>2, <1>4, <1>6 DEF cargo_run
  <1>10. xctest_run' = xctest_run
    BY <1>4, <1>6 DEF xctest_run
  <1>11. gradle_run' = gradle_run
    BY <1>2, <1>4, <1>5 DEF gradle_run
  <1>12. exec_run' = exec_run
    BY <1>1, <1>2, <1>5 DEF exec_run
  <1>13. QED
    BY <1>1, <1>7, <1>8, <1>9, <1>10, <1>11, <1>12 DEF run

\* Without an override there is one suite to ask.
LEMMA OneSuite ==
    ASSUME TypeOK, Registered, ~Composed
    PROVE  /\ Asked = {"default"} /\ \A m : _run_invocations(m) = <<"default">>
           /\ Left \subseteq Asked => todo \in {<<>>, <<"default">>}
           /\ Left \subseteq Asked /\ todo # <<>> => Left = Asked
  <1>1. owned = {} /\ ~overridden
    BY DEF Registered
  <1>2. \A m : _run_invocations(m) = <<"default">>
    BY <1>1 DEF _run_invocations, _suite_invocations, override_for
  <1>3. Asked = {"default"}
    BY <1>2 DEF Asked, Items
  <1>4. CASE todo = <<>>
    BY <1>2, <1>3, <1>4
  <1>5. CASE todo = <<"default">>
    BY <1>2, <1>3, <1>5 DEF Left, Items
  <1>6. CASE todo = <<"override">>
    <2>1. todo[1] \in Left
      BY <1>6 DEF Left, Items
    <2>2. QED
      BY <1>2, <1>3, <1>6, <2>1
  <1>7. CASE todo = <<"default", "override">>
    <2>1. todo[2] \in Left
      BY <1>7 DEF Left, Items
    <2>2. QED
      BY <1>2, <1>3, <1>7, <2>1
  <1>8. QED
    BY <1>4, <1>5, <1>6, <1>7 DEF TypeOK

\* For every adapter, a run keeps RunInv: what was heard of the runner is what ran, and only
\* what the tree and the suites asked for could run.
THEOREM RunsAreHeard == Spec => []RunInv
  <1>1. ASSUME Init PROVE RunInv
    <2>1. heard = Nothing /\ heard.made = TRUE /\ heard.seen = {} /\ ran = {} /\ todo = <<>> /\ pc = "idle"
      BY <1>1 DEF Init, Nothing, Report
    <2>2. Left = {}
      BY <2>1 DEF Left, Items
    <2>3. QED
      BY <2>1, <2>2 DEF RunInv, ResultFiles
  <1>2. ASSUME TypeOK, TypeOK', Registered, Registered', RunInv, [Next]_vars PROVE RunInv'
    <2> USE <1>2
    <2>1. CASE Edit
      <3>1. pc = "idle" /\ pc' = "idle" /\ ran = {} /\ UNCHANGED <<registry, mode, todo, heard, ran, kind, results>>
        BY <2>1 DEF Edit, RunInv, run_vars, registry
      <3>2. Asked' = Asked /\ Composed' = Composed /\ Left' = Left
        BY <3>1 DEF registry, Asked, _run_invocations, _suite_invocations, override_for, Home, Composed, Left
      <3>3. QED
        BY <3>1, <3>2 DEF RunInv, ResultFiles, results
    <2>2. ASSUME NEW m \in {"red", "green", "sweep"}, Start(m) PROVE RunInv'
      <3>1. /\ heard' = Nothing /\ heard'.made = TRUE /\ heard'.seen = {} /\ ran' = {} /\ kind' = kind
            /\ pc' \in {"clear", "suite"} /\ (pc' = "clear" <=> kind = "gradle")
        BY <2>2 DEF Start, Nothing, Report, registry
      <3>2. Left' = Asked'
        BY <2>2 DEF Left, Asked, Start, registry, _run_invocations, _suite_invocations, override_for, Home
      <3>3. todo' # <<>>
        BY <2>2, AskedIs DEF Start
      <3>4. Nothing' = Nothing
        BY DEF Nothing, Report
      <3>5. QED
        BY <3>1, <3>2, <3>3, <3>4 DEF RunInv, ResultFiles
    <2>3. CASE _clear_results
      <3>1. /\ pc = "clear" /\ pc' = "suite" /\ UNCHANGED <<registry, body, broken, mode, todo, heard, ran>>
            /\ xml' = [t \in Test |-> IF FileOf[t] \in stuck' THEN xml[t] ELSE "none"]
        BY <2>3 DEF _clear_results, tree
      <3>2. kind = "gradle" /\ kind' = kind /\ todo # <<>> /\ ~Composed /\ ran = {} /\ heard = Nothing
        BY <3>1 DEF RunInv, Composed, registry
      <3>3. Left' = Left /\ Asked' = Asked /\ Composed' = Composed
        BY <3>1, SameTree DEF Left
      <3>4. Asked' \ Left' = {}
        BY <3>2, <3>3, OneSuite DEF RunInv
      <3>5. ResultFiles'
        BY <3>1, <3>2 DEF ResultFiles
      <3>6. QED
        BY <3>1, <3>2, <3>3, <3>4, <3>5 DEF RunInv
    <2>4. CASE _run_suite
      <3>1. /\ pc = "suite" /\ pc' = "suite" /\ todo # <<>> /\ kind # "gradle" /\ kind' = kind /\ heard.made
            /\ UNCHANGED <<registry, body, broken, mode>>
        BY <2>4 DEF _run_suite, RunInv, registry, tree
      <3>2. PICK r \in Runner(Head(todo)) :
               /\ heard' = IF r.made THEN Joined(heard, r) ELSE NoReport
               /\ todo' = IF r.made THEN Tail(todo) ELSE <<>>
               /\ ran' = ran \cup r.seen
        BY <2>4 DEF _run_suite
      <3>3. PICK s \in Suite : s = Head(todo)
        BY <3>1, QueueIs DEF TypeOK, Queues
      <3>4. s \in Left /\ Left = {s} \cup Items(Tail(todo))
        BY <3>1, <3>3, QueueIs DEF TypeOK, Queues, Left
      <3>6. Hearable(s, r)
        BY <3>1, <3>2, <3>3, RunnerIs
      <3>7. \A h \in ran' : h[1] \in Asked' /\ h[2] \in Healthily(h[1])' /\ h[3] \in Outcomes(h[1], h[2])'
        BY <3>1, <3>2, <3>4, <3>6, SameTree DEF Hearable, RunInv
      <3>8. CASE r.made
        <4>1. /\ heard'.seen = heard.seen \cup r.seen /\ heard'.refused = heard.refused \cup r.refused
              /\ heard'.said = heard.said \cup r.said /\ heard'.made = TRUE
          BY <3>2, <3>8 DEF Joined, Report
        <4>2. Left' \subseteq Left /\ Left \subseteq Left' \cup {s}
          BY <3>2, <3>4, <3>8 DEF Left
        <4>3. ~Composed => todo' = <<>> /\ Asked \ Left = {} /\ heard.seen = {} /\ heard.said = {}
          <5>1. ~Composed => todo = <<"default">> /\ Left = Asked /\ heard = Nothing
            BY <3>1, OneSuite DEF RunInv
          <5>2. Tail(<<"default">>) = <<>> /\ Nothing.seen = {} /\ Nothing.said = {}
            BY DEF Nothing, Report
          <5>3. QED
            BY <3>2, <3>8, <5>1, <5>2
        <4>4. ASSUME NEW q \in Asked \ Left' PROVE Refusals(q)'
          <5>1. CASE q = s
            BY <3>1, <3>6, <3>8, <4>1, <4>3, <5>1, SameTree DEF Hearable, Refusals, Composed
          <5>2. CASE q # s
            <6>1. q \in Asked \ Left
              BY <4>2, <5>2
            <6>2. Composed /\ Refusals(q)
              BY <3>1, <4>3, <6>1 DEF RunInv
            <6>3. QED
              BY <3>1, <4>1, <6>2, SameTree DEF Refusals, Composed
          <5>3. QED
            BY <5>1, <5>2
        <4>5. QED
          BY <3>1, <3>2, <3>7, <4>1, <4>2, <4>3, <4>4, SameTree DEF RunInv
      <3>9. CASE ~r.made
        <4>1. kind \in {"pytest", "vitest"} /\ r.seen = {} /\ todo' = <<>> /\ heard'.made = FALSE
          BY <3>2, <3>6, <3>9, NoReportIs DEF Hearable
        <4>2. Left' = {}
          BY <4>1 DEF Left, Items
        <4>3. QED
          BY <3>1, <3>7, <4>1, <4>2 DEF RunInv
      <3>10. QED
        BY <3>8, <3>9
    <2>5. CASE gradle_suite
      <3>1. /\ pc = "suite" /\ pc' = "suite" /\ todo # <<>> /\ kind = "gradle" /\ kind' = kind /\ ~Composed
            /\ UNCHANGED <<registry, body, broken, mode, stuck>> /\ todo' = Tail(todo)
        BY <2>5 DEF gradle_suite, Composed, registry, tree
      <3>2. todo = <<"default">> /\ Asked = {"default"} /\ ran = {}
        BY <3>1, OneSuite DEF RunInv
      <3>3. todo' = <<>>
        BY <3>1, <3>2
      <3>4. Left' = {}
        BY <3>3 DEF Left, Items
      <3>5. heard'.made = TRUE /\ (GradleUnbuilt \/ GradleWrote)
        BY <2>5, GradleIs
      <3>6. /\ \A h \in ran' : h[1] \in Asked' /\ h[2] \in Healthily(h[1])' /\ h[3] \in Outcomes(h[1], h[2])'
            /\ \A h \in ran' : xml'[h[2]] = h[3]
        BY <3>1, <3>2, <3>5, SameTree DEF GradleUnbuilt, GradleWrote
      <3>7. Refusals("default")'
        BY <3>1, <3>2, <3>5, SameTree DEF Refusals, GradleUnbuilt, GradleWrote
      <3>8. ASSUME stuck' = {}, NEW t \in Test PROVE xml'[t] = "none" \/ <<"default", t, xml'[t]>> \in ran'
        <4>1. xml[t] = "none"
          BY <3>1, <3>2, <3>8 DEF RunInv, ResultFiles
        <4>2. QED
          BY <3>5, <4>1 DEF GradleUnbuilt, GradleWrote
      <3>9. ResultFiles'
        BY <3>6, <3>8 DEF ResultFiles
      <3>10. QED
        BY <3>1, <3>2, <3>3, <3>4, <3>5, <3>6, <3>7, <3>9, SameTree DEF RunInv
    <2>6. CASE Judge
      <3>1. /\ pc' = "judged" /\ todo' = <<>> /\ kind' = kind
            /\ UNCHANGED <<registry, body, broken, mode, todo, heard, ran, xml, torn, stuck>>
        BY <2>6 DEF Judge, tree, results, registry
      <3>2. verdict' = run'
        BY <2>6, <3>1, SameRun DEF Judge
      <3>3. Left' = Left /\ pc = "suite"
        BY <2>6, <3>1 DEF Left, Judge
      <3>4. QED
        BY <3>1, <3>2, <3>3, SameTree DEF RunInv, ResultFiles, Refusals
    <2>7. CASE Return
      <3>1. heard' = Nothing /\ heard'.made = TRUE /\ heard'.seen = {} /\ ran' = {} /\ todo' = <<>> /\ pc' = "idle"
        BY <2>7 DEF Return, Nothing, Report
      <3>2. Left' = {}
        BY <3>1 DEF Left, Items
      <3>3. QED
        BY <3>1, <3>2 DEF RunInv, ResultFiles
    <2>8. CASE UNCHANGED vars
      <3>1. /\ UNCHANGED <<registry, body, broken, mode, todo, heard, ran, xml, torn, stuck, kind>>
            /\ pc' = pc /\ verdict' = verdict
        BY <2>8 DEF vars, tree, results, registry, run_vars
      <3>2. Left' = Left /\ run' = run
        BY <3>1, SameRun DEF Left
      <3>3. QED
        BY <3>1, <3>2, SameTree DEF RunInv, ResultFiles, Refusals
    <2>9. QED
      BY <2>1, <2>2, <2>3, <2>4, <2>5, <2>6, <2>7, <2>8 DEF Next
  <1>3. QED
    BY <1>1, <1>2, TypeCorrect, RegistryKept, PTL DEF Spec

-----------------------------------------------------------------------------
(* The verdict.                                                            *)

\* The adapters compare ids only: what follows is about a target whose id is its own.
OwnId == \A t \in Test : IdOf[t] = IdOf[Target] => t = Target

\* Whose result a verdict on the target is.
LEMMA TargetIs ==
    ASSUME TypeOK, RunInv, Judged
    PROVE  /\ verdict.target = "passed" =>
                IF kind = "gradle" THEN IdOf[Target] \in _parse_results("passed")
                ELSE heard.made /\ IdOf[Target] \in Hears("passed")
           /\ verdict.target = "failed" =>
                IF kind = "gradle" THEN IdOf[Target] \in _parse_results("failed")
                ELSE heard.made /\ IdOf[Target] \in Hears("failed") \cup Hears("skipped")
  <1>1. verdict = run /\ (~heard.made => kind \in {"pytest", "vitest"})
    BY DEF RunInv, Judged
  <1>2. kind \in {"pytest", "vitest", "cargo", "gradle", "xctest", "exec"}
    BY KindIs
  <1>3. \A b : Unbuilt(b).target \notin {"passed", "failed"}
    BY DEF Unbuilt, Verdict
  <1>4. WithTarget("not_collected") \notin {"passed", "failed"}
    BY DEF WithTarget
  <1>5. /\ Heard.target = "passed" => IdOf[Target] \in Hears("passed")
        /\ Heard.target = "failed" => IdOf[Target] \in Hears("failed")
    BY DEF Heard, Verdict, WithTarget, Found
  <1>6. CASE kind = "pytest"
    <2>1. CASE ~heard.made \/ _suite_overlap # {}
      BY <1>1, <1>6, <2>1 DEF run, pytest_run, Verdict
    <2>2. CASE heard.made /\ _suite_overlap = {}
      <3> DEFINE hit == Found(Hears("passed"), Hears("failed") \cup Hears("skipped"))
      <3>1. verdict.target = WithTarget(IF hit = "not_found" /\ Home \in heard.refused
                                        THEN "not_collected" ELSE hit)
        BY <1>1, <1>6, <2>2 DEF run, pytest_run, Verdict
      <3> HIDE DEF hit
      <3>2. verdict.target \in {"passed", "failed"} => verdict.target = WithTarget(hit)
        BY <1>4, <3>1
      <3>3. QED
        BY <1>6, <2>2, <3>2 DEF hit, WithTarget, Found
    <2>3. QED
      BY <2>1, <2>2
  <1>7. CASE kind = "vitest"
    <2>1. CASE ~heard.made \/ _suite_overlap # {}
      BY <1>1, <1>7, <2>1 DEF run, vitest_run, Verdict
    <2>2. CASE heard.made /\ _suite_overlap = {}
      <3> DEFINE hit == Found(Hears("passed"), Hears("failed"))
      <3>1. verdict.target = WithTarget(IF hit = "not_found" /\ Home \in heard.refused
                                        THEN "not_collected" ELSE hit)
        BY <1>1, <1>7, <2>2 DEF run, vitest_run, Verdict
      <3> HIDE DEF hit
      <3>2. verdict.target \in {"passed", "failed"} => verdict.target = WithTarget(hit)
        BY <1>4, <3>1
      <3>3. QED
        BY <1>7, <2>2, <3>2 DEF hit, WithTarget, Found
    <2>3. QED
      BY <2>1, <2>2
  <1>8. CASE kind = "cargo"
    BY <1>1, <1>3, <1>5, <1>8 DEF run, cargo_run
  <1>9. CASE kind = "xctest"
    BY <1>1, <1>3, <1>5, <1>9 DEF run, xctest_run
  <1>10. CASE kind = "gradle"
    BY <1>1, <1>3, <1>10 DEF run, gradle_run, Verdict, WithTarget, Found
  <1>11. CASE kind = "exec"
    BY <1>1, <1>11 DEF run, exec_run, Verdict, WithTarget, Found
  <1>12. QED
    BY <1>2, <1>6, <1>7, <1>8, <1>9, <1>10, <1>11

\* Where the doctor's probe holds and none strays, only its own suite runs the target.
LEMMA RightSuite ==
    ASSUME TypeOK, Registered, RunInv, override_isolation, NEW h \in ran, h[2] = Target
    PROVE  h[1] = override_for(Home) \/ Stray(h[1])
  <1>1. h[1] \in Asked /\ Target \in Healthily(h[1])
    BY DEF RunInv
  <1>2. CASE Narrow
    BY <1>1, <1>2 DEF Asked, Items, _run_invocations, Narrow
  <1>3. CASE ~Narrow /\ ~overridden
    BY <1>1, <1>3 DEF Asked, Items, _run_invocations, _suite_invocations, override_for, Narrow, Registered
  <1>4. CASE ~Narrow /\ overridden /\ h[1] # override_for(Home)
    <2>1. Composed /\ h[1] \in {"default", "override"}
      BY <1>1, <1>4 DEF Registered, Asked, Items, _run_invocations, _suite_invocations, Narrow
    <2>2. Scope(h[1]) = reach[h[1]]["test"] /\ Cmd = "test"
      BY <1>4, <2>1 DEF Scope, Cmd, Composed
    <2>3. /\ Home \in reach[h[1]]["test"] /\ Home \notin broken
          /\ Target \notin drops[h[1]]["test"] /\ Written(Target)
      BY <1>1, <2>2, HealthyIs DEF Home
    <2>4. CASE h[1] = "override"
      BY <1>4, <2>3, <2>4 DEF Stray
    <2>5. CASE h[1] = "default"
      <3>1. Home \in owned
        BY <1>4, <2>5 DEF override_for
      <3>2. ASSUME Home \in reach["default"][Probe] PROVE Target \in drops["default"][Probe]
        <4>1. Target \in Listable(reach["default"][Probe] \ broken)
          BY <2>3, <3>2, AdapterAssumption DEF Listable, Home
        <4>2. QED
          BY <1>4, <2>1, <3>1, <4>1 DEF override_isolation, Home
      <3>3. QED
        BY <1>4, <2>3, <2>5, <3>2 DEF Stray
    <2>6. QED
      BY <2>1, <2>4, <2>5
  <1>5. QED
    BY <1>2, <1>3, <1>4

\* A target that a verdict calls passed or failed ran and did that.
LEMMA TargetRan ==
    ASSUME OwnId, TypeOK, RunInv, Judged, stuck = {}, verdict.target \in {"passed", "failed"}
    PROVE  \E h \in ran : /\ h[2] = Target
                          /\ verdict.target = "passed" => h[3] = "passed"
                          /\ verdict.target = "failed" => h[3] \in {"failed", "skipped"}
  <1>1. CASE kind = "gradle"
    <2>1. PICK o \in {"passed", "failed"} : o = verdict.target
      OBVIOUS
    <2>2. IdOf[Target] \in _parse_results(o)
      BY <1>1, <2>1, TargetIs
    <2>3. xml[Target] = o
      BY <2>2 DEF _parse_results, OwnId
    <2>4. <<"default", Target, o>> \in ran
      BY <1>1, <2>1, <2>3, AdapterAssumption DEF RunInv, ResultFiles, Judged
    <2>5. QED
      BY <2>1, <2>4
  <1>2. CASE kind # "gradle"
    <2>1. heard.made /\ heard.seen = ran
      BY <1>2, TargetIs DEF RunInv
    <2>2. \A o : IdOf[Target] \in Hears(o) => \E h \in ran : h[2] = Target /\ h[3] = o
      <3>1. SUFFICES ASSUME NEW o, IdOf[Target] \in Hears(o)
                     PROVE  \E h \in ran : h[2] = Target /\ h[3] = o
        OBVIOUS
      <3>2. PICK h \in heard.seen : h[3] = o /\ IdOf[h[2]] = IdOf[Target]
        BY <3>1 DEF Hears
      <3>3. h[2] \in Test
        BY DEF TypeOK
      <3>4. QED
        BY <2>1, <3>2, <3>3 DEF OwnId
    <2>3. QED
      BY <1>2, <2>2, TargetIs
  <1>3. QED
    BY <1>1, <1>2

\* For every adapter, registry and tree: a target is reported passed only if it ran in
\* this run and passed, under its own suite or one the doctor does not see reach it.
THEOREM PassesAreEarned ==
    ASSUME OwnId
    PROVE  Spec => []PassedIsEarned
  <1>1. TypeOK /\ Registered /\ RunInv => PassedIsEarned
    <2>1. SUFFICES ASSUME TypeOK, Registered, RunInv, Judged, verdict.target = "passed",
                          stuck = {}
                   PROVE  \E s \in Suite : /\ <<s, Target, "passed">> \in ran
                                           /\ s = override_for(Home) \/ ~override_isolation \/ Stray(s)
      BY DEF PassedIsEarned
    <2>2. PICK h \in ran : h[2] = Target /\ h[3] = "passed"
      BY <2>1, TargetRan
    <2>3. h = <<h[1], h[2], h[3]>> /\ h[1] \in Suite
      BY <2>1 DEF TypeOK
    <2>4. h[1] = override_for(Home) \/ ~override_isolation \/ Stray(h[1])
      BY <2>1, <2>2, RightSuite
    <2>5. QED
      BY <2>2, <2>3, <2>4
  <1>2. QED
    BY <1>1, TypeCorrect, RegistryKept, RunsAreHeard, PTL

\* Every failure a runner lived to report is in the verdict, unless that says that the run
\* itself went wrong.
THEOREM ReportsFailures == Spec => []FailuresAreReported
  <1>1. TypeOK /\ RunInv => FailuresAreReported
    <2>1. SUFFICES ASSUME TypeOK, RunInv, Judged, verdict.error = "none", verdict.target # "not_collected",
                          NEW h \in ran, h[3] = "failed", FileOf[h[2]] \notin torn
                   PROVE  IdOf[h[2]] \in verdict.failed
      BY DEF FailuresAreReported
    <2>2. verdict = run /\ h[2] \in Test
      BY <2>1 DEF RunInv, Judged, TypeOK
    <2>3. kind # "gradle" /\ heard.made => IdOf[h[2]] \in Hears("failed")
      BY <2>1 DEF RunInv, Hears
    <2>4. kind \notin {"pytest", "vitest"} => heard.made
      BY <2>1 DEF RunInv
    <2>5. Heard.failed = Hears("failed")
      BY DEF Heard, Verdict
    <2>6. CASE kind = "pytest"
      BY <2>1, <2>2, <2>3, <2>6 DEF run, pytest_run, Verdict
    <2>7. CASE kind = "vitest"
      BY <2>1, <2>2, <2>3, <2>7 DEF run, vitest_run, Verdict
    <2>8. CASE kind = "cargo"
      BY <2>2, <2>3, <2>4, <2>5, <2>8 DEF run, cargo_run
    <2>9. CASE kind = "xctest"
      <3>1. "build_failed" \in heard.said => verdict.error # "none" \/ verdict.target = "not_collected"
        BY <2>2, <2>9 DEF run, xctest_run, Unbuilt, Verdict
      <3>2. QED
        BY <2>1, <2>2, <2>3, <2>4, <2>5, <2>9, <3>1 DEF run, xctest_run
    <2>10. CASE kind = "gradle"
      <3>1. IdOf[h[2]] \in _parse_results("failed")
        BY <2>1, <2>2, <2>10 DEF RunInv, ResultFiles, _parse_results
      <3>2. QED
        BY <2>2, <2>10, <3>1 DEF run, gradle_run, Verdict
    <2>11. CASE kind = "exec"
      BY <2>2, <2>3, <2>4, <2>11 DEF run, exec_run, Verdict
    <2>12. QED
      BY <2>1, <2>6, <2>7, <2>8, <2>9, <2>10, <2>11, KindIs
  <1>2. QED
    BY <1>1, TypeCorrect, RunsAreHeard, PTL

\* For every adapter: a target whose own file is broken is not_collected, never a name that
\* matches nothing.
THEOREM UnimportableIsSaid ==
    ASSUME OwnId
    PROVE  Spec => []UnimportableIsNotMissing
  <1>1. ASSUME TypeOK, Registered, RunInv, Judged, mode # "sweep", verdict.error = "none", stuck = {},
               Home \in broken, Composed => Home \in reach[override_for(Home)]["test"],
               kind \in {"cargo", "xctest"} => heard.said # {}
        PROVE  verdict.target = "not_collected"
    <2> USE <1>1
    <2>1. verdict = run
      BY DEF RunInv, Judged
    <2>2. override_for(Home) \in Asked /\ Left = {}
      BY DEF Asked, Left, Items, RunInv, Judged, _run_invocations, _suite_invocations, override_for, Registered
    <2>3. Home \in Bad(override_for(Home))
      <3>1. Home \in Scope(override_for(Home))
        BY KindIs, HomeIs DEF Scope, Given, Narrow, Composed
      <3>2. QED
        BY <3>1 DEF Bad
    <2>4. heard.made => Refusals(override_for(Home))
      BY <2>2 DEF RunInv, Judged
    <2>5. Unbuilt(TRUE).target = "not_collected"
      BY DEF Unbuilt, Verdict
    <2>6. CASE kind \in {"pytest", "vitest"}
      <3>1. heard.made /\ _suite_overlap = {}
        BY <2>1, <2>6 DEF run, pytest_run, vitest_run, Verdict
      <3>2. Home \in heard.refused
        BY <2>3, <2>4, <2>6, <3>1 DEF Refusals
      <3>3. \A h \in heard.seen : IdOf[h[2]] # IdOf[Target]
        <4>1. \A h \in ran : h[2] \in Test /\ FileOf[h[2]] \notin broken
          BY HealthyIs DEF RunInv
        <4>2. heard.seen = ran
          BY <2>6, <3>1 DEF RunInv
        <4>3. QED
          BY <4>1, <4>2 DEF OwnId, Home
      <3>4. \A o : IdOf[Target] \notin Hears(o)
        BY <3>3 DEF Hears
      <3>5. CASE kind = "pytest"
        <4>1. Found(Hears("passed"), Hears("failed") \cup Hears("skipped")) = "not_found"
          BY <3>4 DEF Found
        <4>2. QED
          BY <2>1, <3>1, <3>2, <3>5, <4>1 DEF run, pytest_run, Verdict, WithTarget
      <3>6. CASE kind = "vitest"
        <4>1. Found(Hears("passed"), Hears("failed")) = "not_found"
          BY <3>4 DEF Found
        <4>2. QED
          BY <2>1, <3>1, <3>2, <3>6, <4>1 DEF run, vitest_run, Verdict, WithTarget
      <3>7. QED
        BY <2>6, <3>5, <3>6
    <2>7. CASE kind = "exec"
      <3>1. Home \in heard.refused
        BY <2>3, <2>4, <2>7 DEF Refusals, RunInv
      <3>2. QED
        BY <2>1, <2>7, <3>1 DEF run, exec_run, Verdict, WithTarget
    <2>8. CASE kind = "cargo"
      <3>1. heard.seen = {} /\ "compile" \in heard.said
        BY <2>3, <2>4, <2>8 DEF Refusals, RunInv
      <3>2. \A o : Hears(o) = {}
        BY <3>1 DEF Hears
      <3>3. QED
        BY <2>1, <2>5, <2>8, <3>1, <3>2 DEF run, cargo_run
    <2>9. CASE kind = "xctest"
      <3>1. "build_failed" \in heard.said
        BY <2>3, <2>4, <2>9 DEF Refusals, RunInv
      <3>2. QED
        BY <2>1, <2>5, <2>9, <3>1 DEF run, xctest_run
    <2>10. CASE kind = "gradle"
      <3>1. ran = {} /\ heard.said = {} /\ heard.ok = FALSE
        BY <2>3, <2>4, <2>10 DEF Refusals, RunInv
      <3>2. \A t \in Test : xml[t] = "none"
        BY <2>10, <3>1 DEF RunInv, ResultFiles, Judged
      <3>3. _parse_results("passed") = {} /\ _parse_results("failed") = {}
        BY <3>2 DEF _parse_results
      <3>4. QED
        BY <2>1, <2>5, <2>10, <3>1, <3>3 DEF run, gradle_run
    <2>11. QED
      BY <2>6, <2>7, <2>8, <2>9, <2>10, KindIs
  <1>2. TypeOK /\ Registered /\ RunInv => UnimportableIsNotMissing
    BY <1>1 DEF UnimportableIsNotMissing
  <1>3. QED
    BY <1>2, TypeCorrect, RegistryKept, RunsAreHeard, PTL

-----------------------------------------------------------------------------
(* The target alone and in the whole.                                      *)

\* The suites NarrowAgreesWithWhole is about.
AlikeSuites == override_isolation /\ (\A s \in Suite : ~Stray(s)) /\ override_for(Home) \notin odd

\* NarrowAgreesWithWhole relates two verdicts, of different runs: each says what the target
\* does on the tree that is there.
LastIsTrue ==
    AlikeSuites =>
        \A m \in {"red", "green"} :
            /\ last[m] = "passed" => body[Target] = "pass"
            /\ last[m] = "failed" => body[Target] # "pass"

LEMMA SameSuites ==
    ASSUME UNCHANGED <<registry, body, broken>>
    PROVE  AlikeSuites' = AlikeSuites
  <1>1. UNCHANGED <<kind, overridden, owned, reach, drops, odd>>
    BY DEF registry
  <1>2. override_isolation' = override_isolation
    BY <1>1 DEF override_isolation, Composed, Listable, Written, Probe
  <1>3. \A s \in Suite : Stray(s)' = Stray(s)
    BY <1>1 DEF Stray, override_for, Home, Probe
  <1>4. QED
    BY <1>1, <1>2, <1>3 DEF AlikeSuites, override_for, Home

\* On one and the same tree a target-only run and a whole run never contradict each other
\* about the target.
THEOREM NarrowAgrees ==
    ASSUME OwnId
    PROVE  Spec => []NarrowAgreesWithWhole
  <1>1. Init => LastIsTrue
    BY DEF Init, LastIsTrue, Nowhere
  <1>2. ASSUME TypeOK, Registered, RunInv, LastIsTrue, [Next]_vars PROVE LastIsTrue'
    <2> USE <1>2
    <2>1. CASE Edit
      BY <2>1 DEF Edit, LastIsTrue, Nowhere
    <2>2. CASE Return
      <3>1. UNCHANGED <<registry, body, broken>>
        BY <2>2 DEF Return, tree
      <3>2. AlikeSuites' = AlikeSuites
        BY <3>1, SameSuites
      <3>3. SUFFICES ASSUME AlikeSuites, NEW m \in {"red", "green"}
                     PROVE  /\ last'[m] = "passed" => body[Target] = "pass"
                            /\ last'[m] = "failed" => body[Target] # "pass"
        BY <3>1, <3>2 DEF LastIsTrue
      <3>4. CASE last'[m] = last[m]
        BY <3>3, <3>4 DEF LastIsTrue
      <3>5. CASE last'[m] # last[m]
        <4>1. /\ stuck = {} /\ last'[m] = verdict.target /\ Judged
              /\ verdict.target \in {"passed", "failed"}
          BY <2>2, <3>5 DEF Return, TypeOK, Judged
        <4>2. /\ verdict.target = "passed" => body[Target] = "pass"
              /\ verdict.target = "failed" => body[Target] # "pass"
          <5>1. PICK h \in ran :
                   /\ h[2] = Target
                   /\ verdict.target = "passed" => h[3] = "passed"
                   /\ verdict.target = "failed" => h[3] \in {"failed", "skipped"}
            BY <4>1, TargetRan
          <5>2. h[1] = override_for(Home) /\ h[1] \notin odd
            BY <3>3, <5>1, RightSuite DEF AlikeSuites, TypeOK
          <5>3. h[3] \in Outcomes(override_for(Home), Target)
            BY <5>1, <5>2 DEF RunInv
          <5>4. CASE verdict.target = "passed"
            BY <5>1, <5>2, <5>3, <5>4 DEF Outcomes, Home
          <5>5. CASE verdict.target = "failed"
            BY <5>1, <5>2, <5>3, <5>5 DEF Outcomes, Home
          <5>6. QED
            BY <4>1, <5>4, <5>5
        <4>3. QED
          BY <4>1, <4>2
      <3>6. QED
        BY <3>4, <3>5
    <2>3. CASE UNCHANGED <<registry, body, broken, last>>
      <3>1. AlikeSuites' = AlikeSuites
        BY <2>3, SameSuites
      <3>2. QED
        BY <2>3, <3>1 DEF LastIsTrue
    <2>4. QED
      BY <2>1, <2>2, <2>3 DEF Next, Start, _clear_results, _run_suite, gradle_suite, Judge, vars, tree
  <1>3. LastIsTrue => NarrowAgreesWithWhole
    <2>1. SUFFICES ASSUME LastIsTrue, AlikeSuites, {last["red"], last["green"]} = {"passed", "failed"}
                   PROVE  FALSE
      BY DEF NarrowAgreesWithWhole, AlikeSuites
    <2>2. \/ last["red"] = "passed" /\ last["green"] = "failed"
          \/ last["red"] = "failed" /\ last["green"] = "passed"
      BY <2>1
    <2>3. QED
      BY <2>1, <2>2 DEF LastIsTrue
  <1>4. QED
    BY <1>1, <1>2, <1>3, TypeCorrect, RegistryKept, RunsAreHeard, PTL DEF Spec

=============================================================================
