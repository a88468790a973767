------------------------------- MODULE Pipeline -------------------------------
(***************************************************************************)
(* One project, and the invocations of oxitest that follow each other in   *)
(* it (pipeline/mod.rs and pipeline/transitions/).  Between two            *)
(* invocations only the disk remains: the cache, the JSON and the JUnit    *)
(* file.  A process may be killed at any point.                            *)
(*                                                                         *)
(* An invocation is what the user asked for and what the project holds     *)
(* when it starts; its field `fault` names the step that refuses, if any.  *)
(* How the modules are selected, collected and laid out in phases is in    *)
(* Selection, Collection and ExecutionPlan; how a phase of workers runs is *)
(* in WorkerPool, of which only the results are used here.                 *)
(***************************************************************************)
EXTENDS StrictMode, TestCache

CONSTANTS Tests,        \* the items of the project, in their order
          Invocations,  \* what may be asked
          Outcomes,     \* how an execution of each test may end
          MaxAge        \* cache_max_age

VARIABLES phase, inv, disk, cache, run, rep, report, lastRan

vars == <<phase, inv, disk, cache, run, rep, report, lastRan>>

Modules == {t.module : t \in Range(Tests)}
Nothing == [id \in {} |-> <<>>]
NoRun == [modules |-> {}, items |-> <<>>, raw |-> <<>>, violated |-> <<>>, violations |-> <<>>,
          suite |-> 0, work |-> <<>>, failures |-> 0, interrupted |-> FALSE, timings |-> <<>>,
          retry |-> <<>>, attempt |-> 0, flaky |-> <<>>, truth |-> Nothing]
Idle == [cmd |-> "none"]
NoReporter == <<>>
NoReport == [code |-> -1]

Init ==
  /\ phase = "idle" /\ inv = Idle /\ run = NoRun /\ rep = NoReporter /\ report = NoReport
  /\ disk = [state |-> "missing", timings |-> NoTimings]
  /\ cache = EmptyCache
  /\ lastRan = Nothing

(***************************************************************************)
(* Ends.                                                                   *)
(***************************************************************************)
\* PipelineShared::json_path and junit_xml_path: only `run` writes files.
Asked(i) == [style |-> i.style,
             json |-> IF i.cmd = "run" THEN i.json ELSE "off",
             junit |-> IF i.cmd = "run" THEN i.junit ELSE "off"]

\* The process ends with what `result` says.
Ends(result) ==
  /\ phase' = "exited" /\ report' = result
  /\ UNCHANGED <<inv, disk, cache, run, rep, lastRan>>

\* An exit that bypasses the reporters.
Silent(code) == [shown |-> <<>>, json |-> <<>>, junit |-> <<>>, code |-> code]

\* early_exit_with_error and early_exit_with_diagnostics: a fresh reporter
\* finishes with one collection error.
EarlyExit == Finish(MakeReporter(Asked(inv), 0), 1, FALSE)

\* early_exit_with_class: the class of the error gives the code.
EarlyExitWithClass(usage) == IF usage THEN [EarlyExit EXCEPT !.code = UsageErrorCode] ELSE EarlyExit

\* Pipeline::refuse_fx_boundaries
RefuseFxBoundaries == [EarlyExit EXCEPT !.code = UsageErrorCode]

\* dsl_error_exit
DslErrorExit == EarlyExit

Goes(next) == phase' = next /\ UNCHANGED report

(***************************************************************************)
(* From the arguments to the items.                                        *)
(***************************************************************************)
\* setup, and build_shared: the cache is loaded once, here.
Setup ==
  /\ phase = "idle"
  /\ \E i \in Invocations :
       /\ inv' = i
       /\ cache' = Load(disk)
       /\ CASE i.fault = "setup_refuses" -> phase' = "exited" /\ report' = Silent(UsageErrorCode)
            [] i.fault = "setup_answers" -> phase' = "exited" /\ report' = Silent(Success)
            [] OTHER -> phase' = "Setup" /\ UNCHANGED report
  /\ UNCHANGED <<disk, run, rep, lastRan>>

\* run_command up to collect_files: the coverage provider comes first.
StartCoverage ==
  /\ phase = "Setup"
  /\ IF inv.fault = "coverage" /\ inv.cmd = "run" THEN Ends(Silent(UsageErrorCode))
     ELSE Goes("Empty") /\ UNCHANGED <<inv, disk, cache, run, rep, lastRan>>

CollectFiles ==
  /\ phase = "Empty"
  /\ IF inv.fault = "bad_glob" THEN Ends(Silent(UsageErrorCode))
     ELSE Goes("FilesCollected") /\ UNCHANGED <<inv, disk, cache, run, rep, lastRan>>

\* affected: an empty selection ends the run, a failing git selects all.
Affected ==
  /\ phase = "FilesCollected"
  /\ IF inv.affected = {} THEN Ends(Silent(Success))
     ELSE /\ run' = [run EXCEPT !.modules = inv.affected]
          /\ Goes("Affected") /\ UNCHANGED <<inv, disk, cache, rep, lastRan>>

\* query_command
Query ==
  /\ phase = "Affected" /\ inv.cmd = "query"
  /\ Ends(CASE inv.fault = "session" -> EarlyExitWithClass(FALSE)
            [] inv.fault \in {"homes", "fzf"} -> Silent(Failure)
            [] inv.fault = "expression" -> Silent(UsageErrorCode)
            [] OTHER -> Silent(Success))

\* Tests the arguments name: all of them without a target.
Targeted(t) == inv.targets = {} \/ t.id \in inv.targets

\* prescan and filter_metadata: a module is imported if it holds a test for
\* each filter, not necessarily one test for all of them.
FilterMetadata ==
  /\ phase = "Affected" /\ inv.cmd # "query"
  /\ LET failed == LastFailedIds(cache)
         some(m, Test(_)) == \E t \in Range(Tests) : t.module = m /\ Test(t)
         passes(m) ==
           /\ some(m, LAMBDA t : Targeted(t))
           /\ some(m, LAMBDA t : t.id \in inv.matching)
           /\ inv.failed = "only" /\ failed # {} => some(m, LAMBDA t : t.id \in failed)
     IN  run' = [run EXCEPT !.modules = {m \in @ : passes(m)}]
  /\ Goes("MetadataFiltered") /\ UNCHANGED <<inv, disk, cache, rep, lastRan>>

\* init_session, as the faults of its five steps: the session, the plugins,
\* the deferred plugins, their fixture homes and the async backend.
InitSession == CASE inv.fault = "session" -> <<EarlyExitWithClass(FALSE)>>
                 [] inv.fault = "session_usage" -> <<EarlyExitWithClass(TRUE)>>
                 [] OTHER -> <<>>

Session ==
  /\ phase = "MetadataFiltered"
  /\ \/ InitSession # <<>> /\ Ends(InitSession[1])
     \/ InitSession = <<>> /\ Goes("SessionReady") /\ UNCHANGED <<inv, disk, cache, run, rep, lastRan>>

\* collect: the violations are those of the modules that were imported.
Collect ==
  /\ phase = "SessionReady"
  /\ LET imported == SelectSeq(Tests, LAMBDA t : t.module \in run.modules)
     IN  CASE inv.fault = "import" -> Ends(EarlyExit)
           [] inv.targets \ {t.id : t \in Range(imported)} # {} -> Ends(Silent(UsageErrorCode))
           [] OTHER ->
                /\ run' = [run EXCEPT !.items = SelectSeq(imported, LAMBDA t : Targeted(t)),
                                      !.raw = SelectSeq(inv.raw, LAMBDA r : r.module \in run.modules)]
                /\ Goes("Collected") /\ UNCHANGED <<inv, disk, cache, rep, lastRan>>

Validate ==
  /\ phase = "Collected"
  /\ CASE inv.fault = "fx_call" -> Ends(Silent(CollectError))
       [] inv.fault = "fx_boundary" -> Ends(RefuseFxBoundaries)
       [] inv.fault = "fixture_names" -> Ends(EarlyExit)
       [] OTHER -> Goes("Validated") /\ UNCHANGED <<inv, disk, cache, run, rep, lastRan>>

\* A mutant of FailedFilter: a project without recorded failures runs nothing.
FailedFilterOfNone(items, failed) ==
  IF inv.failed = "only" THEN SelectSeq(items, LAMBDA t : t.id \in failed) ELSE items

\* sort_failed_first
FailedFirst(items, failed) ==
  SelectSeq(items, LAMBDA t : t.id \in failed) \o SelectSeq(items, LAMBDA t : t.id \notin failed)

\* The --failed filter of strict_or_skip: with nothing recorded it lets all
\* tests through.
FailedFilter(items, failed) ==
  CASE inv.failed = "only" /\ failed # {} -> SelectSeq(items, LAMBDA t : t.id \in failed)
    [] inv.failed = "first" -> FailedFirst(items, failed)
    [] OTHER -> items

\* apply_query_dsl_filter, of a sound expression.
ApplyQueryDslFilter(items) == SelectSeq(items, LAMBDA t : t.id \in inv.matching)

\* strict_or_skip: the filters see the clean items only.
StrictOrSkip ==
  /\ phase = "Validated"
  /\ LET violations == AllViolations(inv.markers, run.raw)
         split == ApplyStrictMode(inv.strict, run.items, violations)
     IN  CASE Aborts(inv.strict, violations) -> Ends(WriteStrictAbortReport(Asked(inv), violations))
           [] ~Aborts(inv.strict, violations) /\ inv.fault = "expression" -> Ends(DslErrorExit)
           [] OTHER ->
                /\ run' = [run EXCEPT
                             !.items = FailedFilter(ApplyQueryDslFilter(split.clean), LastFailedIds(cache)),
                             !.violated = split.violated, !.violations = split.violations,
                             !.suite = split.suite]
                /\ Goes("Ready") /\ UNCHANGED <<inv, disk, cache, rep, lastRan>>

(***************************************************************************)
(* Execution.                                                              *)
(***************************************************************************)
\* plan_execution, as far as it matters here: what runs in the main process,
\* then what runs in the workers.
Planned(items) ==
  LET main == SelectSeq(items, LAMBDA t : inv.serial \/ t.inprocess)
      pool == SelectSeq(items, LAMBDA t : ~(inv.serial \/ t.inprocess))
  IN  SelectSeq(<<[place |-> "main", tests |-> main], [place |-> "pool", tests |-> pool]>>,
                LAMBDA p : p.tests # <<>>)

\* What the user may believe of a test: how it was last said to have ended.
Believed(truth, items, o) ==
  [id \in DOMAIN truth \cup {t.id : t \in Range(items)} |->
     IF id \in {t.id : t \in Range(items)} THEN o ELSE truth[id]]

\* execute, up to the first test: the cache forgets what is not selected.
Execute ==
  /\ phase = "Ready"
  /\ LET made == MakeReporter(Asked(inv), run.suite)
     IN  IF inv.fault = "payloads" THEN Ends(Finish(made, 1, FALSE))
         ELSE /\ cache' = Invalidate(cache, run.items)
              /\ rep' = ReportViolations(made, run.violated, run.violations)
              /\ run' = [run EXCEPT !.work = Planned(run.items),
                                    !.truth = Believed(@, run.violated, Plainly("error"))]
              /\ Goes("Executing") /\ UNCHANGED <<inv, disk, lastRan>>

\* The tests that may end next: in the main process they run in order.
NextTests == LET now == Head(run.work) IN IF now.place = "main" THEN {1} ELSE DOMAIN now.tests

\* execute_groups for one test.  FailureAccumulator::record counts the
\* failures of one phase.
RunTest ==
  /\ phase = "Executing" /\ run.work # <<>>
  /\ \E k \in NextTests : \E o \in Outcomes[Head(run.work).tests[k].id] :
       LET now == Head(run.work)
           t == now.tests[k]
           left == RemoveAt(now.tests, k)
           failures == run.failures + IF IsHardFailure(o) THEN 1 ELSE 0
           full == inv.maxfail > 0 /\ failures >= inv.maxfail
       IN  /\ rep' = TestCompleted(rep, t, o)
           /\ run' = [run EXCEPT
                        !.timings = Append(@, [id |-> t.id, duration |-> 0, outcome |-> o.kind]),
                        !.truth = Believed(@, <<t>>, o),
                        !.interrupted = full,
                        !.failures = IF left = <<>> THEN 0 ELSE failures,
                        !.work = CASE full -> <<>>
                                   [] ~full /\ left = <<>> -> Tail(@)
                                   [] OTHER -> <<[now EXCEPT !.tests = left]>> \o Tail(@)]
  /\ UNCHANGED <<phase, inv, disk, cache, report, lastRan>>

\* Ctrl-C during a phase of workers: the phase returns what it has.
Interrupt ==
  /\ phase = "Executing" /\ run.work # <<>> /\ Head(run.work).place = "pool"
  /\ run' = [run EXCEPT !.work = <<>>, !.interrupted = TRUE]
  /\ UNCHANGED <<phase, inv, disk, cache, rep, report, lastRan>>

\* A mutant of EndExecution: a phase of workers is not waited for.
EndExecutionEarly ==
  /\ phase = "Executing"
  /\ Goes("Executed") /\ UNCHANGED <<inv, disk, cache, run, rep, lastRan>>

EndExecution ==
  /\ phase = "Executing" /\ run.work = <<>>
  /\ Goes("Executed") /\ UNCHANGED <<inv, disk, cache, run, rep, lastRan>>

(***************************************************************************)
(* Retries.                                                                *)
(***************************************************************************)
\* identify_failed_items
IdentifyFailedItems(items, timings) ==
  SelectSeq(items, LAMBDA t : t.id \in {x.id : x \in {y \in Range(timings) : IsRetryable(y.outcome)}})

\* Pipeline::retry, and the order of the commands: `debug` has no retry.
Retry ==
  /\ phase = "Executed"
  /\ LET failed == IdentifyFailedItems(run.items, run.timings)
     IN  IF inv.cmd = "run" /\ inv.retries > 0 /\ ~run.interrupted /\ failed # <<>>
         THEN run' = [run EXCEPT !.retry = failed] /\ Goes("Retrying")
         ELSE UNCHANGED run /\ Goes("Retried")
  /\ UNCHANGED <<inv, disk, cache, rep, lastRan>>

\* One attempt of run_retries.  A test that fails again is not reported.
RetryTest ==
  /\ phase = "Retrying" /\ run.retry # <<>>
  /\ \E o \in Outcomes[Head(run.retry).id] :
       LET t == Head(run.retry)
           flaky == Flaky(LastOf(run.timings, t.id).outcome)
           passed == ~IsHardFailure(o)
           over == passed \/ run.attempt + 1 = inv.retries
       IN  /\ rep' = IF passed THEN TestCompleted(rep, t, flaky) ELSE rep
           /\ run' = [run EXCEPT
                        !.retry = IF over THEN Tail(@) ELSE @,
                        !.attempt = IF over THEN 0 ELSE @ + 1,
                        !.flaky = IF passed THEN Append(@, [id |-> t.id, duration |-> 0, outcome |-> "flaky"])
                                  ELSE @,
                        !.truth = IF passed THEN Believed(@, <<t>>, flaky) ELSE @]
  /\ UNCHANGED <<phase, inv, disk, cache, report, lastRan>>

\* A mutant of MergeFlakyTimings: the failure is recorded after the success.
MergeFlakyTimingsFirst(original, flaky) == flaky \o original

\* merge_flaky_timings
MergeFlakyTimings(original, flaky) ==
  SelectSeq(original, LAMBDA t : t.id \notin Executed(flaky)) \o flaky

EndRetries ==
  /\ phase = "Retrying" /\ run.retry = <<>>
  /\ run' = [run EXCEPT !.timings = MergeFlakyTimings(@, run.flaky)]
  /\ Goes("Retried") /\ UNCHANGED <<inv, disk, cache, rep, lastRan>>

(***************************************************************************)
(* The end of a run, in the order of Pipeline::finalize: the cache is      *)
(* saved, then the reporters finish.                                       *)
(***************************************************************************)
SaveCache ==
  /\ phase = "Retried"
  /\ \E writes \in BOOLEAN :
       LET after == AfterRun(cache, run.timings, MaxAge)
       IN  /\ cache' = after
           /\ disk' = Save(after, disk, writes)
           /\ lastRan' = IF after.dirty /\ writes
                         THEN [id \in (DOMAIN lastRan \cup Executed(run.timings)) \cap DOMAIN after.timings |->
                                 IF id \in Executed(run.timings) THEN run.truth[id].kind ELSE lastRan[id]]
                         ELSE lastRan
  /\ Goes("Saved") /\ UNCHANGED <<inv, run, rep>>

FinishRun ==
  /\ phase = "Saved"
  /\ Ends(Finish(rep, 0, run.interrupted))

\* Between two invocations.
Leaves ==
  /\ phase' = "idle" /\ inv' = Idle /\ run' = NoRun /\ rep' = NoReporter /\ report' = NoReport
  /\ cache' = EmptyCache

Exit == phase = "exited" /\ Leaves /\ UNCHANGED <<disk, lastRan>>

\* The process is killed.  While it saves, the file may be cut short; once it
\* has saved, it leaves what an exit leaves.
Killed ==
  /\ phase \notin {"idle", "exited", "Saved"}
  /\ \/ UNCHANGED <<disk, lastRan>>
     \/ /\ phase = "Retried" /\ AfterRun(cache, run.timings, MaxAge).dirty
        /\ disk' = Torn /\ lastRan' = Nothing
  /\ Leaves

Next ==
  \/ Setup \/ StartCoverage \/ CollectFiles \/ Affected \/ Query \/ FilterMetadata \/ Session
  \/ Collect \/ Validate \/ StrictOrSkip \/ Execute \/ RunTest \/ Interrupt \/ EndExecution
  \/ Retry \/ RetryTest \/ EndRetries \/ SaveCache \/ FinishRun \/ Exit \/ Killed

Spec == Init /\ [][Next]_vars

(***************************************************************************)
(* Properties.                                                             *)
(***************************************************************************)
Phases == {"idle", "Setup", "Empty", "FilesCollected", "Affected", "MetadataFiltered", "SessionReady",
           "Collected", "Validated", "Ready", "Executing", "Executed", "Retrying", "Retried", "Saved",
           "exited"}

\* Only a phase that has selected its tests holds any, only a run that
\* executes has a reporter, and an exit code is one of the documented five.
TypeOK ==
  /\ phase \in Phases
  /\ phase \in {"idle", "Setup", "Empty"} => run = NoRun
  /\ run.work # <<>> => phase = "Executing"
  /\ run.retry # <<>> => phase = "Retrying"
  /\ rep # NoReporter => phase \in {"Executing", "Executed", "Retrying", "Retried", "Saved", "exited"}
  /\ phase = "exited" <=> report.code \in Success..UsageErrorCode
  /\ disk.state = "written" => DOMAIN disk.timings \subseteq {t.id : t \in Range(Tests)}

\* A run that executed its tests to the end.
RanAndExited == phase = "exited" /\ rep # NoReporter

Final(kinds) == \E id \in DOMAIN run.truth : run.truth[id].kind \in kinds

\* The exit code of a run that executes tells how its tests ended after their
\* retries (exit-codes.md): 4 for a wiring error or a report that cannot be
\* written, else 2 for an interrupted run, else 1 for a hard failure or a
\* violation of the suite, else 0.  A failure a retry overtook counts for
\* nothing, whatever else failed, in whatever order the tests ended.
ExitTruthful ==
  RanAndExited =>
    LET hard == {id \in DOMAIN run.truth : IsHardFailure(run.truth[id])}
        wired == {id \in hard : run.truth[id].usage}
    IN  report.code = CASE wired # {} \/ "unwritable" \in {Asked(inv).json, Asked(inv).junit} -> 4
                        [] wired = {} /\ run.interrupted
                             /\ "unwritable" \notin {Asked(inv).json, Asked(inv).junit} -> 2
                        [] OTHER -> IF hard # {} \/ run.suite > 0 THEN 1 ELSE 0

\* What the file says last of a test.
LastEntry(entries, name) ==
  entries[CHOOSE i \in DOMAIN entries : entries[i].name = name /\ \A j \in DOMAIN entries :
            j > i => entries[j].name # name]

FilesTell ==
  LET says(file, Status(_)) ==
        /\ {e.name : e \in Range(file.entries)} = DOMAIN run.truth
        /\ \A id \in DOMAIN run.truth : LastEntry(file.entries, id).status = Status(run.truth[id])
        /\ file.tests = Cardinality(DOMAIN run.truth) + Len(run.flaky)
  IN  /\ \A file \in Range(report.json) :
           /\ says(file, LAMBDA o : CtrfStatus(o))
           /\ file.tests = file.passed + file.failed + file.skipped
           /\ file.failed = Len(run.flaky)
                + Cardinality({id \in DOMAIN run.truth : IsHardFailure(run.truth[id])})
      /\ \A file \in Range(report.junit) : says(file, LAMBDA o : JunitCategory(o))

TerminalShows ==
  LET shown(id) == Cardinality({i \in DOMAIN report.shown : report.shown[i].item.id = id})
  IN  \A t \in Range(Tests) :
        /\ t.id \in DOMAIN run.truth /\ IsHardFailure(run.truth[t.id]) => shown(t.id) = 1
        /\ t.id \notin DOMAIN run.truth => shown(t.id) = 0
        /\ t.id \in DOMAIN run.truth /\ ~IsHardFailure(run.truth[t.id]) /\ ~t.param => shown(t.id) = 0

\* The JSON and the JUnit file of a run tell of each test that ended, of no
\* other, and at the last mention how it ended; the totals of the file add
\* up, and only a flaky test is mentioned twice.  A terminal shows each hard
\* failure that stands, once; a failure that a retry overtook is not shown,
\* unless it is a case of a parametrized test.
ReportsTruthful == RanAndExited => FilesTell /\ (inv.style = "tty" => TerminalShows)

\* What the cache file holds of a test is how the test ended the last time a
\* run saved it, across runs that select other tests, are interrupted, cannot
\* write or are killed in the middle of a save.
HistoryTruthful ==
  disk.state = "written" =>
    \A id \in DOMAIN disk.timings :
      /\ id \in DOMAIN lastRan
      /\ disk.timings[id].last_outcome = lastRan[id]
      /\ disk.timings[id].age <= MaxAge

\* `--failed=only` executes the recorded failures among the tests that the
\* targets, the expression and the changes leave, and no other; without a
\* recorded failure it executes them all.
OnlyFailures ==
  phase = "Executing" /\ inv.failed = "only" =>
    LET wanted == {t.id : t \in {x \in Range(Tests) : /\ x.module \in inv.affected /\ Targeted(x)
                                                     /\ x.id \in inv.matching}}
                    \ {t.id : t \in Range(run.violated)}
        failures == LastFailedIds(Load(disk))
    IN  {t.id : t \in Range(run.items)} = IF failures = {} THEN wanted ELSE wanted \cap failures

(***************************************************************************)
(* What the documentation says.                                            *)
(***************************************************************************)
\* json-output.md: the file exists once oxitest exits, whatever the code.  No
\* run checks this one: the README lists the exits that do not keep it.
JsonPromise ==
  phase = "exited" /\ Asked(inv).json = "writable" /\ inv.fault \notin {"setup_refuses", "setup_answers"}
    => report.json # <<>>

\* configuration.md and test_strict.py: under --strict=enforce a violation
\* makes the run fail.
EnforceFails ==
  RanAndExited /\ inv.strict = "enforce" /\ run.raw # <<>> => report.code # Success

\* exit-codes.md: a run that --failed=only narrows to nothing exits 0, its
\* targets being those of existing tests.  No run checks this one: the code
\* does not keep it (session_ready.rs:165), see the README.
NarrowedRunSucceeds ==
  /\ phase = "exited" /\ inv.failed = "only" /\ inv.fault = "none"
  /\ inv.targets \subseteq {t.id : t \in Range(Tests)}
  => report.code # UsageErrorCode \/ rep # NoReporter

\* use-test-cache.md: an entry leaves the cache when its age exceeds
\* cache_max_age.  No run checks this one: Invalidate drops what is not
\* selected, see the README.
EntriesAgeOut ==
  [][disk.state = "written" /\ disk'.state = "written" =>
       \A id \in DOMAIN disk.timings :
         id \notin DOMAIN disk'.timings => disk.timings[id].age >= MaxAge]_vars
==============================================================================
