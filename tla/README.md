# Formal model of oxitest

oxitest is a test runner: a Rust coordinator that collects and schedules tests,
and Python code that imports test modules, builds fixtures and runs tests, in
the coordinator's own process or in worker subprocesses. This directory holds
TLA+ modules translated from that code, the TLC configurations that check them
on small instances, and TLAPS proofs for every value of the constants.
`PROJECT.json` maps every definition to the lines it models.

Check a run with `tlc -config <run>.cfg <module>` and the proofs with
`tlapm <module>.tla` for `WorkerPoolTypes`, `WorkerPoolPipes`, `WorkerPoolOnce` and
`WorkerPoolComplete`.

## The system and its parts

| Part | State | Operations | What is hard |
|---|---|---|---|
| Parallel phase (`parallel/`, `worker_session.rs`, `scheduler.rs`) | queue of groups, in-flight set, result channel, `cancelled`, failure accumulator; per worker a subprocess, two pipes, a line channel | spawn, pop, send a task, drain, tail drain, reap; consume results, leftover drain, join | crashes, hangs, watchdogs, `--maxfail` while workers send, two ways to lose a result |
| Worker (`_bridge/worker.py`) | current task and item, fixture session, stdin/stdout | read a task, answer items, end modules, packages, task and process | a task that dies half way, output mixed with results, broken pipes |
| Serial phase (`pipeline/execution.rs`) | position in the groups, accumulator | run an item, end module, end package | same contract as the parallel phase, `--maxfail` in the middle of a module |
| Phases of a run (`execution.rs`, `arrange.rs`) | in-process, arranged and parallel partitions, sessions | plan, execute each partition, end the process scope once | a fixture group must not be split; each item in exactly one partition |
| Fixture lifetimes (`_fixture_session.py`, `_fixture_instantiator.py`) | caches and teardown stacks per function, module, package, task, process | resolve, end_module, end_package, end_task, end_process | order of teardown, one failing teardown of several, reuse after an end |
| One test (`executor.py`, `_timeout.py`, `_middleware.py`) | phase of the test, timer | setup, call, teardown, timeout | the timeout races the end of the test |
| Retry (`retry.rs`) | failed items, timings | re-run, merge | stale timings, sessions that already ended |
| Pipeline (`pipeline/`) | typed phases from prescan to exit | one transition per phase | early exits, cache saves, exit code |
| Selection and grouping (`filter.rs`, `affected.rs`, `import_graph.rs`) | none | pure functions | ties, nested packages, cycles of imports |
| Caches (`cache/`) | timings, last failed, module cache | load, sort, save | an interrupted run must not lose failures |
| Collection (`prescan.rs`, `pipeline/collection.rs`, `importer.py`, `_module_source_registrar.py`) | items, registries | scan, import, register | mostly syntax |
| Reporters, inspect, query, doctest coverage, config | layout, text, tables | | not concurrent; small state machines inside |

The parts meet in two places. `execute_phases` hands a list of groups to a
phase and merges the `PhaseResult`; whichever way the phase runs, it owes its
caller the same contract. And the worker protocol connects a coordinator thread
with a subprocess through two pipes of limited capacity.

## Plan

1. **WorkerPool** (done): the parallel phase with everything that can go wrong
   in a subprocess, the contract of a phase, and the proofs.
2. **SerialPhase**: `execute_groups` in process, refining `PhaseContract`.
3. **FixtureSession**: scopes, caching and teardown order at the boundaries that
   the worker and the serial loop fire; the abstract specification is a stack
   per lifetime. Teardown failures included.
4. **ExecutionPlan**: grouping by module and package and the partitions, as
   operators checked against reference definitions over bounded suites.
5. **RunPhases**: `execute` and `execute_phases` over the partitions, retry,
   exit code, caches.
6. **TestTimeout**: the timeout of one test against its end.
7. Pure algorithms: affected tests, node id selection, schedule strategies.

Theorems planned: for SerialPhase the invariants behind the refinement; for
FixtureSession that a value is torn down at most once and never used after; for
ExecutionPlan that the partitions cover the items without overlap.

## WorkerPool

State. `coord` is the position of `run_phase_parallel`: consuming results
(`recv`), past the loop (`stopping`), joining threads (`join`), returned
(`done`). `next` stands for the scheduler's queue, since groups leave it in
order and none comes back. `rx` is the result channel, `inFlight`, `cancelled`,
`fails` and `interrupted` have the code's names. Each worker has a thread (`pc`,
`grp`, `received`, `tailRead`: `run_worker_loop` and its two drains) and a
subprocess (`proc`, `task`, `ptask`, `ppos`, `writing`, `emitted`). `lines` is
the stdout pipe, its reader thread and the bounded line channel together: the
reader only copies, and when the receiver is dropped a write breaks.

Actions. `RecvDiagnostic`, `RecvResult`, `RecvClosed`, `StopPhase` and
`JoinThreads` are the coordinator; `SpawnWorker` to `ReapChild` the thread;
`ReadTask` to `BrokenPipe` the subprocess; `PrintLine`, `Crash`, `Wedge` what
test code and the operating system add. The watchdog may fire at any moment,
since a slow answer and a missing one look alike.

Atomicity. Reading `cancelled` and popping a group are one step: the pop
commutes with the store. Sending a task and filling the in-flight set are one
step: only this thread's drain can produce the results of those items. A
diagnostic is written in two steps, because the write can block.

Outcomes are `passed`, `failed` and the two sentinels `crashed` and `timedout`.
A result that does not parse but names its test is a `failed` result; one that
names none is `garbled`: it is counted and its report is skipped.

Not modelled: test output that imitates a result line, node ids that occur
twice, grandchildren that keep stdout open, and the prewarmed pool.

### Runs

| Run | Checks |
|---|---|
| `pool_safety` | 2 workers, 3 groups (2+1+1 items); crash, hang, early end, failed spawn. Each test has exactly one outcome; the in-flight set agrees with the reports; no subprocess is left |
| `pool_maxfail` | 2 workers, 2 groups, limit 2, failing tests. The phase stops exactly at the limit and reports nothing afterwards; it implements `PhaseContract` |
| `pool_output` | 1 worker that prints, emits diagnostics, garbles results, stalls. Stray output counts for nothing; diagnostics are recorded, the tail's included. Deadlock is not checked because a stalled teardown blocks `child.wait()` |
| `pool_returns` | liveness: the phase returns |
| `pool_stalled_teardown`, `pool_typed_loop`, `pool_blocked_send` | three ways in which the phase does not return (violations) |
| `pool_swallowed` | a lost result line makes the sentinel hit another item (violation) |
| `pool_silent_loss` | lost process teardowns without a warning (violation) |

Bounds. Two workers are enough for every race between workers, which meet only
in the queue and in the result channel. A group of two items lets a fault come
before, between and after its answers; a second and a third group let a worker
die between groups and leave groups in the queue. `PipeCap` 1 or 2 lets both
pipes fill up; `MaxDiags` and `MaxTailLines` of 1 and 2 reach the tail's cap.

Fairness. Each thread, the consumer loop and a subprocess that does not hang
keep running (weak fairness). The watchdog must fire once no line that pushes
its deadline back is waiting. Nothing is assumed of a test that hangs or
prints, of crashes, or of the choice between results.

### Findings

1. `pool_stalled_teardown`: `drain_until_eof` gives up without a kill and
   `child.wait()` has no deadline.
2. `pool_typed_loop`: lines with a `type` that is not `result` reset the
   watchdog, so a looping test that prints them is never timed out.
3. `pool_blocked_send`: the task is written while nobody reads stdout.
4. `pool_swallowed`: the sentinels go to the last items of the group, not to
   the one whose line was lost.
5. `pool_silent_loss`: dying between groups or in the tail gives no warning.

### Proofs

Four modules, each extending the one before, prove for every value of the
constants allowed by `PoolAssumption`:

- `TypeCorrect` (`WorkerPoolTypes`): `Spec => []TypeOK`. `TypeOK` is not inductive: that the group a
  thread works on exists comes from `Held`, the strengthening in `TypeInv`.
- `NoDoubleReport` (`WorkerPoolOnce`): `ReportedAtMostOnce`, if no result is swallowed (finding 4
  shows the assumption is needed). The inductive invariant `OnceInv` says that
  workers hold different groups, none of them still queued (`GroupsApart`); that
  what is in a worker's pipe are the answers following the ones counted, in
  order, each at most once (`PipeInv`, proved in `WorkerPoolPipes` from lemmas about
  the order of lines in one pipe, `InOrder`); that an item has at most one report or
  message in the channel, and none as long as its group or its position is not
  reached (`SettledOnce`); and that nothing is in the channel after the loop.
- `NoneForgotten` (`WorkerPoolComplete`): `EveryItemReported`, if moreover results parse. `Conserved`
  says that an item whose group was popped is reported, in the channel, or
  still owed by the worker that holds the group.

Model-checked only: liveness (under fairness), the refinement of
`PhaseContract`, the `--maxfail` properties, the in-flight set and diagnostics.

## Not modelled

Text: assertion rewriting, error wording, diffs, reporters' layout, doctest
scanning, the query language's parser, the drawing of the inspect interface.
They have no concurrency, and their results are strings. Collection is mostly
syntax analysis of Python. `PROJECT.json` lists every part with its status.
