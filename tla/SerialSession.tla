--------------------------- MODULE SerialSession ---------------------------
(***************************************************************************)
(* The coordinator's fixture session: the serial arm of `execute_groups`,  *)
(* the phases of `execute_phases` and the process drain of `execute`, and  *)
(* the retries that follow on the same session.                            *)
(***************************************************************************)
EXTENDS FixtureSession

CONSTANTS
  MaxFail,     \* --maxfail; 0 means no limit
  Plans        \* the runs to choose from: [collected, phases, retries].
               \* collected: the tests in order, [path, test]; phases: sequences of
               \* task groups [anchor, modules], anchor a set of at most one
               \* directory, modules a sequence of [path, tests]; retries:
               \* --retries

VARIABLES
  plan,       \* the run
  agenda,     \* what the current phase has still to do
  later,      \* the phases after it
  outcome,    \* outcome[t]: "none", "passed", "failed" or "flaky"
  failures,   \* FailureAccumulator.count of the phase
  interrupted,
  pc          \* "phases", "retrying" or "done"

serialVars == <<plan, agenda, later, outcome, failures, interrupted, pc>>
vars == <<fixtureVars, serialVars>>

Tests == UNION {{p.collected[n].test : n \in DOMAIN p.collected} : p \in Plans}
InPlan == {plan.collected[n].test : n \in DOMAIN plan.collected}

Event(op, path, test, left) == [op |-> op, path |-> path, test |-> test, left |-> left]
Run(m, t) == Event("test", m, t, 0)
End(op, path) == Event(op, path, "none", 0)

\* Mutant: module boundaries are left to the end of the phase.
ModuleEventsUnended(mod) == [n \in DOMAIN mod.tests |-> Run(mod.path, mod.tests[n])]
ModuleEvents(mod) ==
  [n \in DOMAIN mod.tests |-> Run(mod.path, mod.tests[n])]
    \o <<End("end_module", mod.path)>>
GroupEvents(group) ==
  FlattenSeq([n \in DOMAIN group.modules |-> ModuleEvents(group.modules[n])])
    \o [n \in 1..Cardinality(group.anchor) |->
          End("end_package", CHOOSE a \in group.anchor : TRUE)]
\* The nested loops of execute_groups, unrolled.
PhaseEvents(groups) ==
  FlattenSeq([n \in DOMAIN groups |-> GroupEvents(groups[n])])
    \o <<End("end_task", NoPath)>>

Init ==
  /\ FixtureInit
  /\ plan \in Plans
  /\ agenda = PhaseEvents(Head(plan.phases)) /\ later = Tail(plan.phases)
  /\ outcome = [t \in InPlan |-> "none"] /\ failures = 0
  /\ interrupted = FALSE /\ pc = "phases"

Due(op) == stage = "idle" /\ agenda # <<>> /\ Head(agenda).op = op
Step(op) == Due(op) /\ agenda' = Tail(agenda)
            /\ UNCHANGED <<plan, later, outcome, failures, interrupted, pc>>

StartTest ==
  /\ Due("test") \/ Due("retry")
  /\ \E r \in Requests : Begin(Head(agenda).path, r)
  /\ UNCHANGED serialVars

\* Mutant: the interrupt is reported as an outcome of its own.
RawVerdict == result
\* A KeyboardInterrupt leaves run_test as an error and is reported as one.
Verdict == IF result = "passed" THEN "passed" ELSE "failed"

\* Mutant: a --maxfail stop skips the boundary of the module it stops in.
CompleteLeavesModule ==
  /\ stage = "over" /\ Head(agenda).op = "test"
  /\ outcome' = [outcome EXCEPT ![Head(agenda).test] = Verdict]
  /\ failures' = failures + (IF Verdict = "failed" THEN 1 ELSE 0)
  /\ interrupted' = (MaxFail > 0 /\ failures' >= MaxFail)
  /\ agenda' = IF interrupted' THEN <<End("end_task", NoPath)>> ELSE Tail(agenda)
  /\ stage' = "idle"
  /\ UNCHANGED <<sessionVars, module, ask, want, waiting, kept, moved, frames, held,
                 result, plan, later, pc>>
\* Mutant: the run stops one failure late.
CompleteLate ==
  /\ stage = "over" /\ Head(agenda).op = "test"
  /\ outcome' = [outcome EXCEPT ![Head(agenda).test] = Verdict]
  /\ failures' = failures + (IF Verdict = "failed" THEN 1 ELSE 0)
  /\ interrupted' = (MaxFail > 0 /\ failures' > MaxFail)
  /\ agenda' = IF interrupted'
                 THEN <<End("end_module", module), End("end_task", NoPath)>>
                 ELSE Tail(agenda)
  /\ stage' = "idle"
  /\ UNCHANGED <<sessionVars, module, ask, want, waiting, kept, moved, frames, held,
                 result, plan, later, pc>>
\* The outcome is recorded; at the limit the module ends, the rest of the phase is
\* skipped, and its end_task still runs.
Complete ==
  /\ stage = "over" /\ Head(agenda).op = "test"
  /\ outcome' = [outcome EXCEPT ![Head(agenda).test] = Verdict]
  /\ failures' = failures + (IF Verdict = "failed" THEN 1 ELSE 0)
  /\ interrupted' = (MaxFail > 0 /\ failures' >= MaxFail)
  /\ agenda' = IF interrupted'
                 THEN <<End("end_module", module), End("end_task", NoPath)>>
                 ELSE Tail(agenda)
  /\ stage' = "idle"
  /\ UNCHANGED <<sessionVars, module, ask, want, waiting, kept, moved, frames, held,
                 result, plan, later, pc>>

FireEndModule == Step("end_module") /\ EndModule(Head(agenda).path)
FireEndPackage == Step("end_package") /\ EndPackage(Head(agenda).path)
FireEndTask == Step("end_task") /\ EndTask

\* A phase that was not interrupted is followed by the next, with a new
\* accumulator.
NextPhase ==
  /\ pc = "phases" /\ stage = "idle" /\ agenda = <<>>
  /\ ~ interrupted /\ later # <<>>
  /\ agenda' = PhaseEvents(Head(later)) /\ later' = Tail(later) /\ failures' = 0
  /\ UNCHANGED <<fixtureVars, plan, outcome, interrupted, pc>>

\* After the last phase the process tier drains, once; then the failed tests run
\* again on the same session, unless --maxfail stopped the run.
FinishPhases ==
  /\ pc = "phases" /\ stage = "idle" /\ agenda = <<>>
  /\ interrupted \/ later = <<>>
  /\ EndProcess
  /\ LET again == SelectSeq(plan.collected, LAMBDA item : outcome[item.test] = "failed")
     IN agenda' = IF plan.retries = 0 \/ interrupted THEN <<>>
                  ELSE [n \in DOMAIN again |->
                         Event("retry", again[n].path, again[n].test, plan.retries)]
  /\ pc' = "retrying"
  /\ UNCHANGED <<plan, later, outcome, failures, interrupted>>

\* Mutant: an attempt that fails again overwrites the outcome, and a pass counts as one.
CompleteRetryOverwrites ==
  /\ stage = "over" /\ Head(agenda).op = "retry"
  /\ outcome' = [outcome EXCEPT ![Head(agenda).test] = result]
  /\ agenda' = Tail(agenda)
  /\ stage' = "idle"
  /\ UNCHANGED <<sessionVars, module, ask, want, waiting, kept, moved, frames, held,
                 result, plan, later, failures, interrupted, pc>>
\* run_retries: up to --retries attempts; a pass makes the test flaky.
CompleteRetry ==
  /\ stage = "over" /\ Head(agenda).op = "retry"
  /\ LET e == Head(agenda)
     IN /\ outcome' = IF result = "passed" THEN [outcome EXCEPT ![e.test] = "flaky"] ELSE outcome
        /\ agenda' = IF result = "passed" \/ e.left = 1 THEN Tail(agenda)
                      ELSE <<[e EXCEPT !.left = @ - 1]>> \o Tail(agenda)
  /\ stage' = "idle"
  /\ UNCHANGED <<sessionVars, module, ask, want, waiting, kept, moved, frames, held,
                 result, plan, later, failures, interrupted, pc>>

Done ==
  /\ pc = "retrying" /\ stage = "idle" /\ agenda = <<>>
  /\ pc' = "done"
  /\ UNCHANGED <<fixtureVars, plan, agenda, later, outcome, failures, interrupted>>

Finished == pc = "done" /\ UNCHANGED vars

Next ==
  \/ StartTest \/ ((TestStep \/ Interrupt) /\ UNCHANGED serialVars) \/ Complete
  \/ FireEndModule \/ FireEndPackage \/ FireEndTask
  \/ NextPhase \/ FinishPhases \/ CompleteRetry \/ Done \/ Finished

Spec == Init /\ [][Next]_vars

-----------------------------------------------------------------------------

TypeOK ==
  /\ FixtureTypeOK
  /\ plan \in Plans /\ later \in Seq(Range(plan.phases))
  /\ failures \in 0..Cardinality(InPlan)
  /\ outcome \in [InPlan -> {"none", "passed", "failed", "flaky"}]
  /\ interrupted \in BOOLEAN /\ pc \in {"phases", "retrying", "done"}
  /\ \A n \in DOMAIN agenda :
       agenda[n].op \in {"test", "retry", "end_module", "end_package", "end_task"}

Closes(e, scope) ==
  \/ e.op = "end_module" /\ scope = Module(e.path)
  \/ e.op = "end_package" /\ scope[1] = "package" /\ Within(scope[2], e.path)
  \/ e.op = "end_task" /\ scope[1] \in {"package", "session"}

\* Nothing that was set up outlives the boundaries: while a teardown is owed, the
\* rest of the run still fires the boundary that runs it, in a full run and in one
\* that --maxfail cut short.  So after end_process nothing is left to dispose.
BoundaryAhead ==
  (pc = "phases" \/ plan.retries = 0) => \A id \in Owed :
     LET scope == values[id].home[2]
     IN \/ scope = Function /\ stage # "idle"
        \/ scope = Process /\ pc = "phases"
        \/ \E n \in DOMAIN agenda : Closes(agenda[n], scope)

\* While a test runs, the module values alive are those of its own module and the
\* package values those of its own task group: earlier modules and groups were
\* disposed where they ended, not at the end of the run.
DisposedOnTime ==
  (pc = "phases" /\ stage \in {"resolve", "arrange", "await", "body"}) =>
    \A id \in Owed :
       LET scope == values[id].home[2]
       IN /\ scope[1] = "module" => scope[2] = module
          /\ scope[1] = "package" =>
               \E p \in DOMAIN plan.phases : \E g \in DOMAIN plan.phases[p] :
                  /\ \E a \in plan.phases[p][g].anchor : Within(scope[2], a)
                  /\ \E n \in DOMAIN plan.phases[p][g].modules : plan.phases[p][g].modules[n].path = module

\* A run of one phase over every test, as the contract of a phase sees it.
OnePhase == Len(plan.phases) = 1 /\ InPlan = Tests
Contract == INSTANCE PhaseContract
  WITH Items <- Tests, verdict <- outcome, stopped <- interrupted, ended <- pc # "phases"
=============================================================================
