------------------------------ MODULE Sessions ------------------------------
(***************************************************************************)
(* Either process that owns a fixture session: the coordinator, when it    *)
(* runs tests itself, or a worker.  Both use the session of FixtureSession;*)
(* they differ in the loop that runs the tests and fires the boundaries.   *)
(***************************************************************************)
EXTENDS FixtureSession

CONSTANTS MaxFail, Plans, Tasks

VARIABLES driver, plan, agenda, later, outcome, failures, interrupted, pc, ended

S == INSTANCE SerialSession
W == INSTANCE WorkerSession

driverVars == <<driver, plan, agenda, later, outcome, failures, interrupted, pc, ended>>
vars == <<fixtureVars, driverVars>>

Init ==
  \/ driver = "serial" /\ S!Init /\ ended = FALSE
  \/ /\ driver = "worker" /\ W!Init
     /\ plan = <<>> /\ outcome = <<>> /\ failures = 0 /\ interrupted = FALSE /\ pc = "phases"

SerialStep == driver = "serial" /\ S!Next /\ UNCHANGED <<driver, ended>>
WorkerStep ==
  /\ driver = "worker" /\ W!Next
  /\ UNCHANGED <<driver, plan, outcome, failures, interrupted, pc>>

Next == SerialStep \/ WorkerStep

Spec == Init /\ [][Next]_vars

-----------------------------------------------------------------------------

TypeOK == (driver = "serial" /\ S!TypeOK) \/ (driver = "worker" /\ W!TypeOK)

\* Nothing that was set up outlives its process: while a teardown is owed, the
\* boundary that runs it is still ahead, also after --maxfail and on the way out of
\* an interrupt (execute_groups, execute, `run`, `main`).  Values that retries build
\* after the last boundary are the exception.
BoundaryAhead == IF driver = "serial" THEN S!BoundaryAhead ELSE W!BoundaryAhead

\* While a serial test runs, values of earlier modules and package groups are gone.
DisposedOnTime == driver = "serial" => S!DisposedOnTime

\* A module, package or process that has not been retried never sees a second
\* completed build of a fixture of that lifetime, however many tests of it ask and
\* by whatever route.
OnePerScope == (driver = "serial" /\ pc # "phases") \/ BuiltOnce

\* A phase of the serial arm of execute_groups, with the session underneath it,
\* implements the contract of a phase.
SerialContract ==
  [][(driver = "serial" /\ S!OnePhase) => [S!Contract!Next]_(S!Contract!contractVars)]_vars

\* A retry only ever turns a failed test flaky, and every test is settled by the
\* phases before the first retry: "the original failure result stands".
RetriesSettle ==
  [][driver = "serial" =>
       \A t \in S!InPlan : outcome'[t] # outcome[t] =>
         \/ pc = "phases" /\ outcome[t] = "none"
         \/ pc = "retrying" /\ outcome[t] = "failed" /\ outcome'[t] = "flaky"]_vars
=============================================================================
