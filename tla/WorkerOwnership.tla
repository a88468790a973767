-------------------------- MODULE WorkerOwnership --------------------------
(* Every test a worker runs gets values of the fixtures it asks for. *)
EXTENDS WorkerSession, FixtureOwnership

\* Whatever tasks a worker reads, of whatever suite and tests, and wherever it is
\* interrupted: neither a test nor a fixture under construction is handed a value
\* of another fixture (`_cache_key`, `_resolve`), provided that fixtures of one
\* package, and those of the process, differ in their short names.
THEOREM WorkerTestsGetTheirOwn ==
  ASSUME SuiteOK, NamesApart
  PROVE  Spec => []OwnInstance
<1>1. Init => OwnInv
  BY InitOwn DEF Init
<1>2. OwnInv /\ [Next]_vars => OwnInv'
  <2> SUFFICES ASSUME OwnInv, [Next]_vars PROVE OwnInv'
    OBVIOUS
  <2>1. CASE StartTest
    BY <2>1, BeginOwn DEF StartTest
  <2>2. CASE InTest \/ Interrupt
    BY <2>2, TestOwn DEF InTest
  <2>3. CASE FireEndModule \/ FireEndTask \/ Exit
    BY <2>3, BoundaryOwn DEF FireEndModule, FireEndTask, Exit
  <2>4. CASE ReadTask \/ Emit \/ UNCHANGED vars
    <3>1. /\ UNCHANGED <<values, cache, frames, want, waiting, ask, held>>
          /\ stage' = stage \/ stage = "over"
      BY <2>4 DEF ReadTask, Emit, vars, fixtureVars, sessionVars, testVars
    <3> QED BY <3>1, BetweenOwn
  <2> QED BY <2>1, <2>2, <2>3, <2>4 DEF Next, Finished
<1> QED BY <1>1, <1>2, OwnGiven, PTL DEF Spec
=============================================================================
