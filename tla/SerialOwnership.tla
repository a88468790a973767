-------------------------- MODULE SerialOwnership --------------------------
(* Every test the coordinator runs gets values of the fixtures it asks for. *)
EXTENDS SerialSession, FixtureOwnership

\* A test that ends, a phase that follows and the end of the run leave the session
\* as it is.
LEMMA MovesOnOwn ==
  ASSUME OwnInv, Complete \/ CompleteRetry \/ NextPhase \/ Done \/ UNCHANGED vars
  PROVE  OwnInv'
<1>1. /\ UNCHANGED <<values, cache, frames, want, waiting, ask, held>>
      /\ stage' = stage \/ stage = "over"
  BY DEF Complete, CompleteRetry, NextPhase, Done, vars, fixtureVars, sessionVars, testVars
<1> QED BY <1>1, BetweenOwn

\* Whatever the serial loop does, with whatever plan, suite and tests, in the
\* phases and in the retries: neither a test nor a fixture under construction is
\* handed a value of another fixture (`_cache_key`, `_resolve`), provided that
\* fixtures of one package, and those of the process, differ in their short names.
THEOREM SerialTestsGetTheirOwn ==
  ASSUME SuiteOK, NamesApart
  PROVE  Spec => []OwnInstance
<1>1. Init => OwnInv
  BY InitOwn DEF Init
<1>2. OwnInv /\ [Next]_vars => OwnInv'
  <2> SUFFICES ASSUME OwnInv, [Next]_vars PROVE OwnInv'
    OBVIOUS
  <2>1. CASE StartTest
    BY <2>1, BeginOwn DEF StartTest
  <2>2. CASE TestStep \/ Interrupt
    BY <2>2, TestOwn
  <2>3. CASE FireEndModule \/ FireEndPackage \/ FireEndTask \/ FinishPhases
    BY <2>3, BoundaryOwn DEF FireEndModule, FireEndPackage, FireEndTask, FinishPhases
  <2>4. CASE Complete \/ CompleteRetry \/ NextPhase \/ Done \/ UNCHANGED vars
    BY <2>4, MovesOnOwn
  <2> QED BY <2>1, <2>2, <2>3, <2>4 DEF Next, Finished
<1> QED BY <1>1, <1>2, OwnGiven, PTL DEF Spec
=============================================================================
