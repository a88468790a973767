SPECIFICATION Spec
CONSTANTS
  Tests <- MCTests
  Invocations <- MCInvocations
  Outcomes <- MCOutcomes
  MaxAge <- MCMaxAge
INVARIANT
  EnforceFails
