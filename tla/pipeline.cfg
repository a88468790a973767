SPECIFICATION Spec
CONSTANTS
  Tests <- MCTests
  Invocations <- MCInvocations
  Outcomes <- MCOutcomes
  MaxAge <- MCMaxAge
INVARIANTS
  TypeOK
  ExitTruthful
  
  HistoryTruthful
  OnlyFailures
