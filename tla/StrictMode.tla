------------------------------ MODULE StrictMode ------------------------------
(***************************************************************************)
(* What the strict mode makes of the violations the collection found       *)
(* (strict.rs, and apply_strict_mode of pipeline/helpers.rs).              *)
(*                                                                         *)
(* A raw violation is [id, kind, detail]: `id` is the id the checker gave  *)
(* it, which names a function, a file or a fixture, and `detail` is        *)
(* "garbled" where it cannot be parsed.                                    *)
(***************************************************************************)
EXTENDS Reporting

NoTest == "<strict>"

PerTestKinds ==
  {"BareAssert", "BroadFixtureType", "DictParametrize", "InvalidModuleMark", "MissingMarkReason",
   "ModuleLevelDef", "MissingReturnAnnotation", "SingleCaseParametrize", "TestReturnsValue",
   "UnusedFixture"}

\* check_config: one violation of the suite for each marker without a
\* description.
CheckConfig(markers) == [i \in 1..markers |-> [id |-> NoTest, kind |-> "MarkerNoDescription"]]

\* check_collected: a kind this version does not know is dropped, and so is a
\* module-level definition whose line cannot be read.
CheckCollected(raw) ==
  LET understood == SelectSeq(raw, LAMBDA r : /\ r.kind \in PerTestKinds
                                              /\ r.kind = "ModuleLevelDef" => r.detail # "garbled")
  IN  [i \in DOMAIN understood |-> [id |-> understood[i].id, kind |-> understood[i].kind]]

\* suite_level
SuiteLevel(violations) == SelectSeq(violations, LAMBDA v : v.id = NoTest)

\* per_test_error: the violation as the outcome of a test.
PerTestError(v) == Plainly("error")

\* write_strict_abort_report: each file is written on its own, and the worst
\* vote wins.
WriteStrictAbortReport(asked, violations) ==
  [shown |-> <<>>,
   json |-> IF asked.json = "writable"
            THEN <<JsonFinish([i \in DOMAIN violations |-> RunFailure(violations[i].id)], 0)>> ELSE <<>>,
   junit |-> IF asked.junit = "writable"
             THEN <<JunitFinish([i \in DOMAIN violations |-> StrictCase(violations[i].id)], 0)>> ELSE <<>>,
   code |-> MaxCode({CollectError} \cup FileVote(asked.json) \cup FileVote(asked.junit))]

\* apply_strict_mode, past the abort: the items split by the ids that are
\* violated, and the lines of the suite.
Clean(items) == [clean |-> items, violated |-> <<>>, violations |-> <<>>, suite |-> 0]
Partitioned(items, violations) ==
  LET ids == {v.id : v \in Range(violations)}
  IN  [clean |-> SelectSeq(items, LAMBDA i : i.id \notin ids),
       violated |-> SelectSeq(items, LAMBDA i : i.id \in ids),
       violations |-> violations,
       suite |-> Len(SuiteLevel(violations))]

AllViolations(markers, raw) == CheckConfig(markers) \o CheckCollected(raw)
Aborts(mode, violations) == mode = "abort" /\ violations # <<>>
ApplyStrictMode(mode, items, violations) ==
  CASE mode = "off" -> Clean(items)
    [] mode = "abort" -> [Clean(items) EXCEPT !.violations = violations]
    [] mode = "enforce" -> Partitioned(items, violations)

\* execution::report_violations: each violated item is reported once, by its
\* first violation.
ReportViolations(rep, violated, violations) ==
  LET first(item) == violations[CHOOSE i \in DOMAIN violations :
                       /\ violations[i].id = item.id
                       /\ \A j \in 1..(i - 1) : violations[j].id # item.id]
  IN  FoldLeft(LAMBDA r, item : TestCompleted(r, item, PerTestError(first(item))), rep, violated)
==============================================================================
