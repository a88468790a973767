------------------------------ MODULE Reporting ------------------------------
(***************************************************************************)
(* What a run says: the counters behind the exit code, the failures the    *)
(* console keeps for the end, the JSON and the JUnit file (reporter/).     *)
(*                                                                         *)
(* An item is [id, fn, param, within]: `within` is the set of the ids its  *)
(* own id contains as a substring (its own one included).  An outcome is   *)
(* [kind, strict, usage, original].  The wording, the colours, the         *)
(* progress bar and the durations of a line are left out.                  *)
(***************************************************************************)
EXTENDS Integers, Sequences, FiniteSets, SequencesExt

Kinds == {"passed", "failed", "error", "skipped", "warned", "xfailed", "xpassed", "timeout", "flaky"}

\* A TestOutcome without a diagnostic, and the three shapes that carry more.
Plainly(kind) == [kind |-> kind, strict |-> FALSE, usage |-> FALSE, original |-> "none"]
UsageError == [Plainly("error") EXCEPT !.usage = TRUE]
XPassedStrict == [Plainly("xpassed") EXCEPT !.strict = TRUE]
Flaky(original) == [Plainly("flaky") EXCEPT !.original = original]

\* OutcomeKind::is_retryable_failure
IsRetryable(kind) == kind \in {"failed", "error", "timeout"}

\* TestOutcome::is_hard_failure
IsHardFailure(o) == o.kind \in {"failed", "error", "timeout"} \/ (o.kind = "xpassed" /\ o.strict)

\* TestOutcome::ctrf_status
CtrfStatus(o) ==
  CASE IsHardFailure(o) -> "failed"
    [] o.kind \in {"skipped", "xfailed"} -> "skipped"
    [] OTHER -> "passed"

\* TestOutcome::junit_category
JunitCategory(o) ==
  CASE o.kind = "failed" \/ (o.kind = "xpassed" /\ o.strict) -> "failed"
    [] o.kind \in {"error", "timeout"} -> "error"
    [] o.kind \in {"skipped", "xfailed"} -> "skipped"
    [] OTHER -> "passed"

(***************************************************************************)
(* The counters (stats.rs) and the exit code (exit.rs).                    *)
(***************************************************************************)
Success == 0
Failure == 1
Interrupted == 2
CollectError == 3
UsageErrorCode == 4

NewStats == [counts |-> [k \in Kinds |-> 0], xpassedStrict |-> 0, suite |-> 0, usage |-> {}, diags |-> 0]

\* A mutant of RecordFlaky: a wiring error outlives the retry that passed.
RecordFlakyKeepsUsage(stats, item, original) ==
  [stats EXCEPT !.counts = [@ EXCEPT !["flaky"] = @ + 1, ![original] = @ - 1]]

\* RunStats::record_flaky: the failure the retry overtook is taken back.
RecordFlaky(stats, item, original) ==
  LET less(n) == IF n = 0 THEN 0 ELSE n - 1
  IN  [stats EXCEPT !.counts = [k \in Kinds |->
                       IF k = "flaky" THEN @[k] + 1
                       ELSE IF k = original /\ IsRetryable(k) THEN less(@[k])
                       ELSE @[k]],
                    !.usage = @ \ {item.id}]

\* RunStats::record
Record(stats, item, o) ==
  IF o.kind = "flaky" THEN RecordFlaky(stats, item, o.original)
  ELSE [stats EXCEPT !.counts[o.kind] = @ + 1,
                     !.usage = IF o.kind = "error" /\ o.usage THEN @ \cup {item.id} ELSE @,
                     !.xpassedStrict = IF o.kind = "xpassed" /\ o.strict THEN @ + 1 ELSE @,
                     !.diags = IF o.kind = "warned" THEN @ + 1 ELSE @]

\* compute_exit_code
ComputeExitCode(stats, collectErrors, interrupted) ==
  CASE stats.usage # {} -> UsageErrorCode
    [] stats.usage = {} /\ collectErrors > 0 -> CollectError
    [] stats.usage = {} /\ collectErrors = 0 /\ interrupted -> Interrupted
    [] OTHER ->
         IF stats.counts["failed"] + stats.counts["error"] + stats.counts["timeout"]
              + stats.xpassedStrict + stats.suite > 0
         THEN Failure ELSE Success

(***************************************************************************)
(* The console.  `style` is how the run was asked to print: "tty" keeps    *)
(* the failures of a terminal for the end, "verbose" prints each test at   *)
(* once, "ci" prints dots and keeps texts, "line" is ci with --tb=line.    *)
(***************************************************************************)
NewConsole == [pending |-> <<>>, deferred |-> <<>>, shown |-> <<>>, running |-> <<>>]

Kept(item, o) == [item |-> item, o |-> o]

\* A mutant of RemoveIfFlaky: what is kept stays.
RemoveIfFlakyNever(deferred, o, of) == deferred

\* remove_if_flaky: what is kept of a test that a retry shows to be flaky goes.
RemoveIfFlaky(deferred, o, of) ==
  IF o.kind = "flaky" THEN SelectSeq(deferred, LAMBDA d : d \notin of) ELSE deferred

\* TtyReporter::dispatch_param_group, of a run that is not verbose: the
\* failures of the group are deferred.
DispatchParamGroup(console) ==
  [console EXCEPT !.pending = <<>>,
                  !.deferred = @ \o SelectSeq(console.pending, LAMBDA d : IsHardFailure(d.o))]

\* TtyReporter::test_started
TtyStarted(console, item) == [console EXCEPT !.running = Append(@, item.fn)]

\* The first running test of that name is over.
NoLonger(running, fn) ==
  IF fn \in Range(running) THEN RemoveAt(running, CHOOSE i \in DOMAIN running :
                                   running[i] = fn /\ \A j \in 1..(i - 1) : running[j] # fn)
  ELSE running

\* TtyReporter::test_completed
TtyCompleted(console, style, item, o) ==
  LET pruned == [console EXCEPT !.running = NoLonger(@, item.fn),
                                !.deferred = RemoveIfFlaky(@, o, {d \in Range(@) : d.item.id = item.id})]
      other == pruned.pending # <<>> /\ pruned.pending[1].item.fn # item.fn
      closed == IF pruned.pending # <<>> THEN DispatchParamGroup(pruned) ELSE pruned
  IN  CASE style = "verbose" -> [pruned EXCEPT !.shown = Append(@, Kept(item, o))]
        [] style = "tty" /\ item.param ->
             [IF other THEN DispatchParamGroup(pruned) ELSE pruned
                EXCEPT !.pending = Append(@, Kept(item, o))]
        [] style = "tty" /\ ~item.param ->
             [closed EXCEPT !.deferred = IF IsHardFailure(o) THEN Append(@, Kept(item, o)) ELSE @]

\* What the text CiReporter::push_deferred_diag keeps of an item says of ids:
\* the header of a case is its parameter and its function, not its id.
Mentions(style, d) == IF d.item.param /\ style = "ci" THEN {} ELSE d.item.within

\* CiReporter::test_completed
CiCompleted(console, style, item, o) ==
  CASE IsRetryable(o.kind) -> [console EXCEPT !.deferred = Append(@, Kept(item, o))]
    [] o.kind = "flaky" ->
         [console EXCEPT !.deferred = RemoveIfFlaky(@, o, {d \in Range(@) : item.id \in Mentions(style, d)})]
    [] OTHER -> console

\* StandardReporter::pre_finish of either console: what was kept is printed.
PreFinish(console, style) ==
  LET last == IF style = "tty" /\ console.pending # <<>> THEN DispatchParamGroup(console) ELSE console
  IN  [last EXCEPT !.shown = @ \o last.deferred, !.deferred = <<>>]

(***************************************************************************)
(* The files.  An entry is [name, status].                                 *)
(***************************************************************************)
\* JsonReporter::test_completed and JunitReporter::test_completed
JsonEntry(item, o) == [name |-> item.id, status |-> CtrfStatus(o)]
JunitEntry(item, o) == [name |-> item.id, status |-> JunitCategory(o)]

\* JsonReporter::record_run_failure and JunitReporter::record_collect_error
RunFailure(name) == [name |-> name, status |-> "failed"]
CollectionCase == [name |-> "<collection>", status |-> "error"]
\* JunitReporter::record_strict_violation
StrictCase(name) == [name |-> name, status |-> "failed"]

WithStatus(entries, status) == Cardinality({i \in DOMAIN entries : entries[i].status = status})

\* JsonReporter::finish
JsonFinish(tests, collectErrors) ==
  LET all == tests \o [e \in 1..collectErrors |-> RunFailure("<collection>")]
  IN  [tests |-> Len(all), passed |-> WithStatus(all, "passed"), failed |-> WithStatus(all, "failed"),
       skipped |-> WithStatus(all, "skipped"), entries |-> all]

\* JunitReporter::finish and write_xml
JunitFinish(cases, collectErrors) ==
  LET all == cases \o [e \in 1..collectErrors |-> CollectionCase]
  IN  [tests |-> Len(all), failures |-> WithStatus(all, "failed"), errors |-> WithStatus(all, "error"),
       skipped |-> WithStatus(all, "skipped"), entries |-> all]

(***************************************************************************)
(* The composite reporter.  `asked` is [style, json, junit]; a file is     *)
(* "off", "writable" or "unwritable".                                      *)
(***************************************************************************)
\* make_reporter
MakeReporter(asked, suiteLines) ==
  [asked |-> asked, suiteLines |-> suiteLines, stats |-> NewStats, console |-> NewConsole,
   tests |-> <<>>, cases |-> <<>>]

\* CompositeReporter::test_started and test_completed, for one test.
TestCompleted(rep, item, o) ==
  [rep EXCEPT
     !.stats = Record(@, item, o),
     !.console = IF rep.asked.style \in {"tty", "verbose"}
                 THEN TtyCompleted(TtyStarted(@, item), rep.asked.style, item, o)
                 ELSE CiCompleted(@, rep.asked.style, item, o),
     !.tests = IF rep.asked.json = "off" THEN @ ELSE Append(@, JsonEntry(item, o)),
     !.cases = IF rep.asked.junit = "off" THEN @ ELSE Append(@, JunitEntry(item, o))]

\* CompositeReporter::record_diagnostics
RecordDiagnostics(rep, n) == [rep EXCEPT !.stats.diags = @ + n]

MaxCode(codes) == CHOOSE c \in codes : \A d \in codes : d <= c

\* A file reporter abstains, unless it could not write.
FileVote(asked) == IF asked = "unwritable" THEN {UsageErrorCode} ELSE {}

\* print_summary_section, past the printing.
PrintSummarySection(rep, collectErrors, interrupted) ==
  ComputeExitCode(rep.stats, collectErrors, interrupted)

\* standard_finish: the vote of the console.  The lines of the suite count.
StandardFinish(rep, collectErrors, interrupted) ==
  PrintSummarySection([rep EXCEPT !.stats.suite = @ + rep.suiteLines], collectErrors, interrupted)

\* CompositeReporter::finish: the files that exist afterwards, what the
\* console showed as failed, and the code the votes elect.
Finish(rep, collectErrors, interrupted) ==
  [shown |-> SelectSeq(PreFinish(rep.console, rep.asked.style).shown, LAMBDA d : IsHardFailure(d.o)),
   json |-> IF rep.asked.json = "writable" THEN <<JsonFinish(rep.tests, collectErrors)>> ELSE <<>>,
   junit |-> IF rep.asked.junit = "writable" THEN <<JunitFinish(rep.cases, collectErrors)>> ELSE <<>>,
   code |-> MaxCode({StandardFinish(rep, collectErrors, interrupted)}
                      \cup FileVote(rep.asked.json) \cup FileVote(rep.asked.junit))]
==============================================================================
