------------------------------- MODULE Bridge -------------------------------
(***************************************************************************)
(* What crosses between the coordinator and Python: an item on its way to  *)
(* the executor, a result and a diagnostic on their way back, and what the *)
(* coordinator asks of a fixture session before any test runs.             *)
(*                                                                         *)
(* A test runs in the coordinator's own interpreter or in a worker, and    *)
(* each crossing exists twice: through attributes of Python objects and    *)
(* through lines of JSON.  A JSON object is a function on its keys, and an *)
(* optional value is a set with at most one element.                       *)
(***************************************************************************)
EXTENDS Integers, Sequences, FiniteSets, SequencesExt

ProtocolVersion == 8

(***************************************************************************)
(* Markers: bits for the four the runner knows, a set for the others.      *)
(***************************************************************************)
Builtins == <<"skip", "xfail", "timeout", "inprocess">>

MarkerSet(names) ==
  [builtins |-> {i \in DOMAIN Builtins : Builtins[i] \in Range(names)},
   custom |-> Range(names) \ Range(Builtins)]

MarkerSetIter(markers) ==
  [i \in 1..Cardinality(markers.builtins) |-> Builtins[SetToSortSeq(markers.builtins, <)[i]]]
    \o SetToSeq(markers.custom)

Has(markers, name) ==
  IF name \in Range(Builtins) THEN \E i \in markers.builtins : Builtins[i] = name ELSE name \in markers.custom

(***************************************************************************)
(* Collecting a module.                                                    *)
(***************************************************************************)
NodeId(path, fn, param) == [path |-> path, fn |-> fn, param |-> param]

ViolationKinds ==
  {"bare_assert", "broad_fixture_type", "dict_parametrize", "invalid_module_mark", "missing_mark_reason",
   "missing_return_annotation", "module_level_def", "single_case_parametrize", "test_returns_value", "unused_fixture"}
ViolationKind(kind) == IF kind \in ViolationKinds THEN kind ELSE "unknown"

\* An entry of @arrange is a class or a name.
ArrangedEntry(entry) == [kind |-> IF entry.class THEN "Type" ELSE "Name", value |-> entry.name]

TestItem(path, item) ==
  [node_id |-> NodeId(path, item.fn, item.param_id), fn |-> item.fn, lineno |-> item.lineno,
   markers |-> MarkerSet(item.markers), param_id |-> item.param_id, is_async |-> item.is_async,
   fixture_deps |-> item.fixture_deps, fixref_deps |-> item.fixref_deps,
   arranged |-> [i \in DOMAIN item.arranged |-> ArrangedEntry(item.arranged[i])]]

CollectError(kind, message) == [error |-> {[kind |-> kind, message |-> message]}, items |-> <<>>, violations |-> <<>>]

\* A CollectionError is the fault of the file's declarations; any other
\* exception makes the file one that cannot be imported.
CollectModule(path, module) ==
  IF module.raises # {}
  THEN LET e == CHOOSE x \in module.raises : TRUE
       IN  CollectError(IF e.class = "CollectionError" THEN "PyError" ELSE "ImportError", e.message)
  ELSE [error |-> {},
        items |-> [i \in DOMAIN module.items |-> TestItem(path, module.items[i])],
        violations |-> [i \in DOMAIN module.violations |->
                          [module.violations[i] EXCEPT !.kind = ViolationKind(@)]]]

(***************************************************************************)
(* An item on its way to the executor.                                     *)
(***************************************************************************)
TestKind(param) == IF param = {} THEN [kind |-> "Solitary", param_id |-> {}] ELSE [kind |-> "Parametrized", param_id |-> param]

TestMeta(path, fn, id, kind, markers) ==
  [module_path |-> path, fn_name |-> fn, node_id |-> id, kind |-> kind, markers |-> markers]

DebugContext(mode, locals, internals) == [mode |-> mode, show_locals |-> locals, show_internals |-> internals]

\* The arguments of run_test, called from the coordinator's thread.
RunInProcess(item, opts) ==
  [meta |-> TestMeta(item.node_id.path, item.fn, item.node_id, TestKind(item.param_id),
                     Range(MarkerSetIter(item.markers))),
   default_timeout |-> opts.timeout, keep_tmp |-> opts.keep_tmp,
   debug |-> DebugContext(opts.debug_mode, opts.show_locals, opts.show_internals)]

TaskItem(item) ==
  [fn_name |-> item.fn, param_id |-> item.param_id, node_id |-> item.node_id, markers |-> MarkerSetIter(item.markers)]

\* The two flags are written only when set.
Flag(key, set) == IF set THEN [k \in {key} |-> TRUE] ELSE <<>>
BuildTask(path, items, opts) ==
  [protocol_version |-> ProtocolVersion, timeout_secs |-> opts.timeout, keep_tmp |-> opts.keep_tmp,
   modules |-> <<[module_path |-> path, items |-> [i \in DOMAIN items |-> TaskItem(items[i])]]>>]
  @@ Flag("show_locals", opts.show_locals) @@ Flag("show_internals", opts.show_internals)

\* The arguments of run_test for the item at i, in a worker that read the
\* task.
RunInWorker(task, i) ==
  LET item == task.modules[1].items[i]
  IN  [meta |-> TestMeta(task.modules[1].module_path, item.fn_name, item.node_id, TestKind(item.param_id),
                         Range(item.markers)),
       default_timeout |-> task.timeout_secs, keep_tmp |-> task.keep_tmp,
       debug |-> DebugContext({}, "show_locals" \in DOMAIN task /\ task.show_locals,
                              "show_internals" \in DOMAIN task /\ task.show_internals)]

(***************************************************************************)
(* A result on its way back, as a line of JSON.                            *)
(***************************************************************************)
Statuses == {"passed", "failed", "error", "skipped", "warned", "xfailed", "xpassed", "timeout"}

\* The attributes of each class of result.
Located == {"message", "file", "lineno", "source_line", "frames"}
Compared == {"left", "right", "op", "field_diffs"}
Attributes ==
  [s \in Statuses |->
     CASE s = "passed" -> {"no_message_lines"}
       [] s = "failed" -> Located \cup Compared \cup {"no_message_lines"}
       [] s = "error" -> Located \cup {"usage_error"}
       [] s = "warned" -> {"message", "no_message_lines"}
       [] s = "xpassed" -> {"strict"}
       [] OTHER -> {"message"}]

\* What Python takes for false, attribute by attribute.
Falsy ==
  [k \in Located \cup Compared \cup {"no_message_lines", "usage_error", "strict"} |->
     CASE k = "lineno" -> 0 [] k \in {"usage_error", "strict"} -> FALSE [] OTHER -> <<>>]

\* A field that is false is left out.
ToWire(result, id, ms) ==
  [type |-> "result", node_id |-> id, outcome |-> result.status, duration_ms |-> ms,
   protocol_version |-> ProtocolVersion]
  @@ [k \in {a \in Attributes[result.status] : result[a] # Falsy[a]} |-> result[k]]

\* A field a line lacks has the default of its type.
Field(line, key) == IF key \in DOMAIN line THEN line[key] ELSE Falsy[key]

\* The tag names a variant, and the identity is there.
IsWireResult(line) == {"node_id", "duration_ms", "outcome"} \subseteq DOMAIN line /\ line.outcome \in Statuses
IsWireMinimal(line) == {"node_id", "duration_ms"} \subseteq DOMAIN line

\* Lines without a number are dropped.
FilterTips(lines) == SelectSeq(lines, LAMBDA n : n > 0)
Frame(raw) ==
  [file |-> raw.file, lineno |-> raw.lineno, name |-> raw.name, line |-> raw.line,
   locals |-> IF "locals" \in DOMAIN raw THEN raw.locals ELSE <<>>]
Frames(raw) == [i \in DOMAIN raw |-> Frame(raw[i])]

Tips(lines) == IF lines = <<>> THEN {} ELSE {lines}
FailureDiagnostic(raw, comparison, usage) ==
  [message |-> raw.message, file |-> raw.file, lineno |-> raw.lineno, source_line |-> raw.source_line,
   frames |-> raw.frames, comparison |-> comparison, usage_error |-> usage]

\* The one conversion both routes share.  An assertion failure never votes
\* for the usage exit code, and only it has operands.
IntoTestOutcome(raw) ==
  CASE raw.status = "passed" -> [kind |-> "passed", tips |-> Tips(raw.no_message_lines)]
    [] raw.status = "warned" -> [kind |-> "warned", reason |-> raw.message, tips |-> Tips(raw.no_message_lines)]
    [] raw.status = "failed" ->
         [kind |-> "failed", diagnostic |-> FailureDiagnostic(raw, {[k \in Compared |-> raw[k]]}, FALSE)]
    [] raw.status = "error" -> [kind |-> "error", diagnostic |-> FailureDiagnostic(raw, {}, raw.usage_error)]
    [] raw.status = "xpassed" -> [kind |-> "xpassed", strict |-> raw.strict]
    [] raw.status = "timeout" -> [kind |-> "timeout", message |-> raw.message]
    [] OTHER -> [kind |-> raw.status, reason |-> raw.message]

\* The variant's fields; the one for a failed test has no tips.
WireFields(status) == Attributes[status] \ (IF status = "failed" THEN {"no_message_lines"} ELSE {})
RawOutcomeOf(line) ==
  [status |-> line.outcome]
  @@ [k \in WireFields(line.outcome) |->
        CASE k = "no_message_lines" -> FilterTips(Field(line, k))
          [] k = "frames" -> Frames(Field(line, k))
          [] OTHER -> Field(line, k)]
IntoOutcome(line) ==
  [node_id |-> {line.node_id}, duration_ms |-> line.duration_ms, outcome |-> IntoTestOutcome(RawOutcomeOf(line))]

(***************************************************************************)
(* A result on its way back, as a Python object.                           *)
(***************************************************************************)
Sentinel(message, usage) ==
  [kind |-> "error",
   diagnostic |-> FailureDiagnostic([Falsy EXCEPT !.message = message], {}, usage)]

ErrorResult(message, usage) ==
  [status |-> "error"]
  @@ [k \in Attributes["error"] |->
        CASE k = "message" -> message [] k = "usage_error" -> usage [] OTHER -> Falsy[k]]

ExtractOutcome(result) ==
  IntoTestOutcome([status |-> result.status]
                  @@ [k \in WireFields(result.status) |-> IF k = "frames" THEN Frames(result[k]) ELSE result[k]])

\* An error that leaves run_test is an error of the test.
InProcessOutcome(id, run) ==
  IF run.raises # {}
  THEN LET e == CHOOSE x \in run.raises : TRUE IN Sentinel(<<id, "-", e.message>>, e.usage)
  ELSE ExtractOutcome(run.result)
WorkerLine(id, run) ==
  ToWire(IF run.raises # {}
         THEN LET e == CHOOSE x \in run.raises : TRUE IN ErrorResult(<<e.message>>, e.usage)
         ELSE run.result, id, 1)

(***************************************************************************)
(* Diagnostics.                                                            *)
(***************************************************************************)
Severity(text) == IF text \in {"error", "warning"} THEN text ELSE "notice"
DiagnosticEntry(d) ==
  [severity |-> Severity(d.severity), context |-> d.context, message |-> d.message,
   file |-> IF d.file = <<>> THEN {} ELSE {d.file}, lineno |-> IF d.lineno = 0 THEN {} ELSE {d.lineno}]

\* Everything is read before the list is cleared, so an entry that cannot be
\* read leaves the list as it was.
DrainDiagnostics(list) ==
  IF \A i \in DOMAIN list : list[i].lineno >= 0
  THEN [entries |-> [i \in DOMAIN list |-> DiagnosticEntry(list[i])], left |-> <<>>]
  ELSE [entries |-> <<>>, left |-> list]

DiagnosticToWire(d) ==
  [type |-> "diagnostic", severity |-> d.severity, context |-> d.context, message |-> d.message, file |-> d.file,
   lineno |-> d.lineno]

(***************************************************************************)
(* The lines of a worker, one after the other.                             *)
(***************************************************************************)
Heard == [results |-> <<>>, diagnostics |-> <<>>, warned |-> FALSE, warnings |-> 0]

ForwardDiagnostic(heard, line) ==
  IF {"severity", "context", "message"} \subseteq DOMAIN line
  THEN [heard EXCEPT !.diagnostics =
          Append(@, DiagnosticEntry(line @@ [k \in {"file", "lineno"} |-> Falsy[k]]))]
  ELSE heard

HearResult(heard, line) ==
  IF IsWireResult(line)
  THEN LET skewed == ~heard.warned /\ (IF "protocol_version" \in DOMAIN line THEN line.protocol_version ELSE 0) # ProtocolVersion
       IN  [heard EXCEPT !.results = Append(@, IntoOutcome(line)), !.warned = @ \/ skewed,
                         !.warnings = @ + (IF skewed THEN 1 ELSE 0)]
  ELSE [heard EXCEPT !.results =
          Append(@, [node_id |-> IF IsWireMinimal(line) THEN {line.node_id} ELSE {},
                     duration_ms |-> IF IsWireMinimal(line) THEN line.duration_ms ELSE 0,
                     outcome |-> Sentinel(<<"unknown">>, FALSE)])]

HearLine(heard, line) ==
  CASE "type" \notin DOMAIN line -> heard
    [] "type" \in DOMAIN line /\ line.type = "diagnostic" -> ForwardDiagnostic(heard, line)
    [] "type" \in DOMAIN line /\ line.type = "result" -> HearResult(heard, line)
    [] OTHER -> heard
HearLines(lines) == FoldLeft(HearLine, Heard, lines)
=============================================================================
