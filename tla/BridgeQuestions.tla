--------------------------- MODULE BridgeQuestions ---------------------------
(***************************************************************************)
(* What the crossing between the coordinator and Python owes: a test that  *)
(* runs in the coordinator and the same test in a worker are told the same *)
(* and tell the same, no message is lost or told twice, and the checks of  *)
(* fixtures before a run agree with what the run would do.                 *)
(***************************************************************************)
EXTENDS Questions

Br == INSTANCE Bridge
Fx == INSTANCE FixtureChecks

\* The arguments of run_test for each collected item, on both routes.
SendItems(collected) ==
  [collected |-> collected,
   inProcess |-> [i \in DOMAIN collected.items |-> Br!RunInProcess(collected.items[i], question.opts)],
   worker |-> [i \in DOMAIN collected.items |->
                 Br!RunInWorker(Br!BuildTask(question.path, collected.items, question.opts), i)]]
RunModule ==
  /\ question.about = "module" /\ Answering
  /\ answer' = SendItems(Br!CollectModule(question.path, question.module))

TellResult ==
  /\ question.about = "result" /\ Answering
  /\ answer' = [inProcess |-> Br!InProcessOutcome(question.id, question.run),
                worker |-> Br!HearLines(<<Br!WorkerLine(question.id, question.run)>>)]

HearWorker ==
  /\ question.about = "lines" /\ Answering
  /\ answer' = Br!HearLines(question.lines)

\* The list is drained, grows again and is drained a second time.
DrainTwice ==
  /\ question.about = "diagnostics" /\ Answering
  /\ LET first == Br!DrainDiagnostics(question.before)
     IN  answer' = [first |-> first.entries,
                    second |-> Br!DrainDiagnostics(first.left \o question.after).entries,
                    wire |-> Br!HearLines([i \in DOMAIN question.before |-> Br!DiagnosticToWire(question.before[i])]).diagnostics]

\* The order of the two modules of the accesses.
CheckAccesses ==
  /\ question.about = "access" /\ Answering
  /\ answer' = Fx!ValidateFxBoundaries(question.registry, question.usages, question.collected, question.paths)

CheckNames ==
  /\ question.about = "names" /\ Answering
  /\ answer' = [errors |-> Fx!ValidateFixtureNames(question.registry, question.tests),
                unused |-> Fx!FindUnusedFixtures(question.registry, question.tests)]

Suggest ==
  /\ question.about = "spelling" /\ Answering
  /\ answer' = Fx!FormatFixtureErrors(<<[node_id |-> 1, name |-> question.name]>>, question.registered)

BridgeNext == RunModule \/ TellResult \/ HearWorker \/ DrainTwice \/ CheckAccesses \/ CheckNames \/ Suggest

\* Both routes call run_test with the same arguments, and these are what
\* Python collected: the case of a parametrized test (an empty id is one),
\* the markers whatever their order and number, and no two items of a module
\* share an id unless Python gave them one.  A violation keeps its kind.
ItemsKept ==
  Answered("module") =>
    /\ answer.inProcess = answer.worker
    /\ question.module.raises = {} =>
         /\ Len(answer.worker) = Len(question.module.items)
         /\ \A i \in DOMAIN answer.worker :
              LET item == question.module.items[i]
                  meta == answer.worker[i].meta
              IN  /\ meta.module_path = question.path /\ meta.fn_name = item.fn
                  /\ meta.kind.kind = "Parametrized" <=> item.param_id # {}
                  /\ meta.kind.param_id = item.param_id
                  /\ meta.markers = Range(item.markers)
                  /\ \A m \in Range(item.markers) \cup Range(Br!Builtins) :
                       Br!Has(answer.collected.items[i].markers, m) <=> m \in Range(item.markers)
                  /\ Br!MarkerSet(Br!MarkerSetIter(answer.collected.items[i].markers)) = answer.collected.items[i].markers
                  /\ \A j \in DOMAIN answer.worker :
                       meta.node_id = answer.worker[j].meta.node_id =>
                         item.fn = question.module.items[j].fn /\ item.param_id = question.module.items[j].param_id
         /\ [i \in DOMAIN answer.collected.violations |-> answer.collected.violations[i].kind]
              = [i \in DOMAIN question.module.violations |-> question.module.violations[i].kind]
    /\ question.module.raises # {} => answer.collected.error # {} /\ answer.worker = <<>>

\* A result that is returned has one outcome, the same on both routes,
\* although a line leaves out what is empty, zero or false; an exception
\* that leaves run_test is an error of the test with the same vote for the
\* exit code; and an assertion failure never has that vote.
ResultsKept ==
  Answered("result") =>
    /\ Len(answer.worker.results) = 1 /\ answer.worker.warnings = 0
    /\ answer.worker.results[1].node_id = {question.id}
    /\ LET told == answer.worker.results[1].outcome
       IN  IF question.run.raises = {}
           THEN /\ told = answer.inProcess
                /\ told.kind = question.run.result.status
           ELSE /\ told.kind = "error" /\ answer.inProcess.kind = "error"
                /\ told.diagnostic.usage_error = answer.inProcess.diagnostic.usage_error
                /\ [told.diagnostic EXCEPT !.message = <<>>] = [answer.inProcess.diagnostic EXCEPT !.message = <<>>]
    /\ answer.inProcess.kind = "failed" => ~answer.inProcess.diagnostic.usage_error

Claims(line) == "type" \in DOMAIN line /\ line.type = "result"
\* Each line that says it is a result is one result, in order, under the id
\* it has; one that a newer or broken worker wrote is never better than an
\* error; a worker of another version is told of once.
LinesHeard ==
  Answered("lines") =>
    LET claiming == SelectSeq(question.lines, Claims)
    IN  /\ Len(answer.results) = Len(claiming)
        /\ \A i \in DOMAIN claiming :
             /\ {"node_id", "duration_ms"} \subseteq DOMAIN claiming[i] => answer.results[i].node_id = {claiming[i].node_id}
             /\ IF "outcome" \in DOMAIN claiming[i] /\ claiming[i].outcome = answer.results[i].outcome.kind THEN TRUE
                ELSE answer.results[i].outcome.kind = "error"
             /\ answer.results[i].outcome.kind = "error" /\ "usage_error" \notin DOMAIN claiming[i]
                  => ~answer.results[i].outcome.diagnostic.usage_error
        /\ answer.warnings <= 1
        /\ answer.warnings = 0 =>
             \A i \in DOMAIN claiming : Br!IsWireResult(claiming[i]) =>
               "protocol_version" \in DOMAIN claiming[i] /\ claiming[i].protocol_version = Br!ProtocolVersion

\* A diagnostic of the session is told exactly once however often the list
\* is drained, and is the same entry when a worker sends it.
DiagnosticsKept ==
  Answered("diagnostics") =>
    /\ Len(answer.first \o answer.second) = Len(question.before \o question.after)
    /\ answer.wire = answer.first
    /\ \A i \in DOMAIN question.before : answer.first[i].message = question.before[i].message
                                        /\ answer.first[i].severity = question.before[i].severity
    /\ \A i \in DOMAIN question.after : answer.second[i].message = question.after[i].message

\* The declarations a worker has that runs module: inline declarations of
\* other modules only of those it imported.
WorkerRegistry(module, imported) ==
  SelectSeq(question.registry, LAMBDA d : ~d.inline \/ d.anchor \subseteq {module} \cup imported)
Refused(module, lineno) == \E i \in DOMAIN answer : answer[i] = [module |-> module, lineno |-> lineno]
\* fx.<segment> written without a leaf, where the segment is a namespace.
BareNamespace(usage) == usage.namespace = {} /\ Fx!HasNamespace(question.registry, usage.name)

\* A declaration of the module itself, of a directory above it, or of no
\* place at all.
Above(defn, module) == \A a \in defn.anchor : a = module \/ \E k \in 1..Len(module) - 1 : a = SubSeq(module, 1, k)

\* An access the coordinator lets through means a declaration of the module
\* or of a directory above it, and resolves in every worker that runs the
\* module, whatever other modules that worker imported; an access it
\* refuses would raise in a serial run, the bare namespace apart; modules
\* that were not imported are not judged; and the refusals are in the order
\* of the modules.
GateAgrees ==
  Answered("access") =>
    /\ \A m \in DOMAIN question.usages : \A i \in DOMAIN question.usages[m] :
         LET u == question.usages[m][i]
         IN  IF m \notin question.collected THEN ~Refused(m, u.lineno)
             ELSE /\ ~Refused(m, u.lineno) =>
                       /\ u.namespace = {Fx!Oxi} \/ \E d \in Range(question.registry) :
                            d.name \in u.namespace \cup {u.name} /\ Above(d, m)
                       /\ \A imported \in SUBSET (question.collected \ {m}) :
                         Fx!Access(WorkerRegistry(m, imported), u.namespace, u.name, m)
                  /\ Refused(m, u.lineno) /\ ~BareNamespace(u) => ~Fx!Access(question.registry, u.namespace, u.name, m)
    /\ \A i, j \in DOMAIN answer : i < j =>
         ~\E k, l \in DOMAIN question.paths : k < l /\ question.paths[k] = answer[j].module /\ question.paths[l] = answer[i].module

Requested == UNION {Range(question.tests[i].names) : i \in DOMAIN question.tests}
\* A set of fixtures that has what the tests ask for, the autouse ones and
\* whatever one of them depends on.
Serves(fixtures) ==
  /\ Requested \cup {d.name : d \in {e \in Range(question.registry) : e.autouse}} \subseteq fixtures
  /\ \A d \in Range(question.registry) : d.name \in fixtures => d.deps \subseteq fixtures

\* A conftest fixture is called unused exactly when the tests could do
\* without it: some set of fixtures that serves every test lacks it.  A
\* name is refused at most once per test, and never when it is registered.
NamesChecked ==
  Answered("names") =>
    LET known == {d.name : d \in Range(question.registry)} \cup Requested
    IN  /\ \A d \in Range(question.registry) :
             d.name \in answer.unused <=> d.conftest /\ \E fixtures \in SUBSET known : Serves(fixtures) /\ d.name \notin fixtures
        /\ \A i \in DOMAIN answer.errors :
             /\ answer.errors[i].name \notin {d.name : d \in Range(question.registry)}
             /\ \A j \in DOMAIN answer.errors : answer.errors[i] = answer.errors[j] => i = j

\* The fewest insertions, deletions and substitutions between two words.
RECURSIVE Levenshtein(_, _)
Levenshtein(a, b) ==
  IF a = <<>> THEN Len(b) ELSE IF b = <<>> THEN Len(a)
  ELSE IF Head(a) = Head(b) THEN Levenshtein(Tail(a), Tail(b))
  ELSE 1 + Fx!Minimum(Fx!Minimum(Levenshtein(Tail(a), b), Levenshtein(a, Tail(b))), Levenshtein(Tail(a), Tail(b)))

\* The suggestion is a nearest registered name, the first of them, and there
\* is one exactly when some name is within two edits.
SuggestionsNearest ==
  Answered("spelling") =>
    LET distance(i) == Levenshtein(question.name, question.registered[i])
    IN  /\ answer[1].suggestion = {} <=> \A i \in DOMAIN question.registered : distance(i) > 2
        /\ \A s \in answer[1].suggestion :
             \E i \in DOMAIN question.registered :
               /\ question.registered[i] = s
               /\ \A j \in DOMAIN question.registered : distance(i) < distance(j) \/ (distance(i) = distance(j) /\ i <= j)

\* What crosses between the coordinator and Python arrives, and the checks
\* of fixtures agree with the run.
CrossingsFaithful ==
  ItemsKept /\ ResultsKept /\ LinesHeard /\ DiagnosticsKept /\ GateAgrees /\ NamesChecked /\ SuggestionsNearest
==============================================================================
