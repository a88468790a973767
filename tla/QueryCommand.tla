---------------------------- MODULE QueryCommand ----------------------------
(***************************************************************************)
(* `oxitest query`: the entries of a resource, their filter and what is    *)
(* shown of them (src/query/mod.rs, extract.rs, detail.rs, fzf.rs,         *)
(* bridge.rs, format.rs, highlight.rs).                                    *)
(*                                                                         *)
(* A file is a record of its path, whether it parses, its statements and   *)
(* its lines.  `session` is the Python session, or NoSession: its fixture  *)
(* and plugin entries and the fixture dependencies of collected items.     *)
(***************************************************************************)
EXTENDS Integers, Sequences, FiniteSets, SequencesExt

Query == INSTANCE QueryLanguage
Py == INSTANCE PythonSource

NoSession == [open |-> FALSE, deps |-> <<>>, fixtures |-> <<>>, plugins |-> <<>>, fails |-> FALSE]

Field(entry, key) == IF key \in DOMAIN entry THEN entry[key] ELSE <<>>
Joined(texts, by) ==
  FoldLeft(LAMBDA line, i : IF i = 1 THEN texts[1] ELSE line \o <<by>> \o texts[i], <<>>,
           [i \in DOMAIN texts |-> i])

(***************************************************************************)
(* Entries from syntax trees.  A file that does not parse has none.        *)
(***************************************************************************)
MakeTestEntry(path, test) ==
  [name |-> Py!TestId(path, test), source |-> path,
   async |-> IF Py!IsAsync(test.def) THEN <<"true">> ELSE <<"false">>,
   mark |-> Joined(Py!MarkNames(test.def.decorators), ",")]

Parsed(files) == SelectSeq(files, LAMBDA f : f.parses)
EntriesOf(file) ==
  LET tests == Py!WalkTestDefs(file.stmts) IN [i \in DOMAIN tests |-> MakeTestEntry(file.path, tests[i])]
ExtractTestEntries(files) ==
  LET parsed == Parsed(files) IN FlattenSeq([i \in DOMAIN parsed |-> EntriesOf(parsed[i])])

\* A mark is listed with the files that use it; a registered one is listed
\* even when none does.
UsedIn(mark, files) ==
  Joined(SetToSeq({f.path : f \in {g \in Range(Parsed(files)) : mark \in Py!ExtractDecoratorMarks(g.stmts)}}), ",")
ExtractMarkEntries(files, registered) ==
  {[name |-> m, used_in |-> UsedIn(m, files)] :
     m \in registered \cup UNION {Py!ExtractDecoratorMarks(f.stmts) : f \in Range(Parsed(files))}}

\* Each file parsed once, on its own thread; the merge keeps file order.
ExtractTestAndMarkEntries(files, registered) ==
  LET perFile == [i \in DOMAIN Parsed(files) |-> EntriesOf(Parsed(files)[i])]
  IN  [tests |-> FlattenSeq(perFile), marks |-> ExtractMarkEntries(files, registered)]

(***************************************************************************)
(* Entries from the Python session.                                        *)
(***************************************************************************)
UpToBracket(id) ==
  LET at == SelectInSeq(id, LAMBDA symbol : symbol = "[")
  IN  IF at = 0 THEN id ELSE SubSeq(id, 1, at - 1)

\* The first dependency of a function's cases stands for them all.
EnrichTestsWithFixtureDeps(entries, deps) ==
  LET of(name) == SelectSeq(deps, LAMBDA d : UpToBracket(d.id) = name)
  IN  [i \in DOMAIN entries |->
         IF of(entries[i].name) = <<>> THEN entries[i]
         ELSE entries[i] @@ [uses |-> of(entries[i].name)[1].fixtures]]

CollectEntries(resource, files, session, registered) ==
  CASE resource = "tests" ->
         IF ~session.open THEN [entries |-> ExtractTestEntries(files)]
         ELSE IF session.fails THEN [error |-> "bridge"]
         ELSE [entries |-> EnrichTestsWithFixtureDeps(ExtractTestEntries(files), session.deps)]
    [] resource = "marks" -> [entries |-> SetToSeq(ExtractMarkEntries(files, registered))]
    [] resource \in {"fixtures", "plugins"} ->
         IF session.open /\ session.fails THEN [error |-> "bridge"]
         ELSE [entries |-> IF resource = "fixtures" THEN session.fixtures ELSE session.plugins]

(***************************************************************************)
(* The command.  A result is an error or what is printed.                  *)
(***************************************************************************)
\* lex, parse and validate of args.expression: an error or the filter.
Filter(args, words) ==
  IF ~args.given THEN [all |-> TRUE]
  ELSE Query!Then(Query!Compile(args.expression, words), LAMBDA compiled :
         IF Query!ValidFor(compiled.expr, args.resource) THEN compiled ELSE Query!DslError("InvalidPredicate"))
Keep(filter, entries) ==
  IF "all" \in DOMAIN filter THEN entries
  ELSE SelectSeq(entries, LAMBDA e : Query!Eval(filter.expr, e))

DefaultColumns(resource) == <<"name">>
FormatColumnar(entries, columns) ==
  [rows |-> [i \in DOMAIN entries |-> [c \in DOMAIN columns |-> Field(entries[i], columns[c])]],
   footer |-> IF entries = <<>> THEN 0 ELSE Len(entries)]
FormatTab(entries, columns) ==
  [rows |-> [i \in DOMAIN entries |-> [c \in DOMAIN columns |-> Field(entries[i], columns[c])]]]
FormatJsonl(entries) == [objects |-> entries]

FieldsFor ==
  [tests |-> <<"source", "mark", "async">>,
   fixtures |-> <<"description", "source", "lifetime", "autouse", "async">>,
   marks |-> <<"used_in">>, plugins |-> <<"protocol">>]

\* Mutant: the decorators of the next statement are taken for its own.
VisualLineOfDef(stmt) == stmt.line

\* The line where a statement begins, its decorators included, and the
\* line where it ends.
VisualLine(stmt) == stmt.line - Len(stmt.decorators)
RECURSIVE LastLine(_)
LastLine(stmt) == IF stmt.body = <<>> THEN stmt.line ELSE LastLine(Last(stmt.body))

\* The first line that is not shown: where the next statement of the same
\* body begins or, for the last one, its own last line.
NextStmtLine(stmts, i) == IF i < Len(stmts) THEN VisualLine(stmts[i + 1]) ELSE LastLine(stmts[i])

\* The first function of that name, methods of test classes included:
\* its line and the first line that is not shown.
RECURSIVE FindFunctionLines(_, _)
FindFunctionLines(stmts, fn) ==
  LET inside(s) == IF s.kind = "ClassDef" /\ Py!IsTestClass(s.name)
                   THEN FindFunctionLines(s.body, fn) ELSE <<>>
      found == {i \in DOMAIN stmts : (Py!IsDef(stmts[i]) /\ stmts[i].name = fn) \/ inside(stmts[i]) # <<>>}
  IN  IF found = {} THEN <<>>
      ELSE LET i == CHOOSE k \in found : \A j \in found : k <= j
           IN  IF Py!IsDef(stmts[i]) THEN <<stmts[i].line, NextStmtLine(stmts, i)>>
               ELSE inside(stmts[i])

LastSegment(id) ==
  LET at == SelectLastInSeq(id, LAMBDA symbol : symbol = "::") IN SubSeq(id, at + 1, Len(id))
RECURSIVE TrimBlank(_)
TrimBlank(lines) == IF lines # <<>> /\ Last(lines) = "" THEN TrimBlank(Front(lines)) ELSE lines
ExtractSourceSnippet(entry, files) ==
  LET file == SelectSeq(Parsed(files), LAMBDA f : f.path = Field(entry, "source"))
      range == FindFunctionLines(file[1].stmts, LastSegment(entry.name))
      end == IF range[2] - 1 < Len(file[1].lines) THEN range[2] - 1 ELSE Len(file[1].lines)
  IN  IF file = <<>> \/ range = <<>> THEN <<>>
      ELSE TrimBlank(SubSeq(file[1].lines, range[1], end))

\* Fields that are absent or empty are skipped.
FormatDetail(entry, resource, files) ==
  [name |-> entry.name,
   shown |-> SelectSeq(FieldsFor[resource], LAMBDA f : Field(entry, f) # <<>>),
   snippet |-> ExtractSourceSnippet(entry, files)]

Format(args, entries, files, tty) ==
  LET named == SelectSeq(entries, LAMBDA e : Query!IsFactor(args.detail, e.name))
  IN  IF args.detail # <<>>
      THEN IF named = <<>> THEN [error |-> "no match"] ELSE FormatDetail(named[1], args.resource, files)
      ELSE IF args.count THEN [count |-> Len(entries)]
      ELSE IF args.jsonl THEN FormatJsonl(entries)
      ELSE IF tty THEN FormatColumnar(entries, DefaultColumns(args.resource))
      ELSE FormatTab(entries, DefaultColumns(args.resource))

\* The entries are collected before the expression is looked at.
RunQuery(args, files, session, registered, tty, words) ==
  Query!Then(CollectEntries(args.resource, files, session, registered), LAMBDA collected :
    Query!Then(Filter(args, words), LAMBDA filter : Format(args, Keep(filter, collected.entries), files, tty)))

\* run_fzf: the expression is validated before anything is collected, and
\* an empty list is an error.  `spawns` is whether fzf could be started.
RunFzf(args, files, session, registered, spawns, words) ==
  LET offer(entries) == IF entries = <<>> THEN [error |-> "no results"]
                        ELSE IF ~spawns THEN [error |-> "fzf not found"]
                        ELSE FormatTab(entries, DefaultColumns(args.resource))
  IN  Query!Then(Filter(args, words), LAMBDA filter :
        Query!Then(CollectEntries(args.resource, files, session, registered), LAMBDA collected :
          offer(Keep(filter, collected.entries))))

(***************************************************************************)
(* highlight_python.  A lexed source is a sequence of tokens, each a kind  *)
(* and the symbols from `start` to `end`; symbols between them are gaps.   *)
(* A token of kind "error" ends the lexing.                                *)
(***************************************************************************)
Coloured(kind, afterAt) ==
  CASE kind \in {"keyword", "constant"} -> "bold cyan"
    [] kind = "string" -> "green"
    [] kind = "number" -> "blue"
    [] kind = "at" \/ (kind = "name" /\ afterAt) -> "dim cyan"
    [] OTHER -> "plain"

RECURSIVE HighlightFrom(_, _, _, _, _)

HighlightFrom(source, tokens, i, previous, afterAt) ==
  IF i > Len(tokens) \/ tokens[i].kind = "error"
  THEN <<[colour |-> "plain", text |-> SubSeq(source, previous + 1, Len(source))]>>
  ELSE LET tok == tokens[i]
       IN  <<[colour |-> "plain", text |-> SubSeq(source, previous + 1, tok.start - 1)],
             [colour |-> Coloured(tok.kind, afterAt), text |-> SubSeq(source, tok.start, tok.end)]>>
           \o HighlightFrom(source, tokens, i + 1, tok.end, tok.kind = "at")
HighlightPython(source, tokens) == HighlightFrom(source, tokens, 1, 0, FALSE)
==============================================================================
