-------------------------- MODULE SelectionQuestions --------------------------
(***************************************************************************)
(* Questions about expressions, about the tests a command line selects and *)
(* about what `oxitest query` shows.                                       *)
(***************************************************************************)
EXTENDS Questions

L == INSTANCE QueryLanguage
Py == INSTANCE PythonSource
S == INSTANCE Selection
Q == INSTANCE QueryCommand

\* `-E` of run, debug and query: the expression of a text.
CompileExpression ==
  /\ question.about = "expression"
  /\ answer' = L!Compile(question.input, Words)

\* prescan and filter_metadata on one file, and what importing it anyway
\* would have let the run select.
DecideImport ==
  /\ question.about = "import"
  /\ answer' = [imports |-> S!ImportsModule(question.path, question.file, question.sel, Stdlib, Words),
                selects |-> S!SelectedItems(SetToSeq(S!CollectModule(question.path, question.file)),
                                            question.sel, Words)]

\* The end of collect: targets that match nothing refuse the run, the
\* others select among the collected items.
SelectTargets ==
  /\ question.about = "targets"
  /\ answer' = [unmatched |-> S!UnmatchedLiteralTargets(question.items, question.nodeIds),
                runs |-> S!FilterByNodeIds(question.items, question.nodeIds,
                                           S!SourceFiles(question.nodeIds))]

ShowTarget ==
  /\ question.about = "display"
  /\ answer' = S!DisplayTarget(question.id, question.base)

GroupModules ==
  /\ question.about = "packages"
  /\ answer' = S!GroupByPackage(question.modules, question.dirs)

\* filter::sort_failed_first and group_by_module, as the serial phase uses them.
OrderItems ==
  /\ question.about = "order"
  /\ answer' = S!GroupByModule(S!SortFailedFirst(question.items, question.failed))

\* query_without_session, or query on a session when needs_python says so.
RunQueryCommand ==
  /\ question.about = "query"
  /\ LET args == question.args
         session == IF L!NeedsPython(args.resource, args.given, args.expression, Words)
                    THEN question.session ELSE Q!NoSession
     IN  answer' = IF args.fzf THEN Q!RunFzf(args, question.files, session, question.registered, TRUE, Words)
                   ELSE Q!RunQuery(args, question.files, session, question.registered, args.tty, Words)

\* A position of the parser as a line of its file.
LocateOffset ==
  /\ question.about = "offset"
  /\ answer' = Py!ParseErrorLine(question.source, question.offset)

ColourSource ==
  /\ question.about = "colour"
  /\ answer' = Q!HighlightPython(question.source, question.tokens)

SelectionNext ==
  /\ Answering
  /\ \/ CompileExpression
     \/ DecideImport
     \/ SelectTargets
     \/ ShowTarget
     \/ GroupModules
     \/ OrderItems
     \/ RunQueryCommand
     \/ LocateOffset
     \/ ColourSource

(***************************************************************************)
(* Expressions.                                                            *)
(***************************************************************************)
\* The grammar the parser implements, read off declaratively: kinds of
\* tokens derive a predicate, an atom, a term or an expression.
DerivesPredicate(k) ==
  /\ Len(k) \in 3..5 /\ k[1] = "ident" /\ k[2] = "(" /\ Last(k) = ")"
  /\ SubSeq(k, 3, Len(k) - 1) \in {<<>>, <<"str">>, <<"regex">>, <<"~", "str">>, <<"=", "str">>}
RECURSIVE DerivesExpr(_)
RECURSIVE DerivesTerm(_)
DerivesTerm(k) ==
  \/ DerivesPredicate(k)
  \/ Len(k) > 1 /\ k[1] \in {"!", "not"} /\ DerivesTerm(Tail(k))
  \/ Len(k) > 2 /\ k[1] = "(" /\ Last(k) = ")" /\ DerivesExpr(SubSeq(k, 2, Len(k) - 1))
DerivesExpr(k) ==
  \/ DerivesTerm(k)
  \/ \E i \in 2..(Len(k) - 1) : /\ k[i] \in {"&", "|", "and", "or"}
                                /\ DerivesExpr(SubSeq(k, 1, i - 1))
                                /\ DerivesTerm(SubSeq(k, i + 1, Len(k)))

\* An expression written out with every parenthesis and every literal quoted.
RECURSIVE Printed(_)
Printed(e) ==
  CASE e.op = "and" -> <<"(">> \o Printed(e.left) \o <<")", "&", "(">> \o Printed(e.right) \o <<")">>
    [] e.op = "or" -> <<"(">> \o Printed(e.left) \o <<")", "|", "(">> \o Printed(e.right) \o <<")">>
    [] e.op = "not" -> <<"!", "(">> \o Printed(e.inner) \o <<")">>
    [] e.op = "pred" ->
         <<e.name, "(">>
         \o (CASE e.matcher.how = "any" -> <<>>
               [] e.matcher.how = "contains" -> <<"~", "'">> \o e.matcher.text \o <<"'">>
               [] e.matcher.how = "exact" -> <<"=", "'">> \o e.matcher.text \o <<"'">>
               [] e.matcher.how = "regex" -> <<"/">> \o e.matcher.text \o <<"/">>)
         \o <<")">>

\* compile::parse accepts exactly the token sequences of its grammar: no
\* token is skipped, and none is left over after a complete expression.
GrammarAccepted ==
  Answered("expression") =>
    LET lexed == L!Lex(question.input, Words)
        kinds == [i \in DOMAIN lexed.tokens |-> lexed.tokens[i].kind]
    IN  ~L!Failed(answer) <=> ~L!Failed(lexed) /\ DerivesExpr(kinds)

\* compile::parse builds the tree its text denotes: the tree written out
\* with every parenthesis compiles to the same tree.
ParsePrinted ==
  Answered("expression") /\ ~L!Failed(answer) =>
    LET again == L!Compile(Printed(answer.expr), Words)
    IN  ~L!Failed(again) /\ again.expr = answer.expr

\* compile::lex and compile::parse together: an expression is accepted
\* exactly when the grammar derives it, and its tree is the one it denotes.
ExpressionsParsed == GrammarAccepted /\ ParsePrinted

(***************************************************************************)
(* Selection.                                                              *)
(***************************************************************************)
Marked(decorators) == S!AnyMark(decorators) # <<>>

\* A module whose tests all stand in its text as prescan reads it: bound at
\* the top level or in a test class, marked on the function itself through
\* the package, with one oxi_mark at most.
Plain(file) ==
  LET tops == Range(file.stmts)
      defs == {d.def : d \in Range(Py!WalkTestDefs(file.stmts))}
  IN  /\ \A s \in tops : s.kind \notin {"If", "StarImport"}
      /\ \A s \in tops : s.kind = "ClassDef" => ~Marked(s.decorators) /\ s.exprs = <<>>
      /\ \A d \in defs : S!AnyMark(d.decorators) = Py!MarkNames(d.decorators)
      /\ Cardinality({i \in DOMAIN file.stmts : file.stmts[i].kind = "Assign"}) <= 1

\* A selection that looks at the case of a parametrized test.
LooksAtCases(sel) ==
  \/ sel.expression # <<>>
  \/ \E id \in sel.nodeIds : S!HasSymbol(id, {"*", "?"})

Parametrized(file) ==
  \E d \in Range(Py!WalkTestDefs(file.stmts)) : Py!ExtractParametrizeKwargNames(d.def.decorators) # <<>>

\* Lazy collection loses no test: when importing a plainly written module
\* would give the run something to select, filter_metadata imports it.
LazyCollectionSound ==
  Answered("import") /\ Plain(question.file) /\ ~(Parametrized(question.file) /\ LooksAtCases(question.sel))
     /\ answer.selects # <<>>
  => answer.imports

\* Lazy collection is worth its name: a module of which no test is selected
\* by its node id is not imported for a literal target.
LazyCollectionUseful ==
  Answered("import") /\ Plain(question.file) /\ question.file.parses
     /\ question.sel.expression = <<>> /\ ~question.sel.onlyFailed
     /\ S!SourceFiles(question.sel.nodeIds) = {question.path}
     /\ (\A id \in question.sel.nodeIds : ~S!ContainsGlobChars(id))
     /\ ~Py!DetectDynamicCollection(question.file.stmts, Stdlib)
  => (answer.imports => answer.selects # <<>>)

\* filter_metadata imports what the run needs and, for literal targets,
\* nothing else.
LazyCollectionExact == LazyCollectionSound /\ LazyCollectionUseful

\* A target names the item it spells, the cases of that item and what the
\* item holds; a pattern names what it matches.
NamedBy(item, id) ==
  \/ item.id = id
  \/ \E sep \in {"[", "::"} : IsPrefix(id \o <<sep>>, item.id)
  \/ S!GlobMatches(id, item.id)

\* With literal targets only, a run has exactly the tests they name, and
\* all tests of the files that were given as paths; a target that names
\* nothing is reported.
LiteralTargetsHonoured ==
  Answered("targets") /\ (\A id \in question.nodeIds : ~S!ContainsGlobChars(id))
     /\ question.bare \cap S!SourceFiles(question.nodeIds) = {}
  => /\ {i \in Range(question.items) : i.module \in question.bare \/ \E id \in question.nodeIds : NamedBy(i, id)}
          = Range(answer.runs)
     /\ answer.unmatched = {id \in question.nodeIds : ~\E i \in Range(question.items) : NamedBy(i, id)}

\* The documented rule for every mixture of targets: a path runs all tests
\* of its file, a node id only the tests it names.
OnlyNamedTestsRun ==
  Answered("targets") =>
    \A i \in Range(answer.runs) :
       i.module \in question.bare \/ \E id \in question.nodeIds : NamedBy(i, id)

\* display_target spells a target under the root by the rest of its path,
\* and leaves any other target as it is: a sibling directory whose name
\* begins like the root's does not lie under it.
DisplayedTargetDenotes ==
  Answered("display") =>
    LET id == S!WithoutVerbatimPrefix(question.id)
        base == S!TrimEnd(S!WithoutVerbatimPrefix(question.base))
    IN  \/ answer = question.id
        \/ \E sep \in {"/", "\\"} : id = base \o <<sep>> \o answer

\* Targets select what they name, and are named in messages as they were meant.
TargetsHonoured == LiteralTargetsHonoured /\ DisplayedTargetDenotes

\* group_by_package: every module is in one task, two modules share a task
\* exactly when the same outermost declaring directory holds them both.
PackagesStayWhole ==
  Answered("packages") =>
    LET modules == Range(question.modules)
        under(m) == {d \in question.dirs : S!StartsWith(m, d)}
        together(m, n) == \E g \in Range(answer) : {m, n} \subseteq Range(g.modules)
    IN  /\ FlattenSeq([i \in DOMAIN answer |-> answer[i].modules]) \in SetToSeqs(modules)
        /\ \A m, n \in modules :
             together(m, n) <=> m = n \/ under(m) \cap under(n) # {}

\* sort_failed_first keeps every item, puts no passed test of a module
\* before a failed one, and group_by_module keeps that order within a module
\* and puts the module of a failed test before the modules of none.
FailedFirst ==
  Answered("order") =>
    LET flat == FlattenSeq([k \in DOMAIN answer |-> answer[k].items])
        failed(i) == i.id \in question.failed
        hasFailed(k) == \E i \in Range(answer[k].items) : failed(i)
    IN  /\ flat \in SetToSeqs(Range(question.items))
        /\ \A k \in DOMAIN answer : \A i, j \in DOMAIN answer[k].items :
             failed(answer[k].items[j]) /\ i < j => failed(answer[k].items[i])
        /\ \A j, k \in DOMAIN answer : hasFailed(k) /\ j < k => hasFailed(j)

\* The groups the execution works through lose no test, keep a declaring
\* subtree together and honour --failed=first.
WorkGrouped == PackagesStayWhole /\ FailedFirst

(***************************************************************************)
(* The query command.                                                      *)
(***************************************************************************)
ShownNames(result) ==
  CASE "rows" \in DOMAIN result -> [i \in DOMAIN result.rows |-> result.rows[i][1]]
    [] "objects" \in DOMAIN result -> [i \in DOMAIN result.objects |-> result.objects[i].name]
    [] "name" \in DOMAIN result -> <<result.name>>
    [] OTHER -> result

\* needs_python is right to leave the session out: the entries shown, their
\* number and the errors are those a working session would have given.
SessionNotNeeded ==
  Answered("query") /\ ~question.session.fails =>
    LET args == question.args
        whole == IF args.fzf THEN Q!RunFzf(args, question.files, question.session, question.registered, TRUE, Words)
                 ELSE Q!RunQuery(args, question.files, question.session, question.registered, args.tty, Words)
    IN  ShownNames(answer) = ShownNames(whole)

\* The detail view of a test that is followed by another statement of its
\* body shows all of its lines and none of another test, when no two tests
\* of the file have one name.
SnippetIsTheFunction ==
  Answered("query") /\ "snippet" \in DOMAIN answer =>
    \A f \in Range(question.files) : \A t \in Range(Py!WalkTestDefs(f.stmts)) :
      LET tests == Py!WalkTestDefs(f.stmts)
          namesake == Cardinality({i \in DOMAIN tests : tests[i].def.name = t.def.name}) > 1
          lastOne == \E s \in Range(f.stmts) \cup {[body |-> f.stmts]} : s.body # <<>> /\ Last(s.body) = t.def
          own == SubSeq(f.lines, t.def.line, Q!LastLine(t.def))
      IN  Py!TestId(f.path, t) = answer.name /\ ~namesake /\ ~lastOne => answer.snippet = own

\* A line of the parser's error exists: it is one more than the line breaks
\* before the offset, clamped into the source.
ErrorLineExists ==
  Answered("offset") =>
    LET before == {i \in DOMAIN question.source : i <= question.offset /\ question.source[i] = "\n"}
    IN  \/ question.offset < Len(question.source) /\ answer = Cardinality(before) + 1
        \/ question.offset >= Len(question.source) /\ answer \in 1..(Cardinality(before) + 1)

\* Colouring changes no character of the source, not even after an error of
\* the lexer.
ColourKeepsSource ==
  Answered("colour") => FlattenSeq([i \in DOMAIN answer |-> answer[i].text]) = question.source

\* What the query command shows of a source file is that file: the snippet is
\* the function, a line number is a line, colouring loses nothing.
SourceShown == SnippetIsTheFunction /\ ErrorLineExists /\ ColourKeepsSource

\* What is selected is what was asked for: no module is left unimported that
\* the selection needs and none imported that it does not, every literal
\* target is run, and the groups lose no test and keep what belongs together.
TestsSelected == LazyCollectionExact /\ TargetsHonoured /\ WorkGrouped

\* What is queried is what was asked for: the expression is the one written,
\* leaving the session out changes no answer, and the source shown is that of
\* the file.
QueryAnswered == ExpressionsParsed /\ SessionNotNeeded /\ SourceShown
==============================================================================
