---------------------------- MODULE PythonSource ----------------------------
(***************************************************************************)
(* What the coordinator reads from a Python file without importing it      *)
(* (src/python_ast.rs, prescan.rs, bare_asserts.rs, test_returns.rs,       *)
(* module_defs.rs).                                                        *)
(*                                                                         *)
(* A name is a text: <<"test_", "a">>, <<"Test", "A">>, <<"oxi">>.  A      *)
(* syntax tree has one shape for every node: its kind, the name or value   *)
(* it carries, its subexpressions, its keywords and its child statements.  *)
(***************************************************************************)
EXTENDS Integers, Sequences, FiniteSets, SequencesExt

Expr(kind, id, kids) == [kind |-> kind, id |-> id, kids |-> kids, keywords |-> <<>>]
Name(id) == Expr("Name", id, <<>>)
Attribute(of, attr) == Expr("Attribute", attr, <<of>>)
Constant(id) == Expr("Constant", id, <<>>)
Call(func, args, keywords) ==
  [kind |-> "Call", id |-> <<>>, kids |-> <<func>> \o args, keywords |-> keywords]
Keyword(arg, value) == [arg |-> arg, value |-> value]
Func(call) == call.kids[1]
Args(call) == Tail(call.kids)
None == Constant(<<"None">>)

\* A statement.  `exprs` are the expressions it holds itself, `params` a
\* function's parameters, `bases` a class's, `body` its child statements.
Stmt(kind, name, exprs, body, line) ==
  [kind |-> kind, name |-> name, exprs |-> exprs, body |-> body, line |-> line,
   decorators |-> <<>>, params |-> <<>>]
Def(kind, name, decorators, params, body, line) ==
  [Stmt(kind, name, <<>>, body, line) EXCEPT !.decorators = decorators, !.params = params]

IsDef(stmt) == stmt.kind \in {"FunctionDef", "AsyncFunctionDef"}
IsAsync(def) == def.kind = "AsyncFunctionDef"
IsTestFn(name) == name # <<>> /\ name[1] = "test_"
IsTestClass(name) == name # <<>> /\ name[1] = "Test"
IsOxitestNamespace(name) == name \in {<<"oxi">>, <<"oxitest">>}

\* The statements and the expressions a statement holds, and the
\* expressions an expression holds.
CompoundChildren(stmt) == stmt.body
StmtExprs(stmt) == stmt.exprs \o stmt.decorators
ExprChildren(expr) ==
  expr.kids \o [i \in DOMAIN expr.keywords |-> expr.keywords[i].value]

(***************************************************************************)
(* Lines.  A source is a sequence of symbols, an offset is zero-based.     *)
(***************************************************************************)
BuildLineIndex(source) ==
  <<0>> \o SetToSortSeq({i \in DOMAIN source : source[i] = "\n"}, <)

\* binary_search: the entry that holds the offset, or where it would go.
OffsetToLine(lineIndex, offset) ==
  Cardinality({i \in DOMAIN lineIndex : lineIndex[i] <= offset})

\* parse_source reports an error of the parser at a line of the file: the
\* offset is clamped into the source.
ParseErrorLine(source, offset) ==
  LET last == IF Len(source) = 0 THEN 0 ELSE Len(source) - 1
  IN  OffsetToLine(BuildLineIndex(source), IF offset < last THEN offset ELSE last)

(***************************************************************************)
(* Test definitions: top-level functions, and methods of top-level         *)
(* classes, by their names.                                                *)
(***************************************************************************)
TestDefsOf(stmt) ==
  CASE IsDef(stmt) -> IF IsTestFn(stmt.name) THEN <<[def |-> stmt, class |-> <<>>]>> ELSE <<>>
    [] stmt.kind = "ClassDef" /\ IsTestClass(stmt.name) ->
         LET methods == SelectSeq(stmt.body, LAMBDA m : IsDef(m) /\ IsTestFn(m.name))
         IN  [i \in DOMAIN methods |-> [def |-> methods[i], class |-> stmt.name]]
    [] OTHER -> <<>>

WalkTestDefs(stmts) == FlattenSeq([i \in DOMAIN stmts |-> TestDefsOf(stmts[i])])

\* A decorator or a value without its call.
Uncalled(expr) == IF expr.kind = "Call" THEN Func(expr) ELSE expr

\* `oxi.mark` or `oxitest.mark`.
IsMarkNamespace(expr) ==
  /\ expr.kind = "Attribute" /\ expr.id = <<"mark">>
  /\ expr.kids[1].kind = "Name" /\ IsOxitestNamespace(expr.kids[1].id)

\* The mark a decorator names, <<>> for none.
ExtractMarkName(dec) ==
  LET attr == Uncalled(dec)
  IN  IF /\ attr.kind = "Attribute"
         /\ attr.id # <<"parametrize">>
         /\ IsMarkNamespace(attr.kids[1])
      THEN attr.id ELSE <<>>

NonEmpty(texts) == SelectSeq(texts, LAMBDA t : t # <<>>)
MarkNames(decorators) ==
  NonEmpty([i \in DOMAIN decorators |-> ExtractMarkName(decorators[i])])

ExtractDecoratorMarks(stmts) ==
  UNION {Range(MarkNames(d.def.decorators)) : d \in Range(WalkTestDefs(stmts))}

\* A body that is exactly `...`.
IsStubBody(body) ==
  Len(body) = 1 /\ body[1].kind = "Expr" /\ body[1].exprs = <<Constant(<<"...">>)>>

RECURSIVE IsLiteralExpr(_)
IsLiteralExpr(expr) ==
  \/ expr.kind = "Constant"
  \/ /\ expr.kind \in {"Tuple", "List", "Set", "Dict"}
     /\ \A kid \in Range(expr.kids) : IsLiteralExpr(kid)

HasDynamicArgs(dec) ==
  /\ dec.kind = "Call"
  /\ \E arg \in Range(Args(dec)) \cup {kw.value : kw \in Range(dec.keywords)} : ~IsLiteralExpr(arg)

\* oxi.parametrize, oxi.mark.parametrize and a bare mark.parametrize.
IsParametrizeCall(func) ==
  /\ func.kind = "Attribute" /\ func.id = <<"parametrize">>
  /\ \/ /\ func.kids[1].kind = "Name"
        /\ IsOxitestNamespace(func.kids[1].id) \/ func.kids[1].id = <<"mark">>
     \/ IsMarkNamespace(func.kids[1])

\* The case names of every parametrize decorator, in order; an unpacked
\* mapping has no name.
ExtractParametrizeKwargNames(decorators) ==
  LET calls == SelectSeq(decorators, LAMBDA d : d.kind = "Call" /\ IsParametrizeCall(Func(d)))
      names(call) == [i \in DOMAIN call.keywords |-> call.keywords[i].arg]
  IN  NonEmpty(FlattenSeq([i \in DOMAIN calls |-> names(calls[i])]))

\* `Base` or `oxitest.Base` as an annotation.
Annotates(expr, base) ==
  \/ expr.kind = "Name" /\ expr.id = base
  \/ /\ expr.kind = "Attribute" /\ expr.id = base
     /\ expr.kids[1].kind = "Name" /\ IsOxitestNamespace(expr.kids[1].id)

\* Fixture[T] injects one fixture, a bare Fixtures the namespace accessor.
IsFixtureAnnotation(expr) == expr.kind = "Subscript" /\ Annotates(expr.kids[1], <<"Fixture">>)
IsFixturesProxyAnnotation(expr) == Annotates(expr, <<"Fixtures">>)

ExtractFixtureParamNames(def) ==
  {p.arg : p \in {q \in Range(def.params) : IsFixtureAnnotation(q.annotation)}}
ExtractProxyParamNames(def) ==
  {p.arg : p \in {q \in Range(def.params) : IsFixturesProxyAnnotation(q.annotation)}}

(***************************************************************************)
(* Reads of `fx.name` and `fx.namespace.name`, nested definitions          *)
(* included.  A qualified chain is one use: its inner part is not visited. *)
(***************************************************************************)
RECURSIVE CollectFxUsages(_, _)
CollectFxUsages(expr, proxies) ==
  LET isRoot(e) == e.kind = "Name" /\ e.id \in proxies
      isAttribute == expr.kind = "Attribute"
      qualified == isAttribute /\ expr.kids[1].kind = "Attribute" /\ isRoot(expr.kids[1].kids[1])
      shortcut == isAttribute /\ isRoot(expr.kids[1])
  IN  CASE qualified -> {[namespace |-> expr.kids[1].id, name |-> expr.id]}
        [] ~qualified /\ shortcut -> {[namespace |-> <<>>, name |-> expr.id]}
        [] OTHER -> UNION {CollectFxUsages(e, proxies) : e \in Range(ExprChildren(expr))}

RECURSIVE ExtractFxUsages(_, _)
ExtractFxUsages(body, proxies) ==
  IF proxies = {} THEN {}
  ELSE UNION {UNION {CollectFxUsages(e, proxies) : e \in Range(StmtExprs(s))}
                \cup ExtractFxUsages(CompoundChildren(s), proxies) : s \in Range(body)}

(***************************************************************************)
(* Patterns that make the static picture of a module incomplete.           *)
(***************************************************************************)
CallsName(expr, names) ==
  expr.kind = "Call" /\ Func(expr).kind = "Name" /\ Func(expr).id \in names
IsDynamicCall(expr) == CallsName(expr, {<<"exec">>, <<"eval">>})
IsGlobalsSubscript(expr) == expr.kind = "Subscript" /\ CallsName(expr.kids[1], {<<"globals">>})
IsTypeMetaclassCall(expr) == CallsName(expr, {<<"type">>}) /\ Len(Args(expr)) >= 3

\* An assignment holds its value first, then its targets.
Value(stmt) == stmt.exprs[1]
Targets(stmt) == Tail(stmt.exprs)

HasExecEvalCall(stmt) == stmt.kind \in {"Expr", "Assign"} /\ IsDynamicCall(Value(stmt))
HasGlobalsInjection(stmt) ==
  stmt.kind \in {"Expr", "Assign"} /\ \E e \in Range(stmt.exprs) : IsGlobalsSubscript(e)
HasTypeMetaclassCreation(stmt) == stmt.kind = "Assign" /\ IsTypeMetaclassCall(Value(stmt))
HasGetattrDefinition(stmt) == IsDef(stmt) /\ stmt.name = <<"__getattr__">>

\* A module name is the sequence of its dotted parts.
IsStdlibModule(module, stdlib) == module # <<>> /\ module[1] \in stdlib
HasNonstdlibStarImport(stmt, stdlib) ==
  stmt.kind = "StarImport" /\ ~IsStdlibModule(stmt.name, stdlib)

DetectDynamicCollection(stmts, stdlib) ==
  \E stmt \in Range(stmts) :
     \/ HasExecEvalCall(stmt)
     \/ HasGlobalsInjection(stmt)
     \/ HasTypeMetaclassCreation(stmt)
     \/ HasGetattrDefinition(stmt)
     \/ HasNonstdlibStarImport(stmt, stdlib)

\* mark.NAME, oxi.mark.NAME and their calls: wider than ExtractMarkName.
ExtractMarkFromValue(expr) ==
  LET attr == Uncalled(expr)
  IN  IF /\ attr.kind = "Attribute"
         /\ \/ attr.kids[1].kind = "Name" /\ attr.kids[1].id = <<"mark">>
            \/ IsMarkNamespace(attr.kids[1])
      THEN attr.id ELSE <<>>

\* The marks of every top-level `oxi_mark` assignment, one or a list.
ModuleMarksOf(stmt) ==
  IF stmt.kind = "Assign" /\ Targets(stmt) = <<Name(<<"oxi_mark">>)>>
  THEN LET values == IF Value(stmt).kind \in {"List", "Tuple"} THEN Value(stmt).kids
                     ELSE <<Value(stmt)>>
       IN  NonEmpty([i \in DOMAIN values |-> ExtractMarkFromValue(values[i])])
  ELSE <<>>
ExtractModuleMarks(stmts) == FlattenSeq([i \in DOMAIN stmts |-> ModuleMarksOf(stmts[i])])

(***************************************************************************)
(* The weight of a test, the static guess of its duration.  In tenths of   *)
(* a millisecond.                                                          *)
(***************************************************************************)
HeavyImportPackages ==
  {"requests", "httpx", "aiohttp", "sqlalchemy", "django", "boto3", "psycopg2", "pymongo",
   "selenium", "playwright"}

HeavyImportWeight(stmts) ==
  IF \E s \in Range(stmts) : /\ s.kind \in {"Import", "ImportFrom", "StarImport"}
                             /\ s.name # <<>> /\ s.name[1] \in HeavyImportPackages
  THEN 200 ELSE 0

\* time.sleep(n) and asyncio.sleep(n); an argument that is no number counts
\* 50 ms.  A number is the text <<"int", n>>.
SleepCallWeight(expr) ==
  IF /\ expr.kind = "Call" /\ Func(expr).kind = "Attribute" /\ Func(expr).id = <<"sleep">>
     /\ Func(expr).kids[1].kind = "Name" /\ Func(expr).kids[1].id \in {<<"time">>, <<"asyncio">>}
  THEN IF /\ Args(expr) # <<>> /\ Args(expr)[1].kind = "Constant"
          /\ Args(expr)[1].id[1] = "int"
       THEN Args(expr)[1].id[2] * 10000 ELSE 500
  ELSE 0

\* Statements of a body outside nested functions, in no particular order.
RECURSIVE OwnStmts(_)
OwnStmts(body) ==
  LET own == SelectSeq(body, LAMBDA s : ~IsDef(s))
  IN  own \o FlattenSeq([i \in DOMAIN own |-> OwnStmts(CompoundChildren(own[i]))])

ComputeBodyWeight(body, async, fixtures, heavy) ==
  LET own == OwnStmts(body)
      sleep(s) == IF s.kind # "Expr" THEN 0
                  ELSE SleepCallWeight(IF Value(s).kind = "Await" THEN Value(s).kids[1] ELSE Value(s))
  IN  20 + FoldLeft(+, 0, [i \in DOMAIN own |-> sleep(own[i])])
         + (IF async THEN 100 ELSE 0) + 30 * fixtures + Len(own) + heavy

(***************************************************************************)
(* The prescan of a test file and of a file that may declare fixtures.  A  *)
(* file that does not parse has no statements to offer.                    *)
(***************************************************************************)
BuildPrescanItem(test, heavy) ==
  LET def == test.def
      fixtures == ExtractFixtureParamNames(def)
  IN  [fn |-> def.name, class |-> test.class, line |-> def.line, async |-> IsAsync(def),
       markers |-> MarkNames(def.decorators),
       dynamicArgs |-> \E d \in Range(def.decorators) : ExtractMarkName(d) # <<>> /\ HasDynamicArgs(d),
       params |-> ExtractParametrizeKwargNames(def.decorators),
       fixtures |-> fixtures,
       uses |-> ExtractFxUsages(def.body, ExtractProxyParamNames(def)),
       weight |-> ComputeBodyWeight(def.body, IsAsync(def), Cardinality(fixtures), heavy)]

\* Deliberately looser than IsFixtureCall: any namespace will do.
HasFixtureShapedDecorator(stmts) ==
  \E s \in Range(stmts) : IsDef(s) /\ \E d \in Range(s.decorators) :
     /\ d.kind = "Call"
     /\ Func(d).kind \in {"Attribute", "Name"} /\ Func(d).id = <<"fixture">>

NoItems == [items |-> <<>>, dynamic |-> FALSE, marks |-> <<>>, fixtureShaped |-> FALSE]
PrescanWithAst(file, stdlib) ==
  IF ~file.parses THEN [verdict |-> "Unavailable", payload |-> NoItems]
  ELSE LET tests == WalkTestDefs(file.stmts)
           heavy == HeavyImportWeight(file.stmts)
       IN  IF tests = <<>> THEN [verdict |-> "NoTests", payload |-> NoItems]
           ELSE [verdict |-> "HasTests",
                 payload |-> [items |-> [i \in DOMAIN tests |-> BuildPrescanItem(tests[i], heavy)],
                              dynamic |-> DetectDynamicCollection(file.stmts, stdlib),
                              marks |-> ExtractModuleMarks(file.stmts),
                              fixtureShaped |-> HasFixtureShapedDecorator(file.stmts)]]

IsFixtureCall(func) ==
  \/ /\ func.kind = "Attribute" /\ func.id = <<"fixture">>
     /\ func.kids[1].kind = "Name" /\ IsOxitestNamespace(func.kids[1].id)
  \/ func.kind = "Name" /\ func.id = <<"fixture">>

\* The lifetime a fixture decorator states as a literal, <<>> for none.
ExtractFixtureDecoratorLifetime(dec) ==
  LET stated == {kw \in Range(dec.keywords) : /\ kw.arg = <<"lifetime">> /\ kw.value.kind = "Constant"
                                              /\ kw.value.id[1] \notin {"int", "None", "..."}}
  IN  IF dec.kind = "Call" /\ IsFixtureCall(Func(dec)) /\ Args(dec) = <<>> /\ stated # {}
      THEN (CHOOSE kw \in stated : TRUE).value.id ELSE <<>>

\* One declaration per decorated top-level function: its first decorator
\* with a lifetime.
CollectDeclarations(stmts) ==
  LET lifetimes(s) == NonEmpty([i \in DOMAIN s.decorators |-> ExtractFixtureDecoratorLifetime(s.decorators[i])])
      declaring == SelectSeq(stmts, LAMBDA s : IsDef(s) /\ lifetimes(s) # <<>>)
  IN  [i \in DOMAIN declaring |->
         [fn |-> declaring[i].name, line |-> declaring[i].line, async |-> IsAsync(declaring[i]),
          lifetime |-> lifetimes(declaring[i])[1]]]

PrescanFixtureModule(file) ==
  IF ~file.parses THEN [verdict |-> "Unavailable", declarations |-> <<>>, decorated |-> FALSE]
  ELSE LET declarations == CollectDeclarations(file.stmts)
       IN  [verdict |-> IF declarations = <<>> THEN "NoFixtures" ELSE "HasFixtures",
            declarations |-> declarations,
            decorated |-> \E s \in Range(file.stmts) : IsDef(s) /\ s.decorators # <<>>]

(***************************************************************************)
(* Strict checks on the same trees: violations by node id and line.        *)
(***************************************************************************)
TestId(path, test) ==
  path \o (IF test.class = <<>> THEN <<>> ELSE <<"::">> \o test.class) \o <<"::">> \o test.def.name

SortedLines(stmts) == SortSeq([i \in DOMAIN stmts |-> stmts[i].line], <)

\* An assert holds its condition and, when it has one, its message.
WalkBareAsserts(body) ==
  SortedLines(SelectSeq(OwnStmts(body), LAMBDA s : s.kind = "Assert" /\ Len(s.exprs) = 1))
WalkValueReturns(body) ==
  SortedLines(SelectSeq(OwnStmts(body), LAMBDA s : s.kind = "Return" /\ s.exprs \notin {<<>>, <<None>>}))

Violations(path, stmts, kind, linesOf(_)) ==
  {[id |-> TestId(path, t), kind |-> kind, lines |-> linesOf(t.def.body)] :
     t \in {u \in Range(WalkTestDefs(stmts)) : linesOf(u.def.body) # <<>>}}

CollectBareAsserts(path, stmts) == Violations(path, stmts, "BareAssert", WalkBareAsserts)
CollectTestReturns(path, stmts) == Violations(path, stmts, "TestReturnsValue", WalkValueReturns)

IsFixtureDecorator(dec) == IsFixtureCall(Uncalled(dec))
CollectModuleDefs(path, stmts) ==
  {[id |-> path \o <<"::">> \o s.name, kind |-> "ModuleLevelDef", lines |-> <<s.line>>] :
     s \in {t \in Range(stmts) :
              /\ IsDef(t) /\ ~IsTestFn(t.name) /\ t.name[1] # "_"
              /\ ~\E d \in Range(t.decorators) : IsFixtureDecorator(d)}}
==============================================================================
