----------------------------- MODULE MCDecisions -----------------------------
(***************************************************************************)
(* The instance TLC checks: the questions it asks, one section for each of *)
(* the modules that state what is owed.                                    *)
(***************************************************************************)
EXTENDS SelectionQuestions, CollectionQuestions, PlanQuestions, InvocationQuestions, DoctestQuestions, BridgeQuestions

CONSTANTS MaxPieces \* pieces of an expression

-----------------------------------------------------------------------------
(* SelectionQuestions: expressions, selections and queries. *)

\* Expressions: a few pieces out of these.
Pieces == {<<"name", "(", ")">>, <<"mark", "(", "slow", ")">>, <<"mark", "(", "~">>, <<"slow", ")">>, <<"(">>, <<")">>, <<"&">>,
           <<"or">>, <<"!">>, <<"'">>, <<" ">>, <<"/">>}
Expressions == UNION {{FlattenSeq(s) : s \in [1..n -> Pieces]} : n \in 0..MaxPieces}
ExpressionQuestions == [about : {"expression"}, input : Expressions]

\* Modules.
Mark(ns, m) == Py!Attribute(Py!Attribute(Py!Name(<<ns>>), <<"mark">>), <<m>>)
BareMark(m) == Py!Attribute(Py!Name(<<"mark">>), <<m>>)
Cases(names) ==
  Py!Call(Py!Attribute(Py!Name(<<"oxi">>), <<"parametrize">>), <<>>,
          [i \in DOMAIN names |-> Py!Keyword(<<names[i]>>, Py!Constant(<<"int", 1>>))])
TestDef(n, decorators) == Py!Def("FunctionDef", <<"test_", n>>, decorators, <<>>, <<>>, 1)
TestClass(n, decorators, body) == Py!Def("ClassDef", <<"Test", n>>, decorators, <<>>, body, 1)
Assigned(value) == Py!Stmt("Assign", <<>>, <<value, Py!Name(<<"oxi_mark">>)>>, <<>>, 1)
Statements ==
  {TestDef("a", <<>>), TestDef("a", <<Mark("oxi", "slow")>>), TestDef("b", <<Cases(<<"x", "y">>)>>),
   TestDef("b", <<BareMark("slow")>>), TestClass("A", <<>>, <<TestDef("a", <<>>), TestDef("b", <<>>)>>),
   TestClass("A", <<Mark("oxi", "slow")>>, <<TestDef("a", <<>>)>>), Assigned(BareMark("slow")),
   Py!Stmt("StarImport", <<"lib">>, <<>>, <<>>, 1), Py!Stmt("Expr", <<>>, <<Py!Call(Py!Name(<<"exec">>), <<>>, <<>>)>>, <<>>, 1)}
Files ==
  [parses : {TRUE}, stmts : UNION {[1..n -> Statements] : n \in 0..2}]
    \cup {[parses |-> FALSE, stmts |-> <<>>]}
Path == <<"t">>
Other == <<"u">>
TargetIds ==
  {Path \o <<"::", "test_", "a">>, Path \o <<"::", "test_", "b", "[", "x", "]">>, Path \o <<"::", "Test", "A">>,
   Path \o <<"::", "*", "b">>, Other \o <<"::", "test_", "a">>}
Texts == {<<>>, <<"mark", "(", "slow", ")">>, <<"!", "mark", "(", "slow", ")">>, <<"name", "(", "a", ")">>, <<"(">>}
FailedIds == {Path \o <<"::", "test_", "a">>, Path \o <<"::", "test_", "b", "[", "y", "]">>}
Selects == S!Selections({s \in SUBSET TargetIds : Cardinality(s) <= 2}, Texts, {{}, FailedIds})
ImportQuestions == [about : {"import"}, path : {Path}, file : Files, sel : Selects]

\* Targets.
Item(m, rest) == [id |-> m \o rest, module |-> m, markers |-> <<>>, async |-> FALSE]
Items ==
  <<Item(Path, <<"::", "test_", "a">>), Item(Path, <<"::", "test_", "b", "[", "x", "]">>),
    Item(Path, <<"::", "test_", "b", "[", "y", "]">>), Item(Other, <<"::", "test_", "a">>),
    Item(Other, <<"::", "Test", "A", "::", "test_", "a">>)>>
Named == TargetIds \cup {Path \o <<"::", "test_", "b">>, Path \o <<"::", "test_">>, Other \o <<"::", "Test", "A">>}
Given(bare, nodeIds) == bare \cup {S!ModulePath(id) : id \in nodeIds}
TargetQuestions ==
  {[about |-> "targets", nodeIds |-> t, bare |-> b,
    items |-> SelectSeq(Items, LAMBDA i : i.module \in Given(b, t))] :
     t \in SUBSET Named, b \in SUBSET {Path, Other}}

\* Display: verbatim prefixes, trailing separators, a sibling directory.
Bases == {<<"/", "w">>, <<"/", "w", "/">>, <<S!Verbatim, "w">>, <<S!Verbatim, "w", "\\">>, <<>>}
Ids == {<<"/", "w", "/", "t", "::", "test_">>, <<"/", "w", "2", "/", "t", "::", "test_">>, <<"/", "w", "::", "test_">>,
        <<S!Verbatim, "w", "\\", "t", "::", "test_">>, <<"/", "w", "/", "t">>, <<"w", "\\", "t", "::", "test_">>}
DisplayQuestions == [about : {"display"}, id : Ids, base : Bases]

\* Packages.
Dirs == {<<"p">>, <<"p", "/", "q">>, <<"p", "2">>, <<"r">>}
Modules == {d \o <<"/", "t">> : d \in Dirs}
PackageQuestions ==
  [about : {"packages"}, modules : UNION {SetToSeqs(m) : m \in SUBSET Modules}, dirs : SUBSET Dirs]

\* Orders.
OrderQuestions == [about : {"order"}, items : SetToSeqs(Range(Items)), failed : SUBSET {i.id : i \in Range(Items)}]

\* Queries: a file of lines, one statement a line, and a session.
AssertAt(n) == Py!Stmt("Assert", <<>>, <<Py!Name(<<"x">>)>>, <<>>, n)
Fn(n, line, decorators) == Py!Def("FunctionDef", <<"test_", n>>, decorators, <<>>, <<AssertAt(line + 1)>>, line)
Sources ==
  {<<Fn("a", 2, <<Mark("oxi", "slow")>>), Fn("b", 5, <<>>)>>,
   <<Py!Def("ClassDef", <<"Test", "A">>, <<>>, <<>>, <<Fn("a", 2, <<>>), Fn("b", 6, <<Mark("oxi", "slow")>>)>>, 1),
     Fn("c", 9, <<>>), Py!Stmt("Expr", <<>>, <<>>, <<>>, 11)>>}
Lines == <<"l1", "l2", "l3", "", "l5", "l6", "l7", "", "l9", "l10", "l11">>
QueryFiles ==
  {<<[path |-> Path, parses |-> p, stmts |-> s, lines |-> Lines]>> : p \in BOOLEAN, s \in Sources}
Deps == <<[id |-> Path \o <<"::", "test_", "a", "[", "x", "]">>, fixtures |-> <<"slow">>]>>
Session(fails) ==
  [open |-> TRUE, fails |-> fails, deps |-> Deps,
   fixtures |-> <<[name |-> <<"a">>, lifetime |-> <<"test">>]>>, plugins |-> <<>>]
QueryTexts == {<<>>, <<"mark", "(", "slow", ")">>, <<"uses", "(", ")">>, <<"name", "(", "a", ")">>, <<"!", "name", "(", "a", ")">>,
               <<"used_in", "(", "t", ")">>, <<"(">>}
QueryArgs ==
  {a \in [resource : {"tests", "fixtures", "marks", "plugins"}, given : BOOLEAN, expression : QueryTexts,
           detail : {<<>>, <<"a">>, <<"b">>, <<"c">>, <<"z">>}, count : BOOLEAN, jsonl : BOOLEAN, fzf : BOOLEAN, tty : BOOLEAN] :
     (a.given \/ a.expression = <<>>) /\ (a.count => ~a.jsonl) /\ (a.fzf => ~a.count /\ ~a.jsonl /\ a.detail = <<>>)}
QueryQuestions ==
  [about : {"query"}, args : QueryArgs, files : QueryFiles, session : {Session(FALSE), Session(TRUE)},
   registered : {{<<"b">>}}]

\* Offsets and colours.
Texts3 == UNION {[1..n -> {"x", "\n"}] : n \in 0..4}
OffsetQuestions == {[about |-> "offset", source |-> s, offset |-> o] : s \in Texts3, o \in 0..5}
ColourSources == <<"@", "n", " ", "k", "s">>
TokenKinds == [1..3 -> {"at", "name", "keyword", "string", "error"}]
ColourQuestions ==
  {[about |-> "colour", source |-> ColourSources,
    tokens |-> <<[kind |-> k[1], start |-> 1, end |-> 1], [kind |-> k[2], start |-> 2, end |-> 2],
                 [kind |-> k[3], start |-> 4, end |-> e]>>] : k \in TokenKinds, e \in 4..5}

SelectionAsked ==
  ExpressionQuestions \cup ImportQuestions \cup TargetQuestions \cup DisplayQuestions \cup PackageQuestions
    \cup OrderQuestions \cup QueryQuestions \cup OffsetQuestions \cup ColourQuestions

-----------------------------------------------------------------------------
(* CollectionQuestions: trees of files, caches and changes. *)

MCNames == <<"__fixtures__.py", "__init__.py", "other", "other2", "p", "q", "r", "test_a.py", "test_b.py", "u.py">>

SourceFile(parses, stmts, imports, declares) ==
  [parses |-> parses, stmts |-> stmts, imports |-> imports, declares |-> declares, violations |-> {}]
PyFile(stmts) == SourceFile(TRUE, stmts, TRUE, <<>>)
ACall(ns, kws) == C!Py!Call(C!Py!Attribute(C!Py!Name(<<ns>>), <<"fixture">>), <<>>, kws)
Fixture(life) ==
  C!Py!Def("FunctionDef", <<"db">>,
           <<ACall("oxi", <<C!Py!Keyword(<<"lifetime">>, C!Py!Constant(<<life>>))>>)>>, <<>>, <<>>, 1)
Aliased == C!Py!Def("FunctionDef", <<"db">>, <<ACall("alias", <<>>)>>, <<>>, <<>>, 1)
ATest(n) == C!Py!Def("FunctionDef", <<"test_", n>>, <<>>, <<>>,
                     <<C!Py!Stmt("Assert", <<>>, <<C!Py!Name(<<"x">>)>>, <<>>, 2)>>, 1)
Declared(life) == <<[fn |-> <<"db">>, line |-> 1, async |-> FALSE, lifetime |-> <<life>>]>>

\* The walk: files at three depths, roots that are files, directories or
\* one inside the other.
WalkRoots == {<<"r">>, <<"r", "p">>, <<"r", "p", "q">>, <<"r", "p", "test_a.py">>, <<"r", "p", "u.py">>, <<"other">>}
WalkFiles == {<<"r", "test_b.py">>, <<"r", "p", "test_a.py">>, <<"r", "p", "u.py">>, <<"r", "p", "q", "test_b.py">>,
              <<"r", "p", "q", "test_a.py">>}
Config == [rootdir |-> <<"r">>, testpaths |-> <<>>, declared |-> <<>>, pythonFiles |-> {"test_a.py", "test_b.py"},
           norecurse |-> {}, gitignored |-> {}, useGitignore |-> TRUE, badGlob |-> FALSE, doctestRoots |-> <<>>,
           strict |-> "none", registered |-> {}]
WalkQuestions ==
  [about : {"walk"}, tree : {[f \in present |-> PyFile(<<>>)] : present \in {WalkFiles, WalkFiles \ {<<"r", "p", "test_a.py">>}}},
   cfg : {[Config EXCEPT !.testpaths = roots, !.norecurse = no, !.gitignored = ign, !.useGitignore = use] :
     roots \in [1..2 -> WalkRoots], no \in {{}, {"q"}, {"p"}},
     ign \in {{}, {<<"r", "p", "q">>}, {<<"r", "p", "test_a.py">>}, {<<"r">>}}, use \in BOOLEAN}]

\* Collections: homes in three nested directories, two test files.
HomeCases ==
  {SourceFile(TRUE, <<Fixture("package")>>, TRUE, Declared("package")),
   SourceFile(TRUE, <<Fixture("process")>>, TRUE, Declared("process")),
   SourceFile(TRUE, <<Fixture("package")>>, FALSE, <<>>),
   SourceFile(TRUE, <<Aliased>>, TRUE, Declared("package")),
   SourceFile(FALSE, <<>>, FALSE, <<>>), PyFile(<<>>)}
TestCases == {PyFile(<<ATest("a")>>), PyFile(<<ATest("b")>>), PyFile(<<ATest("a"), Aliased>>), PyFile(<<>>),
              SourceFile(FALSE, <<>>, FALSE, <<>>), SourceFile(TRUE, <<ATest("a")>>, FALSE, <<>>)}
InP == <<"r", "p", "test_a.py">>
InQ == <<"r", "p", "q", "test_b.py">>
InR == <<"r", "test_b.py">>
HomeSets ==
  {(<<"r", "p", "__fixtures__.py">> :> h) @@ (<<"r", "__init__.py">> :> i)
     @@ (IF deep THEN <<"r", "p", "q", "__init__.py">> :> h ELSE <<"r", "p", "__init__.py">> :> i) :
     h \in HomeCases, i \in HomeCases \ {PyFile(<<>>)}, deep \in BOOLEAN}
CollectQuestions ==
  [about : {"collect"}, files : {<<InP, InQ>>, <<InQ, InP>>}, path : {InP},
   before : {PyFile(<<ATest("a")>>)}, after : TestCases, rest : {(InQ :> PyFile(<<ATest("a")>>)) @@ h : h \in HomeSets},
   cfg : {[Config EXCEPT !.declared = d] : d \in {<<>>, <<<<"r">>>>, <<<<"r", "p", "q">>, <<"other">>>>}},
   strict : {"none", "abort"}, plugins : {{}, {<<"r", "p">>}}]

\* Changes: two test files, their imports, and what changed.
Imports(parts) == C!Py!Stmt("ImportFrom", parts, <<>>, <<>>, 1)
TestA == <<"r", "p", "test_a">>
TestB == <<"r", "q", "test_b">>
Changes == {A!Changed(<<"p", "test_a">>, "py"), A!Changed(<<"p", "__fixtures__">>, "py"), A!Changed(<<"__init__">>, "py"),
            A!Changed(<<"lib", "x">>, "py"), A!Changed(<<"lib", "y", "__init__">>, "py"), A!Changed(<<"pyproject">>, "toml"),
            A!Changed(<<"README">>, "md")}
AffectedQuestions ==
  [about : {"affected"}, tests : {<<TestA, TestB>>},
   tree : {(TestA :> a) @@ (TestB :> b) :
             a \in {PyFile(<<>>), PyFile(<<Imports(<<"lib", "x">>)>>), SourceFile(FALSE, <<>>, FALSE, <<>>)},
             b \in {PyFile(<<Imports(<<"lib">>)>>), PyFile(<<Imports(<<"liberty">>)>>), PyFile(<<Imports(<<"lib", "z">>)>>)}},
   git : {g \in [root : {<<"r">>}, locates : BOOLEAN, inRepo : BOOLEAN, compares : BOOLEAN,
                 changed : UNION {[1..n -> Changes] : n \in 0..2}] : g.locates => g.inRepo}]

CollectionAsked == WalkQuestions \cup CollectQuestions \cup AffectedQuestions

-----------------------------------------------------------------------------
(* PlanQuestions: the layout of a run. *)

ModuleA == <<"p", "/", "t">>
ModuleB == <<"p", "/", "q", "/", "t">>
ModuleC == <<"r", "/", "t">>

\* What a test asks for: the main process, fixtures f and g, the spelling F of f.
Kinds == {[inprocess |-> FALSE, deps |-> <<>>], [inprocess |-> TRUE, deps |-> <<>>],
          [inprocess |-> FALSE, deps |-> <<"f">>], [inprocess |-> FALSE, deps |-> <<"h", "g", "f">>]}
PlanItem(m, n, k) == [id |-> m \o <<"::", n>>, module |-> m, inprocess |-> k.inprocess, deps |-> k.deps]
GroupsOf(ks) ==
  <<P!Group(ModuleA, <<PlanItem(ModuleA, "a", ks[1]), PlanItem(ModuleA, "b", ks[2])>>),
    P!Group(ModuleB, <<PlanItem(ModuleB, "a", ks[3])>>),
    P!Group(ModuleC, <<PlanItem(ModuleC, "a", ks[4]), PlanItem(ModuleC, "b", ks[5])>>)>>
Entry(ms, outcome) == [P!NewEntry EXCEPT !.duration = ms, !.last_outcome = outcome]
CacheOf(timings) == [timings |-> timings, dirty |-> FALSE]
Layout == [mode |-> [kind |-> "parallel", workers |-> 2], cpus |-> 2, estimated |-> 0, overhead |-> 10, minTests |-> 4,
           declaring |-> {}, dirs |-> {}, components |-> <<>>, display |-> [n \in {} |-> ""], maxWorkers |-> 2]
Shown == [n \in {"i"} |-> "h"]

\* Where the tests go.
PlaceQuestions ==
  [about : {"plan"}, groups : {GroupsOf(ks) : ks \in [1..5 -> Kinds]},
   c : {[Layout EXCEPT !.declaring = m, !.dirs = d, !.components = f, !.display = Shown] :
          m \in {{}, {ModuleA, ModuleC}}, d \in {{}, {<<"p">>, <<"p", "/", "q">>}, {<<"p", "/", "q">>}},
          f \in {<<>>, <<{"f"}, {"g", "i"}>>}},
   cache : {CacheOf(P!NoTimings)}, astMs : {P!Unknown}, strategy : {"longest_first"}]

\* Serial or parallel, and in which order.
PlainGroups == GroupsOf([k \in 1..5 |-> [inprocess |-> FALSE, deps |-> <<>>]])
PlainIds == {ModuleA \o <<"::", "a">>, ModuleB \o <<"::", "a">>, ModuleC \o <<"::", "b">>}
Caches ==
  UNION {{CacheOf(f) : f \in [ids -> {Entry(5, "passed"), Entry(25, "failed"), Entry(40, "flaky")}]} : ids \in SUBSET PlainIds}
OrderedQuestions ==
  [about : {"plan"}, groups : {PlainGroups},
   c : {[Layout EXCEPT !.mode = m, !.cpus = n, !.overhead = o, !.minTests = t, !.maxWorkers = 3] :
          m \in {[kind |-> "serial", workers |-> 0], [kind |-> "debug", workers |-> 0], [kind |-> "parallel", workers |-> 0],
                 [kind |-> "parallel", workers |-> 1], [kind |-> "parallel", workers |-> 3]},
          n \in 1..2, o \in {0, 10}, t \in 5..6},
   cache : Caches, astMs : {P!Unknown, 50}, strategy : {"longest_first", "failed_first", "random"}]

TimeoutQuestions ==
  [about : {"timeout"}, item : {PlanItem(ModuleA, "a", [inprocess |-> FALSE, deps |-> <<>>])},
   cache : {CacheOf(P!NoTimings)} \cup {CacheOf([i \in {ModuleA \o <<"::", "a">>} |-> Entry(ms, "passed")]) :
                                           ms \in {0, 1, 999, 1000, 1001, 2500}},
   global : {P!Unknown, 1, 2, 5}, tenths : {P!Unknown, 5, 10, 15, 30}]

PlanAsked == PlaceQuestions \cup OrderedQuestions \cup TimeoutQuestions

-----------------------------------------------------------------------------
(* InvocationQuestions: command lines and configuration files. *)

Piece(tokens, says) == [plugin |-> FALSE, tokens |-> tokens, says |-> says]
Options ==
  {Piece(<<I!Flag("-x")>>, "maxfail" :> 1),
   Piece(<<I!Flag("--maxfail"), I!Word(<<"2">>)>>, "maxfail" :> 2),
   Piece(<<I!FlagWith("--maxfail", <<"0">>)>>, "maxfail" :> 0),
   Piece(<<I!Flag("--serial")>>, "serial" :> TRUE),
   Piece(<<I!Flag("-n"), I!Word(<<"3">>)>>, "workers" :> 3),
   Piece(<<I!Flag("-n"), I!Word(<<"auto">>)>>, "workers" :> I!Auto),
   Piece(<<I!Flag("--tb"), I!Word(<<"no">>)>>, "tb" :> "no"),
   Piece(<<I!FlagWith("--color", <<"never">>)>>, "color" :> "never"),
   Piece(<<I!Flag("--show-locals")>>, "show_locals" :> TRUE),
   Piece(<<I!Flag("--strict")>>, "strict" :> "abort"),
   Piece(<<I!FlagWith("--strict", <<"off">>)>>, "strict" :> "off"),
   Piece(<<I!Flag("--lf")>>, "failed" :> "only"),
   Piece(<<I!Flag("--failed"), I!Word(<<"first">>)>>, "failed" :> "first"),
   Piece(<<I!Flag("-v")>>, "verbosity" :> "detailed"),
   Piece(<<I!Flag("-v"), I!Flag("-v")>>, "verbosity" :> "full"),
   Piece(<<I!FlagWith("--verbose", <<"normal">>)>>, "verbosity" :> "normal"),
   Piece(<<I!Flag("--affected")>>, "affected" :> ""),
   Piece(<<I!FlagWith("--affected", <<"main">>)>>, "affected" :> "main"),
   Piece(<<I!Flag("--timeout"), I!Word(<<"3">>)>>, "timeout" :> 3),
   Piece(<<I!FlagWith("--durations", <<"1">>)>>, "durations" :> 1),
   Piece(<<I!Flag("--always")>>, "always" :> TRUE),
   Piece(<<I!Flag("--json"), I!Word(<<"out">>)>>, <<>>),
   Piece(<<I!Flag("--no-use-gitignore")>>, <<>>),
   Piece(<<I!Flag("--version")>>, <<>>),
   Piece(<<I!Flag("--help")>>, <<>>),
   Piece(<<I!Flag("--bogus")>>, <<>>)}
Targets ==
  {Piece(<<I!Word(text)>>, <<>>) :
     text \in {<<"t.py">>, <<"sub">>, <<"gone">>, <<"t.py", "::", "a">>, <<"sub", "/", "u.py", "::", "a">>,
               <<"*", "::", "a">>, <<"tests">>}}
CorePieces == Options \cup Targets

PluginPiece(tokens, field, text) == [plugin |-> TRUE, tokens |-> tokens, says |-> ("infra" :> (field :> text))]
Host == <<"--", "infra", "-", "host">>
PluginPieces ==
  {PluginPiece(<<[I!Flag("") EXCEPT !.name = Host], I!Word(<<"h">>)>>, "host", <<"h">>),
   PluginPiece(<<[I!FlagWith("", <<"h">>) EXCEPT !.name = Host]>>, "host", <<"h">>),
   PluginPiece(<<I!Flag("-H"), I!Word(<<"h">>)>>, "host", <<"h">>),
   PluginPiece(<<[I!Flag("") EXCEPT !.name = <<"--", "infra", "-", "dry">>]>>, "dry", <<"true">>),
   PluginPiece(<<[I!Flag("") EXCEPT !.name = <<"--", "infra", "-", "port">>], I!Word(<<"2">>)>>, "port", <<"2">>)}

\* Two pieces that speak of one setting are a conflict, or clap's to refuse.
Apart(p, q) == DOMAIN p.says \cap DOMAIN q.says = {} /\ p # q
Pairs == {<<p, q>> \in CorePieces \X CorePieces : Apart(p, q)}

-----------------------------------------------------------------------------
W == <<"/", "w">>
InW(text) == W \o <<"/">> \o text
OnDisk == {W, InW(<<"t.py">>), InW(<<"sub">>), InW(<<"sub", "/", "u.py">>), InW(<<"tests">>),
           InW(<<"sub", "/", "t.py">>)}
Field(name, short, type) == [name |-> name, source |-> "Both", short |-> short, type |-> type]
InfraFields(short) == <<Field("host", {short}, "string"), Field("dry", {}, "bool"), Field("port", {}, "int"),
                        [Field("conf", {}, "string") EXCEPT !.source = "Conf"]>>
Infra(prefix, short) == [prefix |-> prefix, fields |-> InfraFields(short)]
Project(pyproject, modules) ==
  [cwd |-> W, onDisk |-> OnDisk, files |-> {p \in OnDisk : Last(p) \in {"t.py", "u.py"}},
   markers |-> DOMAIN pyproject, pyproject |-> pyproject, modules |-> modules, inspects |-> TRUE]
Present(table) == [state |-> "present", table |-> table]

PlainTable == "tb" :> "line"
FullTable ==
  [testpaths |-> <<<<"tests">>>>, maxfail |-> 2, serial |-> TRUE, workers |-> 2, tb |-> "line",
   strict |-> "enforce", failed |-> "only", timeout |-> 2, durations |-> 2, verbosity |-> "full",
   affected_base |-> "dev", color |-> "always", show_locals |-> TRUE]
WithPlugins == [plugins |-> <<"infra", "other">>, serial |-> TRUE, maxfail |-> 3,
                plugin_settings |-> ("infra" :> ("cli_prefix" :> "infra"))]
PluginModules == "infra" :> Infra("inf", "-H") @@ "other" :> Infra("other", "-O")

Outside == Project(<<>>, <<>>)
PlainProject == Project(W :> Present(PlainTable), <<>>)
Full == Project(W :> Present(FullTable), <<>>)
Nested == [Project(W :> Present(FullTable) @@ InW(<<"sub">>) :> Present(PlainTable), <<>>) EXCEPT !.cwd = W]
Below == [Full EXCEPT !.cwd = InW(<<"sub">>)]
Plugged == Project(W :> Present(WithPlugins), PluginModules)
Clashing == Project(W :> Present(WithPlugins), "infra" :> Infra("inf", "-H") @@ "other" :> Infra("infra", "-O"))
Refusing(state) == Project(W :> [state |-> state, table |-> WithPlugins], PluginModules)

InvocationAsked ==
  [about : {"invocation"}, sub : {"none", "run", "debug"}, pieces : Pairs, project : {Full, Plugged}]
    \cup [about : {"invocation"}, sub : {"none", "run", "debug", "query", "env", "inspect", "fixtures"},
          pieces : {<<>>} \cup {<<p>> : p \in CorePieces},
          project : {Outside, PlainProject, Nested, Below, Clashing} \cup {Refusing(s) : s \in {"broken", "legacy", "invalid", "absent"}}]
    \cup [about : {"invocation"}, sub : {"none", "run", "debug", "query"},
          pieces : UNION {{<<p, x>>, <<x, p>>, <<t, x, p>>, <<x, y, p>>} :
                            p \in CorePieces, t \in {q \in Targets : q.tokens[1].name # <<"gone">>},
                            x \in PluginPieces, y \in {q \in PluginPieces : Len(q.tokens) = 1}},
          project : {Plugged}]

-----------------------------------------------------------------------------
(* DoctestQuestions: a package p with a module m and a private module
   _i, a module u in a directory s that is no package, and a test file. *)

DocLines == {<<>>, <<"w">>, <<">>>", "x">>, <<"...", "y">>, <<"Examples:">>}
DocstringQuestions == [about : {"docstring"}, lines : UNION {[1..n -> DocLines] : n \in 0..4}]

EntryPaths == UNION {[1..n -> {"/", "..", "p", ".py"}] : n \in 0..4}
EntryChains == {<<>>, <<"::">>, <<"::", "f">>, <<"::", "f", "::">>, <<"::", "::", "f">>, <<"::", "f", "::", "f">>,
                <<"::", "f", "::", "f", "::", "f">>}
EntryQuestions == [about : {"entry"}, text : {p \o c : p \in EntryPaths, c \in EntryChains}]

NameF == <<"f">>
NameG == <<"_", "g">>
PkgInit == <<<<"p">>, D!InitFile>>
PkgM == <<<<"p">>, <<"m", ".py">>>>
PkgI == <<<<"p">>, <<"_", "i", ".py">>>>
LooseU == <<<<"s">>, <<"u", ".py">>>>
TestFile == <<<<"p">>, <<"test_", "m", ".py">>>>
DottedM == <<"p", ".", "m">>
DottedI == <<"p", ".", "_", "i">>

DocText(lines) == D!Py!Stmt("Expr", <<>>, <<D!Str(<<>>, lines)>>, <<>>, 1)
Pass == D!Py!Stmt("Pass", <<>>, <<>>, <<>>, 1)
Stub == D!Py!Stmt("Expr", <<>>, <<D!Py!Constant(<<"...">>)>>, <<>>, 1)
FullDoc == DocText(<<<<"Examples:">>, <<">>>", "x">>>>)
DocBodies == {<<Pass>>, <<DocText(<<<<"Examples:">>>>), Pass>>, <<FullDoc>>}
FnDef(name, body, line) == D!Py!Def("FunctionDef", name, <<>>, <<>>, body, line)
ClsDef(name, body, line) == D!Py!Def("ClassDef", name, <<>>, <<>>, body, line)
Binding(name, value) == D!Py!Stmt("Assign", <<>>, <<value, D!Py!Name(name)>>, <<>>, 1)
Exports(names) == Binding(D!DunderAll, D!Py!Expr("List", <<>>, [i \in DOMAIN names |-> D!Str(names[i], <<>>)]))
FromImport(module, name, asname) == D!Py!Stmt("ImportFrom", module, <<D!Alias(name, asname)>>, <<>>, 1)
Relative(name) == D!Py!Stmt("RelativeImport", <<>>, <<D!Alias(name, <<>>)>>, <<>>, 1)
Parsed(stmts) == [parses |-> TRUE, stmts |-> stmts]
Broken == [parses |-> FALSE, stmts |-> <<>>]

MFiles ==
  {Parsed(<<FnDef(NameF, b, 3)>>) : b \in DocBodies}
    \cup {Parsed(<<FnDef(NameF, <<Stub>>, 2), FnDef(NameF, b, 4), FnDef(NameG, <<Pass>>, 6)>>) : b \in DocBodies}
    \cup {Parsed(<<ClsDef(<<"C">>, <<FullDoc, FnDef(NameF, b, 4), FnDef(NameG, <<Stub>>, 5)>>, 2)>>) : b \in DocBodies}
    \cup {Parsed(<<Binding(NameF, v), FnDef(NameG, b, 3)>>) :
            b \in DocBodies, v \in {D!Py!Name(NameG), D!Py!Call(D!Py!Name(NameG), <<>>, <<>>), D!Py!Constant(<<"1">>)}}
    \cup {Parsed(<<FullDoc, FnDef(NameF, <<Stub>>, 2)>>), Broken,
          Parsed(<<Exports(<<NameF>>), FromImport(DottedI, NameF, <<>>)>>),
          Parsed(<<Exports(<<NameF>>), FromImport(DottedI, NameG, <<NameF>>)>>)}
IFiles ==
  {Parsed(<<FnDef(NameF, b, 3)>>) : b \in {<<Pass>>, <<FullDoc>>}}
    \cup {Parsed(<<FromImport(DottedM, NameF, <<>>)>>), Parsed(<<FnDef(NameG, <<Pass>>, 5)>>)}
InitFiles ==
  {Parsed(<<>>), Parsed(<<Relative(NameF), Exports(<<NameF>>)>>)}
    \cup {Parsed(<<FromImport(m, NameF, <<>>), Exports(<<NameF>>)>>) : m \in {DottedM, DottedI, <<"p">>, <<"q">>, <<"u">>}}
UFile == Parsed(<<Binding(NameF, D!Py!Name(<<"h">>)), FnDef(<<"h">>, <<Pass>>, 3)>>)
ProjectOf(init, m, i) ==
  [order |-> <<<<"p">>, <<"s">>>>,
   files |-> (PkgInit :> init) @@ (PkgM :> m) @@ (PkgI :> i) @@ (LooseU :> UFile) @@ (TestFile :> Parsed(<<FnDef(NameF, <<Pass>>, 1)>>))]

EntryOf(text) == D!ParseScopeEntryStr(text)
MText == <<"p", "/", "m", ".py">>
InitText == <<"p", "/", "_", "_init__", ".py">>
IText == <<"p", "/", "_", "i", ".py">>
ScopeLists ==
  {<<EntryOf(a), EntryOf(b)>> :
     a \in {MText \o <<"::", "f">>, MText, <<"p", "/">>, InitText \o <<"::", "f">>},
     b \in {MText \o <<"::", "C", "::", "f">>, MText \o <<"::", "C", "::", "_", "g">>, MText \o <<"::", "z">>, IText \o <<"::", "f">>,
            <<"q", "/">>, <<"s", "/", "u", ".py", "::", "f">>}}
AuditCfg ==
  [table |-> TRUE, scope |-> D!Public, skip |-> <<>>, roots |-> <<>>, declared |-> <<>>, strict |-> "enforce",
   norecursedirs |-> {<<"build">>}, testNames |-> {<<"test_", "m", ".py">>}]
PublicCfgs ==
  {AuditCfg} \cup {[AuditCfg EXCEPT !.skip = <<EntryOf(e)>>] : e \in {MText \o <<"::", "f">>, <<"s", "/">>, IText \o <<"::", "f">>}}
SeverityCfgs ==
  {[AuditCfg EXCEPT !.strict = s, !.table = t, !.roots = r] :
     s \in {"none", "off", "enforce", "abort"}, t \in BOOLEAN, r \in {<<>>, <<<<<<"q">>>>>>}}
ListCfgs ==
  {[AuditCfg EXCEPT !.declared = d, !.scope = s] :
     d \in {<<>>, <<<<<<"p">>>>>>}, s \in {D!Listed(l) : l \in ScopeLists} \cup {D!Listed(<<>>)}}
PlainI == Parsed(<<FnDef(NameF, <<Pass>>, 3)>>)
AuditQuestions ==
  [about : {"audit"}, project : {ProjectOf(n, m, i) : n \in InitFiles, m \in MFiles, i \in IFiles}, cfg : PublicCfgs]
    \cup [about : {"audit"}, project : {ProjectOf(Parsed(<<>>), m, PlainI) : m \in MFiles}, cfg : SeverityCfgs]
    \cup [about : {"audit"}, cfg : ListCfgs,
          project : {ProjectOf(n, m, PlainI) : n \in {Parsed(<<FromImport(k, NameF, <<>>), Exports(<<NameF>>)>>) : k \in {DottedM, DottedI}}, m \in MFiles}]
DoctestFileQuestions == [about : {"doctests"}, project : {ProjectOf(Parsed(<<FullDoc>>), m, i) : m \in MFiles, i \in IFiles}]

DoctestAsked == DocstringQuestions \cup EntryQuestions \cup AuditQuestions \cup DoctestFileQuestions

-----------------------------------------------------------------------------
(* BridgeQuestions: items, results, diagnostics and fixture accesses. *)

CollectedItems ==
  [fn : {"f", "g"}, lineno : {3}, param_id : {{}, {<<>>}, {<<"a">>}},
   markers : {<<>>, <<"slow", "skip">>, <<"inprocess", "slow", "slow", "timeout", "xfail">>},
   is_async : {FALSE}, fixture_deps : {<<>>}, fixref_deps : {<<>>},
   arranged : {<<>>, <<[class |-> TRUE, name |-> "T"], [class |-> FALSE, name |-> "t"]>>}]
Reached == [raises : {{}}, items : {<<>>} \cup {<<i, j>> : i, j \in CollectedItems},
            violations : {<<>>, <<[kind |-> "bare_assert"], [kind |-> "unused_fixture"]>>}]
Unreached == [raises : {{[class |-> c, message |-> "m"]} : c \in {"CollectionError", "SyntaxError"}}, items : {<<>>},
              violations : {<<>>}]
RunOptions == [timeout : {{}, {5}}, keep_tmp : {"cleanup"}, debug_mode : {{}}, show_locals : BOOLEAN, show_internals : BOOLEAN]
QuietOptions == [timeout |-> {}, keep_tmp |-> "cleanup", debug_mode |-> {}, show_locals |-> FALSE, show_internals |-> FALSE]
FewItems == {i \in CollectedItems : i.fn = "f" /\ i.arranged = <<>>}
ModuleQuestions ==
  [about : {"module"}, path : {"a.py"}, opts : {QuietOptions}, module : Reached \cup Unreached]
    \cup [about : {"module"}, path : {"a.py"}, opts : RunOptions,
          module : [raises : {{}}, items : {<<i>> : i \in FewItems}, violations : {<<>>}]]

Blank == {<<>>, <<"m">>}
TipLines == {<<>>, <<2>>, <<2, 9>>}
OneFrame == [file |-> <<"t">>, lineno |-> 4, name |-> <<"f">>, line |-> <<>>, locals |-> <<<<"x", "1">>>>]
SomeFrames == {<<>>, <<OneFrame>>, <<[OneFrame EXCEPT !.locals = <<>>], OneFrame>>}
Returned ==
  [status : {"passed"}, no_message_lines : TipLines]
    \cup [status : {"warned"}, message : Blank, no_message_lines : TipLines]
    \cup [status : {"xpassed"}, strict : BOOLEAN]
    \cup [status : {"skipped", "xfailed", "timeout"}, message : Blank]
    \cup [status : {"error"}, message : Blank, file : Blank, lineno : {0, 7}, source_line : Blank, frames : SomeFrames,
          usage_error : BOOLEAN]
    \cup [status : {"failed"}, message : Blank, file : Blank, lineno : {0, 7}, source_line : Blank, frames : SomeFrames,
          left : Blank, right : Blank, op : Blank, field_diffs : {<<>>, <<<<"k", "1", "2">>>>}, no_message_lines : TipLines]
ResultQuestions ==
  [about : {"result"}, id : {"a.py::f"},
   run : [raises : {{}}, result : Returned]
           \cup [raises : {{[message |-> "m", usage |-> u]} : u \in BOOLEAN}, result : {[status |-> "passed", no_message_lines |-> <<>>]}]]

\* Lines of this version, of a newer one, of an older one, and stray ones.
FullLine(outcome) == [type |-> "result", node_id |-> "a.py::f", outcome |-> outcome, duration_ms |-> 1, protocol_version |-> Br!ProtocolVersion]
Without(line, key) == [k \in DOMAIN line \ {key} |-> line[k]]
DiagnosticLine == [type |-> "diagnostic", severity |-> "error", context |-> "c", message |-> <<"m">>]
WorkerLines ==
  {FullLine(s) : s \in {"passed", "error", "failed", "xpassed", "quarantined"}}
    \cup {[FullLine(s) EXCEPT !.protocol_version = v] : s \in {"passed", "quarantined"}, v \in {7, 9}}
    \cup {Without(FullLine("passed"), k) : k \in {"type", "node_id", "outcome", "duration_ms", "protocol_version"}}
    \cup {FullLine("error") @@ [k \in {"usage_error"} |-> TRUE], DiagnosticLine, Without(DiagnosticLine, "message"),
          [type |-> "heartbeat"], <<>>}
LineQuestions == [about : {"lines"}, lines : UNION {[1..n -> WorkerLines] : n \in 0..3}]

Diagnosed == [severity : {"error", "warning", "notice"}, context : {"c"}, message : {<<"m">>}, file : {<<>>, <<"f">>}, lineno : {0, 3}]
FewDiagnosed == {d \in Diagnosed : d.file = <<>> <=> d.lineno = 0}
DiagnosticQuestions ==
  [about : {"diagnostics"}, before : UNION {[1..n -> Diagnosed] : n \in 0..2}, after : UNION {[1..n -> FewDiagnosed] : n \in 0..1}]

(***************************************************************************)
(* A package t/a and a directory t/b with a test module each.              *)
(***************************************************************************)
PackagedModule == <<"t", "a", "test_a">>
LooseModule == <<"t", "b", "test_b">>
FixtureDeclared(name, anchor, namespace, inline) ==
  [name |-> name, anchor |-> anchor, namespace |-> namespace, inline |-> inline, autouse |-> FALSE, conftest |-> anchor = {}, deps |-> {}]
Declarations ==
  UNION {{FixtureDeclared(n, {<<"t">>}, {"t"}, FALSE), FixtureDeclared(n, {<<"t", "a">>}, {"a"}, FALSE),
          FixtureDeclared(n, {PackagedModule}, {"test_a"}, TRUE), FixtureDeclared(n, {LooseModule}, {"test_b"}, TRUE),
          FixtureDeclared(n, {}, {}, FALSE), FixtureDeclared(n, {}, {"a"}, FALSE)} : n \in {"conn", "a", "test_b"}}
Registries ==
  {r \in UNION {[1..n -> Declarations] : n \in 0..2} :
     \A i, j \in DOMAIN r : i # j => r[i].name # r[j].name \/ r[i].namespace # r[j].namespace}
Segments == <<{}, {"t"}, {"a"}, {"test_a"}, {"test_b"}, {"oxi"}, {"conn"}, {"zz"}>>
Leaves == <<"conn", "a", "test_b">>
Accesses == [i \in 1..Len(Segments) * Len(Leaves) |->
  [namespace |-> Segments[((i - 1) \div Len(Leaves)) + 1], name |-> Leaves[((i - 1) % Len(Leaves)) + 1], lineno |-> i]]
AccessQuestions ==
  [about : {"access"}, registry : Registries, usages : {(PackagedModule :> Accesses) @@ (LooseModule :> Accesses)},
   collected : {{PackagedModule}, {LooseModule}, {PackagedModule, LooseModule}}, paths : {<<PackagedModule, LooseModule>>}]

Shared(name, autouse, conftest, deps) ==
  [name |-> name, anchor |-> {}, namespace |-> {}, inline |-> FALSE, autouse |-> autouse, conftest |-> conftest, deps |-> deps]
Chains ==
  {<<Shared("a", FALSE, TRUE, da), Shared("b", ub, TRUE, db), Shared("c", FALSE, cc, dc)>> :
     da \in SUBSET {"b", "c"}, db \in SUBSET {"a", "c"}, dc \in SUBSET {"a", "b"}, ub \in BOOLEAN, cc \in BOOLEAN}
Asking(names, fixrefs, builtins, plugin) ==
  [node_id |-> 1, names |-> names, fixrefs |-> fixrefs, builtins |-> builtins, plugin |-> plugin]
NameQuestions ==
  [about : {"names"}, registry : Chains,
   tests : {<<>>, <<Asking(<<"a">>, {}, {}, {})>>, <<Asking(<<"d", "c">>, {}, {}, {})>>,
            <<Asking(<<"d", "b">>, {"d"}, {}, {}), [Asking(<<"d", "e", "f">>, {}, {"d"}, {"e"}) EXCEPT !.node_id = 2]>>}]

Letters(n) == [1..n -> {"x", "y"}]
Spellings == UNION {Letters(n) : n \in 0..3}
SpellingQuestions ==
  [about : {"spelling"}, name : UNION {Letters(n) : n \in 1..4}, registered : {<<>>} \cup {<<a>> : a \in Letters(4)} \cup {<<a, b>> : a, b \in Spellings}]

BridgeAsked ==
  ModuleQuestions \cup ResultQuestions \cup LineQuestions \cup DiagnosticQuestions \cup AccessQuestions
    \cup NameQuestions \cup SpellingQuestions

-----------------------------------------------------------------------------
MCWords == {"name", "mark", "uses", "used_in", "slow", "a", "b", "t"}
MCStdlib == {"os"}
MCAsked == SelectionAsked \cup CollectionAsked \cup PlanAsked \cup InvocationAsked
  \cup DoctestAsked \cup BridgeAsked

MCNext == SelectionNext \/ CollectionNext \/ PlanNext \/ InvocationNext \/ DoctestNext \/ BridgeNext
Done == answered /\ UNCHANGED vars
MCSpec == Init /\ [][MCNext \/ Done]_vars
=============================================================================
