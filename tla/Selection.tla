------------------------------ MODULE Selection ------------------------------
(***************************************************************************)
(* Which tests a command line selects (src/filter.rs, src/target.rs,       *)
(* src/types/node_id.rs, src/pipeline/transitions/mod.rs, prescanned.rs).  *)
(*                                                                         *)
(* A selection is decided twice: on the prescan of a file, to know whether *)
(* to import it, and on the items Python collects from it.  Paths, node    *)
(* ids and patterns are texts: sequences of symbols, where "::", "[", "]", *)
(* "/" and the wildcards are symbols and any other symbol is a run of      *)
(* plain characters.                                                       *)
(***************************************************************************)
EXTENDS Naturals, Sequences, FiniteSets, SequencesExt

Query == INSTANCE QueryLanguage
Py == INSTANCE PythonSource

\* The verbatim prefix of a canonical Windows path: it contains a "?".
Verbatim == "\\\\?\\"

\* A selection: the node ids of the command line, the text of -E if given,
\* whether --failed=only holds and the ids it selects.
Selections(nodeIds, expressions, failed) ==
  [nodeIds : nodeIds, expression : expressions, onlyFailed : BOOLEAN, failed : failed]

(***************************************************************************)
(* Node ids.                                                               *)
(***************************************************************************)
NodeIdNew(path, fn, param) ==
  path \o <<"::">> \o fn \o (IF param = <<>> THEN <<>> ELSE <<"[">> \o param \o <<"]">>)

SeparatorAt(id) == SelectInSeq(id, LAMBDA symbol : symbol = "::")
ModulePath(id) == IF SeparatorAt(id) = 0 THEN <<>> ELSE SubSeq(id, 1, SeparatorAt(id) - 1)
SplitNodeIdOnce(id) ==
  [file |-> ModulePath(id), rest |-> SubSeq(id, SeparatorAt(id) + 1, Len(id))]

\* The chain of segments after the file, empty ones kept.
RECURSIVE Segments(_)
Segments(text) ==
  IF SeparatorAt(text) = 0 THEN <<text>>
  ELSE <<SplitNodeIdOnce(text).file>> \o Segments(SplitNodeIdOnce(text).rest)
SplitNodeIdStr(id) ==
  IF SeparatorAt(id) = 0 THEN [file |-> id, chain |-> <<>>]
  ELSE [file |-> ModulePath(id), chain |-> Segments(SplitNodeIdOnce(id).rest)]

WithoutVerbatimPrefix(text) ==
  IF text # <<>> /\ text[1] = Verbatim THEN Tail(text) ELSE text

HasSymbol(text, symbols) == \E i \in DOMAIN text : text[i] \in symbols
ContainsGlobChars(text) ==
  HasSymbol(WithoutVerbatimPrefix(text), {"*", "?", "[", Verbatim})

\* FilterConfig::source_files: the files of the literal node ids.
SourceFiles(nodeIds) ==
  {ModulePath(id) : id \in {i \in nodeIds : ~ContainsGlobChars(i) /\ SeparatorAt(i) # 0}}

(***************************************************************************)
(* Globs.  Brackets are escaped, so they match themselves; "*" crosses     *)
(* separators; a pattern that does not compile is dropped with a warning.  *)
(***************************************************************************)
RECURSIVE GlobMatches(_, _)
GlobMatches(pattern, text) ==
  IF pattern = <<>> THEN text = <<>>
  ELSE CASE pattern[1] = "*" ->
              \/ GlobMatches(Tail(pattern), text)
              \/ text # <<>> /\ GlobMatches(pattern, Tail(text))
         [] pattern[1] = "?" -> text # <<>> /\ GlobMatches(Tail(pattern), Tail(text))
         [] OTHER -> text # <<>> /\ pattern[1] = text[1] /\ GlobMatches(Tail(pattern), Tail(text))

BuildGlobMatchers(globs) == {g \in globs : ~HasSymbol(g, {"{"})}
MatchesGlobs(globs, id) == \E g \in BuildGlobMatchers(globs) : GlobMatches(g, id)

\* Mutant: any prefix of an id is one of its targets.
IsUnderAnyPrefix(id, target) == Len(id) > Len(target) /\ IsPrefix(target, id)

\* `id` is `target`, one of its parametrize cases, or something inside it.
IsUnder(id, target) ==
  Len(id) > Len(target) /\ IsPrefix(target, id) /\ id[Len(target) + 1] \in {"[", "::"}
MatchesNodeIdPrefix(id, target, bidirectional) ==
  \/ id = target
  \/ IsUnder(id, target)
  \/ bidirectional /\ IsUnder(target, id)

(***************************************************************************)
(* Filters on collected items.  An item has its node id, its module, its   *)
(* markers and whether it is async.                                        *)
(***************************************************************************)
ItemMatchesNodeIds(item, literals, globs, sources) ==
  \/ sources # {} /\ item.module \notin sources
  \/ \E target \in literals : MatchesNodeIdPrefix(item.id, target, FALSE)
  \/ MatchesGlobs(globs, item.id)

FilterByNodeIds(items, nodeIds, sources) ==
  LET globs == {id \in nodeIds : ContainsGlobChars(id)}
  IN  IF nodeIds = {} THEN items
      ELSE SelectSeq(items, LAMBDA i : ItemMatchesNodeIds(i, nodeIds \ globs, globs, sources))

UnmatchedLiteralTargets(items, nodeIds) ==
  {id \in nodeIds : ~ContainsGlobChars(id)
                    /\ ~\E i \in Range(items) : MatchesNodeIdPrefix(i.id, id, FALSE)}

\* The query entry of an item; `uses` is not among its fields.
JoinMarks(marks) == FoldLeft(LAMBDA text, m : IF text = <<>> THEN m ELSE text \o <<",">> \o m, <<>>, marks)
BoolText(b) == IF b THEN <<"true">> ELSE <<"false">>
ItemToQueryEntry(item) ==
  [name |-> item.id, source |-> item.module, mark |-> JoinMarks(item.markers), async |-> BoolText(item.async)]

\* -E on collected items: an expression that does not parse, or that asks
\* what no test has, ends the command.
ApplyQueryDslFilter(items, expression, words) ==
  Query!Then(Query!Compile(expression, words), LAMBDA compiled :
    IF ~Query!ValidFor(compiled.expr, "tests") THEN Query!DslError("InvalidPredicate")
    ELSE [items |-> SelectSeq(items, LAMBDA i : Query!Eval(compiled.expr, ItemToQueryEntry(i)))])

PartitionByFailed(items, failed) ==
  [failed |-> SelectSeq(items, LAMBDA i : i.id \in failed),
   remaining |-> SelectSeq(items, LAMBDA i : i.id \notin failed)]
FilterLastFailed(items, failed) == PartitionByFailed(items, failed).failed
SortFailedFirst(items, failed) ==
  PartitionByFailed(items, failed).failed \o PartitionByFailed(items, failed).remaining

\* One error per marker that is neither built in nor registered.
BuiltinMarkers == {<<"skip">>, <<"xfail">>, <<"timeout">>, <<"inprocess">>}
ValidateMarkers(items, registered) ==
  UNION {{[id |-> i.id, marker |-> m] : m \in Range(i.markers) \ (BuiltinMarkers \cup registered)} :
           i \in Range(items)}

(***************************************************************************)
(* Filters on the prescan of a file.                                       *)
(***************************************************************************)
PrescanNodeId(path, item) ==
  path \o (IF item.class = <<>> THEN <<>> ELSE <<"::">> \o item.class) \o <<"::">> \o item.fn

\* Mutant: a target inside a function does not match the function.
FileMatchesNodeIdsOneWay(items, path, nodeIds) ==
  LET globs == {id \in nodeIds : HasSymbol(WithoutVerbatimPrefix(id), {"*", "?", Verbatim})}
  IN  \/ nodeIds = {}
      \/ \E i \in Range(items) :
           \/ \E target \in nodeIds \ globs : MatchesNodeIdPrefix(PrescanNodeId(path, i), target, FALSE)
           \/ MatchesGlobs(globs, PrescanNodeId(path, i))

\* Here a bracket does not make a glob: a parametrized target must match
\* the unparametrized id of its function.
FileMatchesNodeIds(items, path, nodeIds) ==
  LET globs == {id \in nodeIds : HasSymbol(WithoutVerbatimPrefix(id), {"*", "?", Verbatim})}
  IN  \/ nodeIds = {}
      \/ \E i \in Range(items) :
           \/ \E target \in nodeIds \ globs : MatchesNodeIdPrefix(PrescanNodeId(path, i), target, TRUE)
           \/ MatchesGlobs(globs, PrescanNodeId(path, i))

PrescanItemToQueryEntry(item, path, moduleMarks) ==
  [name |-> PrescanNodeId(path, item), source |-> path, async |-> BoolText(item.async),
   mark |-> JoinMarks(item.markers
                      \o SelectSeq(moduleMarks, LAMBDA m : m \notin Range(item.markers)))]

FileMatchesExpression(items, path, expression, moduleMarks, words) ==
  \E compiled \in {Query!Compile(expression, words)} :
    \/ Query!Failed(compiled)
    \/ \E i \in Range(items) : Query!Eval(compiled.expr, PrescanItemToQueryEntry(i, path, moduleMarks))

FileMatchesLastFailed(items, path, failed) ==
  \E i \in Range(items) : \E id \in failed :
     \/ id = PrescanNodeId(path, i)
     \/ IsPrefix(PrescanNodeId(path, i) \o <<"[">>, id)

FilePassesAllFilters(path, items, moduleMarks, sel, words) ==
  LET sources == SourceFiles(sel.nodeIds)
  IN  /\ sel.nodeIds # {} /\ (sources = {} \/ path \in sources) => FileMatchesNodeIds(items, path, sel.nodeIds)
      /\ sel.expression # <<>> => FileMatchesExpression(items, path, sel.expression, moduleMarks, words)
      /\ sel.onlyFailed /\ sel.failed # {} => FileMatchesLastFailed(items, path, sel.failed)

IsFiltered(sel) == sel.nodeIds # {} \/ sel.expression # <<>> \/ sel.onlyFailed

\* prescan and filter_metadata for one file: whether it will be imported.
ImportsModule(path, file, sel, stdlib, words) ==
  LET scan == Py!PrescanWithAst(file, stdlib)
  IN  /\ scan.verdict # "NoTests"
      /\ \/ ~IsFiltered(sel)
         \/ scan.verdict = "Unavailable"
         \/ scan.payload.dynamic
         \/ FilePassesAllFilters(path, scan.payload.items, scan.payload.marks, sel, words)

(***************************************************************************)
(* What importing the file and collecting it gives (importer.py): the      *)
(* functions and the methods of classes that carry a test name, whatever   *)
(* statement bound them, with the marks of the class and of the module.    *)
(***************************************************************************)
AnyMark(decorators) ==
  Py!NonEmpty([i \in DOMAIN decorators |->
     IF Py!Uncalled(decorators[i]).id = <<"parametrize">> THEN <<>>
     ELSE Py!ExtractMarkFromValue(decorators[i])])

\* The last binding of a name wins, and a branch that ran binds too.
RECURSIVE Bindings(_)
Bindings(stmts) ==
  FlattenSeq([i \in DOMAIN stmts |->
     IF stmts[i].kind = "If" THEN Bindings(stmts[i].body) ELSE <<stmts[i]>>])
Bound(stmts, kinds) ==
  LET all == SelectSeq(Bindings(stmts), LAMBDA s : s.kind \in kinds)
  IN  {all[i] : i \in {k \in DOMAIN all : ~\E j \in DOMAIN all : j > k /\ all[j].name = all[k].name}}

DefKinds == {"FunctionDef", "AsyncFunctionDef"}

\* A class has its own methods and the ones it inherits; bases are names.
MethodsOf(class, stmts) ==
  LET own == Bound(class.body, DefKinds)
      inherited == UNION {Bound(b.body, DefKinds) :
                            b \in {c \in Bound(stmts, {"ClassDef"}) : Py!Name(c.name) \in Range(class.exprs)}}
  IN  own \cup {m \in inherited : ~\E o \in own : o.name = m.name}

MarksOfModule(stmts) ==
  LET assigned == SelectSeq(stmts, LAMBDA s : s.kind = "Assign" /\ Py!Targets(s) = <<Py!Name(<<"oxi_mark">>)>>)
  IN  IF assigned = <<>> THEN <<>> ELSE Py!ModuleMarksOf(Last(assigned))

\* One item per parametrize case.
ExpandItem(path, fn, def, marks, stmts) ==
  LET all == marks \o SelectSeq(MarksOfModule(stmts), LAMBDA m : m \notin Range(marks))
      cases == Range(Py!ExtractParametrizeKwargNames(def.decorators))
  IN  {[id |-> NodeIdNew(path, fn, case), module |-> path, markers |-> all, async |-> Py!IsAsync(def)] :
         case \in IF cases = {} THEN {<<>>} ELSE cases}

CollectModule(path, file) ==
  LET functions == {d \in Bound(file.stmts, DefKinds) : Py!IsTestFn(d.name)}
      classes == {c \in Bound(file.stmts, {"ClassDef"}) : Py!IsTestClass(c.name)}
      methods(c) == {m \in MethodsOf(c, file.stmts) : Py!IsTestFn(m.name)}
  IN  IF ~file.parses THEN {}
      ELSE UNION {ExpandItem(path, d.name, d, AnyMark(d.decorators), file.stmts) : d \in functions}
           \cup UNION {UNION {ExpandItem(path, c.name \o <<"::">> \o m.name, m,
                                         AnyMark(m.decorators) \o AnyMark(c.decorators), file.stmts) :
                                m \in methods(c)} : c \in classes}

\* collect, then strict_or_skip: the items of the run, {} on a refusal.
SelectedItems(items, sel, words) ==
  LET byId(all) == FilterByNodeIds(all, sel.nodeIds, SourceFiles(sel.nodeIds))
      byQuery(all) == IF sel.expression = <<>> THEN [items |-> all]
                      ELSE ApplyQueryDslFilter(all, sel.expression, words)
      byHistory(found) == IF Query!Failed(found) THEN <<>>
                          ELSE IF sel.onlyFailed /\ sel.failed # {} THEN FilterLastFailed(found.items, sel.failed)
                          ELSE found.items
  IN  byHistory(byQuery(byId(byId(items))))

(***************************************************************************)
(* Targets: the paths of the command line that are absent, and the         *)
(* spelling of a target in a message.                                      *)
(***************************************************************************)
MissingPaths(paths, onDisk) == SelectSeq(paths, LAMBDA p : p \notin onDisk)

IsSeparator(symbol) == symbol \in {"/", "\\"}
RECURSIVE TrimEnd(_)
TrimEnd(path) == IF path # <<>> /\ IsSeparator(Last(path)) THEN TrimEnd(Front(path)) ELSE path
RECURSIVE TrimStart(_)
TrimStart(path) == IF path # <<>> /\ IsSeparator(path[1]) THEN TrimStart(Tail(path)) ELSE path

\* <<>> when `path` does not lie under `base`.
Relativise(path, base) ==
  LET p == WithoutVerbatimPrefix(path)
      b == TrimEnd(WithoutVerbatimPrefix(base))
      tail == SubSeq(p, Len(b) + 1, Len(p))
  IN  IF b = <<>> \/ ~IsPrefix(b, p) \/ (tail # <<>> /\ ~IsSeparator(tail[1])) THEN <<>>
      ELSE TrimStart(tail)

DisplayTarget(id, base) ==
  LET relative == Relativise(ModulePath(id), base)
  IN  IF SeparatorAt(id) = 0 \/ relative = <<>> THEN id
      ELSE relative \o <<"::">> \o SplitNodeIdOnce(id).rest

(***************************************************************************)
(* Grouping.  A module is a path; a group is one task: its anchor, <<>>    *)
(* for a module alone, and its modules in order.                           *)
(***************************************************************************)
FirstSeen(values) ==
  FoldLeft(LAMBDA seen, v : IF v \in Range(seen) THEN seen ELSE Append(seen, v), <<>>, values)

GroupByModule(items) ==
  LET modules == FirstSeen([i \in DOMAIN items |-> items[i].module])
  IN  [k \in DOMAIN modules |->
         [module |-> modules[k], items |-> SelectSeq(items, LAMBDA i : i.module = modules[k])]]

\* Utf8Path::starts_with compares whole components.
StartsWith(path, dir) ==
  path = dir \/ (IsPrefix(dir, path) /\ path[Len(dir) + 1] = "/")

\* Mutant: the nearest declaring directory is the anchor.
NearestDeclaringAncestor(module, dirs) ==
  LET above == {d \in dirs : StartsWith(module, d)}
  IN  IF above = {} THEN <<>> ELSE CHOOSE d \in above : \A e \in above : Len(d) >= Len(e)

OutermostDeclaringAncestor(module, dirs) ==
  LET above == {d \in dirs : StartsWith(module, d)}
  IN  IF above = {} THEN <<>> ELSE CHOOSE d \in above : \A e \in above : Len(d) <= Len(e)

\* Modules no declaring directory covers come first, each alone; then one
\* group per outermost declaring directory, in the order first met.
GroupByPackage(modules, dirs) ==
  LET anchor(m) == OutermostDeclaringAncestor(m, dirs)
      alone == SelectSeq(modules, LAMBDA m : anchor(m) = <<>>)
      merged == SelectSeq(modules, LAMBDA m : anchor(m) # <<>>)
      anchors == FirstSeen([i \in DOMAIN merged |-> anchor(merged[i])])
  IN  [i \in DOMAIN alone |-> [anchor |-> <<>>, modules |-> <<alone[i]>>]]
      \o [k \in DOMAIN anchors |->
            [anchor |-> anchors[k], modules |-> SelectSeq(merged, LAMBDA m : anchor(m) = anchors[k])]]
==============================================================================
