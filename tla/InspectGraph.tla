----------------------------- MODULE InspectGraph ----------------------------
(***************************************************************************)
(* The graph behind `oxitest inspect` (src/inspect/graph, overview.rs,     *)
(* signals.rs, search.rs, detail/): five kinds of nodes in five vectors,   *)
(* edges as indices into them, and what is derived from the whole.         *)
(*                                                                         *)
(* A name, an id or a path is a sequence of symbols.  An optional index is *)
(* a set with at most one element.                                         *)
(***************************************************************************)
EXTENDS Naturals, Sequences, FiniteSets, TLC
LOCAL INSTANCE SequencesExt
Query == INSTANCE QueryLanguage

Kinds == {"test", "fixture", "mark", "declaration", "plugin"}

Ref(kind, index) == [kind |-> kind, index |-> index]
RefsTo(kind, indices) == [i \in DOMAIN indices |-> Ref(kind, indices[i])]

\* One vector per kind; `autouse` is keyed by the path of a test module.
EmptyGraph == [test |-> <<>>, fixture |-> <<>>, mark |-> <<>>, declaration |-> <<>>, plugin |-> <<>>,
               autouse |-> <<>>]

NodeCount(graph, kind) == Len(graph[kind])
Resolves(graph, ref) == ref.index \in 1..NodeCount(graph, ref.kind)
NodeName(graph, ref) == graph[ref.kind][ref.index].name
IsEmptyGraph(graph) == \A kind \in Kinds : NodeCount(graph, kind) = 0

NodesOfKind(graph, kind) == [i \in 1..NodeCount(graph, kind) |-> Ref(kind, i)]
AllNodeRefs(graph) ==
  NodesOfKind(graph, "test") \o NodesOfKind(graph, "fixture") \o NodesOfKind(graph, "mark")
    \o NodesOfKind(graph, "declaration") \o NodesOfKind(graph, "plugin")

TestNode(entry) ==
  [name |-> entry.name, async |-> entry.async, param |-> {}, param_count |-> 0, variants |-> <<>>,
   deps |-> <<>>, marks |-> <<>>]
MarkNode(name) == [name |-> name, used_by |-> <<>>]
FixtureNode(entry) == entry @@ [consumers |-> <<>>, declaration |-> {}, plugin |-> {}]
PluginNode(entry) == entry @@ [fixtures |-> <<>>]
DeclarationNode(path, anchor, home) ==
  [name |-> path, anchor |-> anchor, home |-> home, fixtures |-> <<>>]

\* The lookup tables of the builder: the index a name stands for.
Lookup(nodes, name) == {i \in DOMAIN nodes : nodes[i].name = name}
\* A `seen` set beside a vector: what is already there is not pushed again.
Pushed(vector, x) == IF x \in Range(vector) THEN vector ELSE Append(vector, x)

(***************************************************************************)
(* GraphBuilder.  `pending` is test_mark_names.                            *)
(***************************************************************************)
NewBuilder == [graph |-> EmptyGraph, pending |-> <<>>]
\* Mutant: the marks are left to be found again.
FromGraphUnmarked(graph) == [graph |-> [graph EXCEPT !.mark = <<>>], pending |-> <<>>]
FromGraph(graph) == [graph |-> graph, pending |-> <<>>]

AddTestEntry(builder, entry) ==
  IF Lookup(builder.graph.test, entry.name) # {} THEN builder
  ELSE [graph |-> [builder.graph EXCEPT !.test = Append(@, TestNode(entry))],
        pending |-> IF entry.marks = <<>> THEN builder.pending
                    ELSE builder.pending @@ ((Len(builder.graph.test) + 1) :> entry.marks)]
AddTestEntries(builder, entries) == FoldLeft(AddTestEntry, builder, entries)

\* add_mark_entries, add_fixture_entries, add_plugin_entries: the first of a name stays.
AddNode(builder, kind, node) ==
  IF Lookup(builder.graph[kind], node.name) # {} THEN builder
  ELSE [builder EXCEPT !.graph[kind] = Append(@, node)]
AddMarkEntry(builder, name) == AddNode(builder, "mark", MarkNode(name))
AddMarkEntries(builder, names) == FoldLeft(AddMarkEntry, builder, names)
AddFixtureEntry(builder, entry) == AddNode(builder, "fixture", FixtureNode(entry))
AddFixtureEntries(builder, entries) == FoldLeft(AddFixtureEntry, builder, entries)
AddPluginEntry(builder, entry) == AddNode(builder, "plugin", PluginNode(entry))
AddPluginEntries(builder, entries) == FoldLeft(AddPluginEntry, builder, entries)

\* strip_prefix(rootdir): whole components; anything else is left as it is.
Relative(path, rootdir) ==
  IF rootdir # <<>> /\ IsPrefix(rootdir \o <<"/">>, path)
  THEN SubSeq(path, Len(rootdir) + 2, Len(path))
  ELSE path

\* Names and lifetimes are two lists that belong together position by position.
AutouseOf(entry) ==
  [i \in 1..(IF Len(entry.names) <= Len(entry.lifetimes) THEN Len(entry.names) ELSE Len(entry.lifetimes)) |->
     [name |-> entry.names[i], lifetime |-> entry.lifetimes[i]]]
AddAutouseEntry(builder, entry, rootdir) ==
  [builder EXCEPT !.graph.autouse = (Relative(entry.module, rootdir) :> AutouseOf(entry)) @@ @]
AddAutouseEntries(builder, entries, rootdir) ==
  FoldLeft(LAMBDA b, entry : AddAutouseEntry(b, entry, rootdir), builder, entries)

\* One test uses one fixture: an edge at both of its ends.
Connected(graph, test, fixture) ==
  [graph EXCEPT !.test[test].deps = Pushed(@, fixture),
                !.fixture[fixture].consumers = Pushed(@, Ref("test", test))]
AddFixtureDep(graph, tests, name) ==
  FoldLeft(LAMBDA g, pair : Connected(g, pair[1], pair[2]), graph,
           SetToSeq(tests \X Lookup(graph.fixture, name)))
AddFixtureDepEntry(builder, entry, rootdir) ==
  [builder EXCEPT !.graph =
     FoldLeft(LAMBDA g, name : AddFixtureDep(g, Lookup(g.test, Relative(entry.test, rootdir)), name),
              @, entry.names)]
AddFixtureDepEntries(builder, entries, rootdir) ==
  FoldLeft(LAMBDA b, entry : AddFixtureDepEntry(b, entry, rootdir), builder, entries)

\* Mutant: a declaration learns of its fixtures, and the fixtures not of it.
DeclaredOneWay(graph, fixture, declaration) ==
  [graph EXCEPT !.declaration[declaration].fixtures = Pushed(@, fixture)]

\* The declaration a fixture was written in, made when it is not there yet.
Declared(graph, fixture, declaration) ==
  [graph EXCEPT !.fixture[fixture].declaration = {declaration},
                !.declaration[declaration].fixtures = Pushed(@, fixture)]
EnsureDeclaration(graph, fixture) ==
  IF Lookup(graph.declaration, fixture.source) # {} THEN graph
  ELSE [graph EXCEPT !.declaration =
          Append(@, DeclarationNode(fixture.source, fixture.anchor, fixture.home))]
ResolveDeclaration(graph, i) ==
  IF graph.fixture[i].home = <<>> THEN graph
  ELSE Declared(EnsureDeclaration(graph, graph.fixture[i]), i,
                CHOOSE d \in Lookup(EnsureDeclaration(graph, graph.fixture[i]).declaration,
                                    graph.fixture[i].source) : TRUE)

\* A fixture whose source reads <plugin:NAME> belongs to that plugin.
PluginNamed(source) ==
  IF Len(source) > 2 /\ source[1] = "<plugin:" /\ source[Len(source)] = ">"
  THEN SubSeq(source, 2, Len(source) - 1) ELSE <<>>
ResolvePlugin(graph, i) ==
  LET owners == Lookup(graph.plugin, PluginNamed(graph.fixture[i].source))
  IN  IF owners = {} THEN graph
      ELSE LET p == CHOOSE p \in owners : TRUE
           IN  [graph EXCEPT !.fixture[i].plugin = {p}, !.plugin[p].fixtures = Pushed(@, i)]
EachFixture(graph) == [i \in 1..NodeCount(graph, "fixture") |-> i]

\* A test carries one mark: an edge at both of its ends, the mark made if need be.
EnsureMark(graph, name) ==
  IF Lookup(graph.mark, name) # {} THEN graph ELSE [graph EXCEPT !.mark = Append(@, MarkNode(name))]
Marked(graph, test, mark) ==
  [graph EXCEPT !.test[test].marks = Pushed(@, mark), !.mark[mark].used_by = Pushed(@, test)]
MarkTest(graph, test, name) ==
  Marked(EnsureMark(graph, name), test, CHOOSE m \in Lookup(EnsureMark(graph, name).mark, name) : TRUE)
\* The pending marks are a hash map: its order, `order`, is any order.
ResolveMarks(builder, order) ==
  FoldLeft(LAMBDA g, test : FoldLeft(LAMBDA h, name : MarkTest(h, test, name), g, builder.pending[test]),
           builder.graph, order)

\* node_id.rfind('[')
BracketAt(id) == {i \in DOMAIN id : id[i] = "[" /\ \A j \in (i + 1)..Len(id) : id[j] # "["}
BaseName(id) == IF BracketAt(id) = {} THEN id ELSE SubSeq(id, 1, (CHOOSE i \in BracketAt(id) : TRUE) - 1)
\* trim_end_matches(']')
TrimmedEnd(text) ==
  SubSeq(text, 1, CHOOSE n \in 0..Len(text) : /\ n = 0 \/ text[n] # "]"
                                              /\ \A i \in (n + 1)..Len(text) : text[i] = "]")
Siblings(tests, i) ==
  {j \in DOMAIN tests : /\ BracketAt(tests[i].name) # {} /\ BracketAt(tests[j].name) # {}
                        /\ BaseName(tests[j].name) = BaseName(tests[i].name)}
Grouped(tests, i) ==
  IF BracketAt(tests[i].name) = {} THEN tests[i]
  ELSE [tests[i] EXCEPT
          !.param = {TrimmedEnd(SubSeq(tests[i].name, Len(BaseName(tests[i].name)) + 2, Len(tests[i].name)))},
          !.param_count = IF Cardinality(Siblings(tests, i)) > 1 THEN Cardinality(Siblings(tests, i)) ELSE @,
          !.variants = IF Cardinality(Siblings(tests, i)) > 1
                       THEN SetToSortSeq(Siblings(tests, i) \ {i}, <) ELSE @]
ResolveParametrizeGrouping(graph) ==
  [graph EXCEPT !.test = [i \in DOMAIN graph.test |-> Grouped(graph.test, i)]]

ResolveEdges(builder, order) ==
  LET marked == ResolveMarks(builder, order)
      declared == FoldLeft(ResolveDeclaration, marked, EachFixture(marked))
      plugged == FoldLeft(ResolvePlugin, declared, EachFixture(declared))
  IN  ResolveParametrizeGrouping(plugged)

\* Every path below the root is told relative to it.
RelativizePaths(graph, rootdir) ==
  [graph EXCEPT
     !.fixture = [i \in DOMAIN @ |-> [@[i] EXCEPT !.source = Relative(@, rootdir),
                                                  !.anchor = Relative(@, rootdir)]],
     !.test = [i \in DOMAIN @ |-> [@[i] EXCEPT !.name = Relative(@, rootdir)]],
     !.declaration = [i \in DOMAIN @ |-> [@[i] EXCEPT !.name = Relative(@, rootdir),
                                                      !.anchor = Relative(@, rootdir)]]]
==============================================================================
