----------------------------- MODULE InspectViews ----------------------------
(***************************************************************************)
(* What the inspect screens show of a graph (src/inspect/overview.rs,      *)
(* signals.rs, search.rs, source.rs, detail/, and the builders of          *)
(* ui.rs).  A line is the node it names, if any, and whether it carries    *)
(* the cursor; its wording and its colours are left out.                   *)
(***************************************************************************)
EXTENDS Integers, InspectGraph
LOCAL INSTANCE SequencesExt

(***************************************************************************)
(* The overview.                                                           *)
(***************************************************************************)
Signal(kind, affected) == IF affected = <<>> THEN <<>> ELSE <<[kind |-> kind, affected |-> affected]>>
FixturesSuch(graph, chosen) == SelectSeq(NodesOfKind(graph, "fixture"), LAMBDA r : r.index \in chosen)

DetectUnusedFixtures(graph) ==
  Signal("UnusedFixtures",
         FixturesSuch(graph, {i \in DOMAIN graph.fixture :
                                /\ graph.fixture[i].consumers = <<>>
                                /\ ~graph.fixture[i].autouse
                                /\ graph.fixture[i].home # <<>>}))
DetectHighFanIn(graph) ==
  IF Len(graph.test) < 2 THEN <<>>
  ELSE Signal("HighFanIn",
              FixturesSuch(graph, {i \in DOMAIN graph.fixture :
                                     Len(graph.fixture[i].consumers) > Len(graph.test) \div 2}))
DetectSignals(graph) ==
  IF graph.fixture = <<>> THEN <<>> ELSE DetectUnusedFixtures(graph) \o DetectHighFanIn(graph)

\* sort_by_key(Reverse(count)) is stable.
MostFirst(kind, count) ==
  RefsTo(kind, SetToSortSeq(DOMAIN count,
                            LAMBDA i, j : count[i] > count[j] \/ (count[i] = count[j] /\ i < j)))

SectionsFromGraph(graph) ==
  [gravity |-> SelectSeq(MostFirst("fixture", [i \in DOMAIN graph.fixture |-> Len(graph.fixture[i].consumers)]),
                         LAMBDA r : graph.fixture[r.index].consumers # <<>>),
   marks |-> MostFirst("mark", [i \in DOMAIN graph.mark |-> Len(graph.mark[i].used_by)]),
   declarations |-> MostFirst("declaration",
                              [i \in DOMAIN graph.declaration |-> Len(graph.declaration[i].fixtures)]),
   signals |-> DetectSignals(graph)]

\* The rows of the overview in cursor order; a signal stands for its first node.
SectionRows(sections) ==
  sections.gravity \o sections.marks \o sections.declarations
    \o [i \in DOMAIN sections.signals |-> sections.signals[i].affected[1]]
ItemCount(sections) == Len(SectionRows(sections))
\* Option<NodeRef> at a cursor, which counts from 0.
At(rows, selected) == IF selected + 1 \in DOMAIN rows THEN {rows[selected + 1]} ELSE {}

(***************************************************************************)
(* Search.                                                                 *)
(***************************************************************************)
LooksLikeDsl(query) == Range(query) \cap {"(", "&", "|"} # {}
RECURSIVE JoinedMarks(_)
JoinedMarks(names) ==
  IF names = <<>> THEN <<>>
  ELSE IF Len(names) = 1 THEN Head(names) ELSE Head(names) \o <<",">> \o JoinedMarks(Tail(names))
MarkNames(graph, ref) == [i \in DOMAIN graph.test[ref.index].marks |-> graph.mark[graph.test[ref.index].marks[i]].name]
NodeQueryEntry(graph, ref) ==
  IF ref.kind = "test" THEN [name |-> NodeName(graph, ref), mark |-> JoinedMarks(MarkNames(graph, ref))]
  ELSE [name |-> NodeName(graph, ref)]
NameContains(graph, ref, text) == Query!IsFactor(text, NodeName(graph, ref))

SearchCompiled(graph, query, candidates, compiled) ==
  IF LooksLikeDsl(query) /\ ~Query!Failed(compiled)
  THEN SelectSeq(candidates, LAMBDA r : Query!Eval(compiled.expr, NodeQueryEntry(graph, r)))
  ELSE SelectSeq(candidates, LAMBDA r : NameContains(graph, r, query))
Search(graph, query, candidates, words) ==
  IF query = <<>> THEN <<>> ELSE SearchCompiled(graph, query, candidates, Query!Compile(query, words))

(***************************************************************************)
(* One node: the edges that can be followed, its lines and its preview.    *)
(***************************************************************************)
EdgesOfFixture(f) ==
  f.consumers \o RefsTo("declaration", SetToSeq(f.declaration)) \o RefsTo("plugin", SetToSeq(f.plugin))
EdgesOfTest(t) == RefsTo("fixture", t.deps) \o RefsTo("mark", t.marks)
EdgesOfMark(m) == RefsTo("test", m.used_by)
EdgesOfDeclaration(d) == RefsTo("fixture", d.fixtures)
EdgesOfPlugin(p) == RefsTo("fixture", p.fixtures)
CollectEdges(graph, ref) ==
  CASE ref.kind = "fixture" -> EdgesOfFixture(graph.fixture[ref.index])
    [] ref.kind = "test" -> EdgesOfTest(graph.test[ref.index])
    [] ref.kind = "mark" -> EdgesOfMark(graph.mark[ref.index])
    [] ref.kind = "declaration" -> EdgesOfDeclaration(graph.declaration[ref.index])
    [] ref.kind = "plugin" -> EdgesOfPlugin(graph.plugin[ref.index])

Line(refs, marked) == [names |-> refs, marked |-> marked]
Plain == Line({}, FALSE)
Plains(n) == [i \in 1..n |-> Plain]
Naming(refs) == [i \in DOMAIN refs |-> Line({refs[i]}, FALSE)]
\* A blank line, a header and the nodes: nothing at all for no node.
Section(refs) == IF refs = <<>> THEN <<>> ELSE Plains(2) \o Naming(refs)

\* The autouse fixtures of the test's module, once the fixture data is there.
ModuleOf(id) == SubSeq(id, 1, CHOOSE n \in 0..Len(id) : /\ n = Len(id) \/ id[n + 1] = "::"
                                                        /\ \A i \in 1..n : id[i] # "::")
AutouseRows(graph, test, state) ==
  IF state = "Ready" /\ ModuleOf(test.name) \in DOMAIN graph.autouse
     /\ graph.autouse[ModuleOf(test.name)] # <<>>
  THEN Len(graph.autouse[ModuleOf(test.name)]) ELSE 1
RenderTest(graph, test, state) ==
  Plains(3 + 2 * Cardinality(test.param)) \o Section(RefsTo("fixture", test.deps))
    \o Plains(2 + AutouseRows(graph, test, state))
    \o Section(RefsTo("mark", test.marks)) \o Section(RefsTo("test", test.variants))
RenderFixture(f) ==
  Plains(IF f.description = <<>> THEN 7 ELSE 8) \o Section(f.consumers)
    \o Section(RefsTo("declaration", SetToSeq(f.declaration)))
    \o Section(RefsTo("plugin", SetToSeq(f.plugin)))
RenderMark(m) == Plains(3) \o Section(EdgesOfMark(m))
RenderDeclaration(d) == Plains(5) \o Section(EdgesOfDeclaration(d))
RenderPlugin(p) == Plains(IF p.protocols = <<>> THEN 2 ELSE 3) \o Section(EdgesOfPlugin(p))
RenderDetail(graph, ref, state) ==
  CASE ref.kind = "fixture" -> RenderFixture(graph.fixture[ref.index])
    [] ref.kind = "test" -> RenderTest(graph, graph.test[ref.index], state)
    [] ref.kind = "mark" -> RenderMark(graph.mark[ref.index])
    [] ref.kind = "declaration" -> RenderDeclaration(graph.declaration[ref.index])
    [] ref.kind = "plugin" -> RenderPlugin(graph.plugin[ref.index])

MaxShown == 3
\* The first edges, and a line that counts the others.
PreviewEdges(refs) ==
  Naming(SubSeq(refs, 1, IF Len(refs) < MaxShown THEN Len(refs) ELSE MaxShown))
    \o Plains(IF Len(refs) > MaxShown THEN 1 ELSE 0)
PreviewSection(refs) == IF refs = <<>> THEN <<>> ELSE Plains(2) \o PreviewEdges(refs)
PreviewFixture(f) == Plains(4) \o PreviewSection(f.consumers)
PreviewTest(t) ==
  Plains(3) \o PreviewSection(RefsTo("fixture", t.deps)) \o PreviewSection(RefsTo("mark", t.marks))
\* No blank line before the header of these two.
PreviewMark(m) ==
  Plains(IF m.used_by = <<>> THEN 2 ELSE 3) \o PreviewEdges(EdgesOfMark(m))
PreviewDeclaration(d) ==
  Plains(IF d.fixtures = <<>> THEN 2 ELSE 3) \o PreviewEdges(EdgesOfDeclaration(d))
PreviewPlugin(p) == Plains(IF p.protocols = <<>> THEN 2 ELSE 3) \o PreviewSection(EdgesOfPlugin(p))
RenderPreview(graph, ref) ==
  CASE ref.kind = "fixture" -> PreviewFixture(graph.fixture[ref.index])
    [] ref.kind = "test" -> PreviewTest(graph.test[ref.index])
    [] ref.kind = "mark" -> PreviewMark(graph.mark[ref.index])
    [] ref.kind = "declaration" -> PreviewDeclaration(graph.declaration[ref.index])
    [] ref.kind = "plugin" -> PreviewPlugin(graph.plugin[ref.index])

\* The widths of the panes: the longer the preview, the more it gets.
Percent(width, n) == (width * n) \div 100
LeftWidth(width, preview) ==
  CASE preview < 10 -> IF Percent(width, 55) < width - Percent(width, 30) THEN Percent(width, 55)
                       ELSE width - Percent(width, 30)
    [] preview > 20 -> IF width - Percent(width, 62) > Percent(width, 30) THEN width - Percent(width, 62)
                       ELSE Percent(width, 30)
    [] preview \in 10..20 -> width \div 2
AdaptiveLayout(width, preview) ==
  IF width < 80 THEN [left |-> width, right |-> 0]
  ELSE [left |-> LeftWidth(width, preview), right |-> width - LeftWidth(width, preview)]

\* Only a test, and a fixture written in a file, have a source to show.
NodeSourceLocation(graph, ref) ==
  CASE ref.kind = "fixture" ->
         IF graph.fixture[ref.index].source = <<>> \/ graph.fixture[ref.index].source[1] \in {"<plugin:", "<builtin>"}
         THEN {} ELSE {graph.fixture[ref.index].source}
    [] ref.kind = "test" -> {ModuleOf(graph.test[ref.index].name)}
    [] ref.kind \in {"mark", "plugin", "declaration"} -> {}

(***************************************************************************)
(* The left pane: its lines and the line the cursor is on, from 0.         *)
(***************************************************************************)
Rows(refs, selected) == [i \in DOMAIN refs |-> Line({refs[i]}, i = selected + 1)]
CursorOf(lines) == {i - 1 : i \in {j \in DOMAIN lines : lines[j].marked}}

\* `after` counts the blank lines that close a section.
OverviewSection(refs, selected, after) ==
  IF refs = <<>> THEN <<>> ELSE <<Plain>> \o Rows(refs, selected) \o Plains(after)
OverviewBeforeSignals(sections, selected) ==
  OverviewSection(sections.gravity, selected, 1)
    \o OverviewSection(sections.marks, selected - Len(sections.gravity), 1)
    \o OverviewSection(sections.declarations, selected - Len(sections.gravity) - Len(sections.marks), 0)
SignalLines(sections, selected, loading) ==
  IF sections.signals # <<>>
  THEN <<Plain>> \o SubSeq(Rows(SectionRows(sections), selected),
                           ItemCount(sections) - Len(sections.signals) + 1, ItemCount(sections))
  ELSE IF loading THEN <<Plain>> ELSE <<>>
OverviewLines(before, signals) ==
  IF before = <<>> /\ signals = <<>> THEN <<Plain>>
  ELSE before \o (IF before = <<>> \/ signals = <<>> THEN <<>> ELSE <<Plain>>) \o signals
BuildOverviewContent(sections, selected, loading) ==
  OverviewLines(OverviewBeforeSignals(sections, selected), SignalLines(sections, selected, loading))

\* The node's own lines, then its edges under "Related".
BuildNodeFocusContent(graph, ref, selected, state) ==
  RenderDetail(graph, ref, state)
    \o (IF CollectEdges(graph, ref) = <<>> THEN <<>>
        ELSE Plains(2) \o Rows(CollectEdges(graph, ref), selected))
==============================================================================
