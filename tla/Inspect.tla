------------------------------- MODULE Inspect -------------------------------
(***************************************************************************)
(* `oxitest inspect` (src/inspect/app.rs, input.rs, nav.rs, ui.rs,         *)
(* mod.rs): the event loop, the keys, and the background thread that loads *)
(* the fixture data.                                                       *)
(*                                                                         *)
(* One round of the loop is a frame (poll the thread, scroll, draw) and an *)
(* event (one key or none).  Drawing a node that the graph does not have   *)
(* is an index out of bounds: the program panics.                          *)
(***************************************************************************)
EXTENDS InspectViews
LOCAL INSTANCE SequencesExt

CONSTANTS Projects,    \* what the disk may hold whenever it is read: the project is being edited
          Invocations, \* the startup filters and the name to jump to
          RootDir,     \* the project's root, as a path
          Words,       \* the bare words of the query language
          Typed,       \* the symbols that may be typed into a search
          Visible,     \* how many lines of the left pane fit
          Widths,      \* the widths the terminal may have
          MaxLoads,    \* bound: background loads started, the first one included
          MaxKeys,     \* bound: keys pressed
          MaxScroll    \* bound: lines scrolled in the source view

VARIABLES loads, \* the background threads, each with its own channel
          app,   \* InspectApp
          at,    \* where the loop is: "frame", "event", "ended", "panicked"
          late,  \* phase2_timeout has elapsed since the newest load was started
          keys   \* keys pressed so far

vars == <<loads, app, at, late, keys>>

Screen(is, node, matches) == [is |-> is, node |-> node, matches |-> matches, selected |-> 0]
Overview == Screen("Overview", {}, <<>>)
NodeFocus(ref) == Screen("NodeFocus", {ref}, <<>>)
Disambiguation(matches) == Screen("Disambiguation", {}, matches)
History == Screen("History", {}, <<>>)

NewSearch == [query |-> <<>>, results |-> <<>>, selected |-> 0, total |-> 0, scope |-> "Context"]

\* Trail: the root and the screens above it.
Current(nav) == nav[Len(nav)]
Popped(nav) == IF Len(nav) > 1 THEN Front(nav) ELSE nav
Focused(nav) == UNION {nav[i].node : i \in {j \in DOMAIN nav : nav[j].is = "NodeFocus"}}

(***************************************************************************)
(* Phase 1: the tests and marks of the files, filtered as asked.           *)
(***************************************************************************)
AffectedFiles(inv, project) ==
  IF inv.affected /\ project.affected.is = "files" THEN project.affected.files ELSE project.files
FileOf(entry) == ModuleOf(entry.name)
QueryFields(entry) ==
  [name |-> entry.name, mark |-> JoinedMarks(entry.marks), async |-> <<IF entry.async THEN "true" ELSE "false">>]
Kept(inv, project, entry) ==
  /\ FileOf(entry) \in Range(AffectedFiles(inv, project))
  /\ inv.expression # <<>> => Query!Eval(Query!Compile(inv.expression, Words).expr, QueryFields(entry))
  /\ inv.failed => entry.name \in project.failed
\* The marks are those of every file that is left, not of every test that is left.
MarksLeft(inv, project) ==
  LET left == SelectSeq(project.marks, LAMBDA m : m.registered \/ m.files \cap Range(AffectedFiles(inv, project)) # {})
  IN  [i \in DOMAIN left |-> left[i].name]
Phase1Builder(inv, project) ==
  AddMarkEntries(
    AddTestEntries(NewBuilder, SelectSeq(project.tests, LAMBDA e : Kept(inv, project, e))),
    MarksLeft(inv, project))
Orders(builder) == SetToSeqs(DOMAIN builder.pending)
BuildPhase1Graph(inv, project, order) ==
  RelativizePaths(ResolveEdges(Phase1Builder(inv, project), order), RootDir)

(***************************************************************************)
(* Phase 2: a thread with a Python session, and the channel it answers on. *)
(***************************************************************************)
Spawned(project) == [is |-> "running", files |-> Range(project.files), data |-> {}]
Phase2Data(project, files) ==
  [fixtures |-> project.fixtures, plugins |-> project.plugins,
   deps |-> SelectSeq(project.deps, LAMBDA e : ModuleOf(e.test) \in files),
   autouse |-> SelectSeq(project.autouse, LAMBDA e : e.module \in files)]

MergedGraph(graph, data) ==
  RelativizePaths(
    ResolveEdges(
      AddAutouseEntries(
        AddFixtureDepEntries(AddPluginEntries(AddFixtureEntries(FromGraph(graph), data.fixtures), data.plugins),
                             data.deps, RootDir),
        data.autouse, RootDir),
      <<>>),
    RootDir)

\* A graph takes the place of the last one, and what is derived from it with it.
WithGraph(a, graph) ==
  [a EXCEPT !.graph = graph, !.sections = SectionsFromGraph(graph),
            !.search.total = Len(AllNodeRefs(graph))]
MergePhase2(a, data) ==
  LET merged == WithGraph(a, MergedGraph(a.graph, data))
  IN  IF Current(a.nav).is \in {"Disambiguation", "NodeFocus"}
      THEN [merged EXCEPT !.nav = <<Overview>>] ELSE merged

ResolveDirectJump(graph, name) ==
  LET matches == SelectSeq(AllNodeRefs(graph), LAMBDA r : NameContains(graph, r, name))
  IN  CASE Len(matches) > 1 -> <<Overview, Disambiguation(matches)>>
        [] Len(matches) = 1 -> <<Overview, NodeFocus(matches[1])>>
        [] matches = <<>> -> <<Overview>>

WithProgressiveLoading(inv, graph) ==
  [graph |-> graph, sections |-> SectionsFromGraph(graph),
   nav |-> IF inv.jump = {} THEN <<Overview>> ELSE ResolveDirectJump(graph, CHOOSE n \in inv.jump : TRUE),
   history |-> <<>>, search |-> [NewSearch EXCEPT !.total = Len(AllNodeRefs(graph))],
   mode |-> "Normal", help |-> FALSE, scroll |-> 0, source |-> {},
   phase2 |-> "Loading", rx |-> 1, quit |-> FALSE, inv |-> inv]

Init ==
  /\ \E project \in {p \in Projects : p.collects}, inv \in Invocations :
       /\ loads = <<Spawned(project)>>
       /\ \E order \in Orders(Phase1Builder(inv, project)) :
            app = WithProgressiveLoading(inv, BuildPhase1Graph(inv, project, order))
  /\ at = "frame" /\ late = FALSE /\ keys = 0

(***************************************************************************)
(* Drawing.                                                                *)
(***************************************************************************)
Loading(a) == a.phase2 = "Loading"
\* fixture_data_state
FixtureDataState(a) ==
  CASE a.phase2 = "Loading" -> "Loading" [] a.phase2 = "Complete" -> "Ready" [] OTHER -> "Unavailable"

\* The rows of the screen the cursor moves over.
ScreenRows(a, screen) ==
  CASE screen.is = "Overview" -> SectionRows(a.sections)
    [] screen.is = "NodeFocus" -> CollectEdges(a.graph, CHOOSE r \in screen.node : TRUE)
    [] screen.is = "Disambiguation" -> screen.matches
    [] screen.is = "History" -> a.history
ScreenItemCount(a) == Len(ScreenRows(a, Current(a.nav)))
Selected(a) == At(ScreenRows(a, Current(a.nav)), Current(a.nav).selected)

\* The nodes whose names or fields a frame looks up.
PaneLookups(a, screen) ==
  CASE screen.is = "Overview" -> {}
    [] screen.is = "NodeFocus" -> screen.node
    [] screen.is = "Disambiguation" -> Range(screen.matches)
    [] screen.is = "History" -> Range(a.history)
PreviewLookups(a, screen) ==
  CASE screen.is \in {"Overview", "NodeFocus"} -> {}
    [] screen.is = "Disambiguation" -> At(screen.matches, screen.selected)
    [] screen.is = "History" -> At(a.history, screen.selected)
Lookups(a) ==
  Focused(a.nav)
    \cup (IF IsEmptyGraph(a.graph) /\ ~Loading(a) THEN {} ELSE PaneLookups(a, Current(a.nav)))
    \cup (IF a.source = {} THEN PreviewLookups(a, Current(a.nav)) ELSE {})
Drawable(a) == \A ref \in Lookups(a) : Resolves(a.graph, ref)

\* build_left_pane: the lines and the cursor's line.
PaneLines(a, screen) ==
  IF IsEmptyGraph(a.graph) /\ ~Loading(a) THEN <<Plain>>
  ELSE CASE screen.is = "Overview" -> BuildOverviewContent(a.sections, screen.selected, Loading(a))
         [] screen.is = "NodeFocus" ->
              BuildNodeFocusContent(a.graph, CHOOSE r \in screen.node : TRUE, screen.selected, FixtureDataState(a))
         [] screen.is = "Disambiguation" -> Rows(screen.matches, screen.selected)
         [] screen.is = "History" -> IF a.history = <<>> THEN <<Plain>> ELSE Rows(a.history, screen.selected)
CursorLine(a) == CursorOf(PaneLines(a, Current(a.nav)))

\* The right pane: the node under the cursor, or else the node in focus.
Previewed(a) == IF Selected(a) # {} THEN Selected(a) ELSE Current(a.nav).node
BuildPreviewContent(a) ==
  (IF Previewed(a) = {} THEN <<Plain>> ELSE RenderPreview(a.graph, CHOOSE r \in Previewed(a) : TRUE))
    \o Plains(IF Loading(a) THEN 2 ELSE 0)

\* Mutant: the window ends one line too late.
ScrolledLate(scroll, line) ==
  IF line < scroll THEN line ELSE IF line > scroll + Visible THEN line - Visible + 1 ELSE scroll
Scrolled(scroll, line) ==
  IF line < scroll THEN line ELSE IF line >= scroll + Visible THEN line - Visible + 1 ELSE scroll
UpdateScroll(a) ==
  IF CursorLine(a) = {} \/ Visible = 0 THEN a
  ELSE [a EXCEPT !.scroll = Scrolled(@, CHOOSE line \in CursorLine(a) : TRUE)]

\* What is left of a frame once the thread was polled.
Draw(polled) ==
  /\ at = "frame"
  /\ IF Drawable(polled)
     THEN /\ app' = UpdateScroll(polled)
          /\ at' = IF polled.quit THEN "ended" ELSE "event"
     ELSE app' = polled /\ at' = "panicked"
  /\ UNCHANGED <<loads, late, keys>>

(***************************************************************************)
(* poll_phase2, in each of its outcomes, with the rest of its frame.       *)
(***************************************************************************)
FrameIdle == ~Loading(app) /\ Draw(app)
FrameEmpty == Loading(app) /\ loads[app.rx].is = "running" /\ ~late /\ Draw(app)
\* Mutant: the loading indicator outlives the timeout.
FrameTimedOutLoading == Loading(app) /\ loads[app.rx].is = "running" /\ late /\ Draw(app)
FrameTimedOut ==
  /\ Loading(app) /\ loads[app.rx].is = "running" /\ late
  /\ Draw([app EXCEPT !.phase2 = "Unavailable"])
FrameDisconnected ==
  /\ Loading(app) /\ loads[app.rx].is = "failed"
  /\ Draw([app EXCEPT !.phase2 = "Unavailable"])
FrameMerges ==
  /\ Loading(app) /\ loads[app.rx].is = "sent"
  /\ \E data \in loads[app.rx].data : Draw(MergePhase2([app EXCEPT !.phase2 = "Complete"], data))
Frame == FrameIdle \/ FrameEmpty \/ FrameTimedOut \/ FrameDisconnected \/ FrameMerges

\* The thread answers, or its session fails and the sender is dropped.
Answer(l) ==
  /\ loads[l].is = "running"
  /\ \E project \in Projects :
       loads' = [loads EXCEPT ![l] =
         IF project.session THEN [@ EXCEPT !.is = "sent", !.data = {Phase2Data(project, loads[l].files)}]
         ELSE [@ EXCEPT !.is = "failed"]]
  /\ UNCHANGED <<app, at, late, keys>>

\* The clock: started.elapsed() > phase2_timeout from now on.
Elapse == Loading(app) /\ at \in {"frame", "event"} /\ ~late /\ late' = TRUE /\ UNCHANGED <<loads, app, at, keys>>

(***************************************************************************)
(* Keys.                                                                   *)
(***************************************************************************)
Pressed(a) ==
  /\ at = "event" /\ keys < MaxKeys
  /\ app' = a /\ at' = "frame" /\ keys' = keys + 1
  /\ UNCHANGED <<loads, late>>
\* No key within 50 ms, a mouse event, or a key that means nothing here.
NoKey == at = "event" /\ at' = "frame" /\ UNCHANGED <<loads, app, late, keys>>
CtrlC == Pressed([app EXCEPT !.quit = TRUE])

InNormal == app.source = {} /\ app.mode = "Normal"
InSource == app.source # {}
InSearch == app.source = {} /\ app.mode = "Search"

QuitKey == InNormal /\ Pressed([app EXCEPT !.quit = TRUE])

MovedTo(selected) == [app EXCEPT !.nav[Len(app.nav)].selected = selected]
NavCursorDown ==
  /\ InNormal
  /\ Pressed(IF ScreenItemCount(app) = 0 THEN app
             ELSE MovedTo((Current(app.nav).selected + 1) % ScreenItemCount(app)))
NavCursorUp ==
  /\ InNormal
  /\ Pressed(IF ScreenItemCount(app) = 0 THEN app
             ELSE MovedTo(IF Current(app.nav).selected = 0 THEN ScreenItemCount(app) - 1
                          ELSE Current(app.nav).selected - 1))

\* Opening a node is remembered; several nodes of one signal are offered first.
Opened(ref) ==
  [app EXCEPT !.scroll = 0, !.history = <<ref>> \o @, !.nav = Append(@, NodeFocus(ref))]
SignalAt(selected) ==
  At(app.sections.signals, selected - (ItemCount(app.sections) - Len(app.sections.signals)))
Offered == {sig.affected : sig \in {g \in SignalAt(Current(app.nav).selected) :
                                       Current(app.nav).is = "Overview" /\ Len(g.affected) > 1}}
NavPush ==
  /\ InNormal
  /\ \/ \E matches \in Offered :
          Pressed([app EXCEPT !.scroll = 0, !.nav = Append(@, Disambiguation(matches))])
     \/ Offered = {} /\ \E ref \in Selected(app) : Pressed(Opened(ref))
     \/ Offered = {} /\ Selected(app) = {} /\ Pressed([app EXCEPT !.scroll = 0])

Back == InNormal /\ Pressed([app EXCEPT !.nav = Popped(@), !.scroll = 0])
OpenHistory == InNormal /\ Pressed([app EXCEPT !.nav = Append(@, History), !.scroll = 0])
StartSearch == InNormal /\ Pressed([app EXCEPT !.search = NewSearch, !.mode = "Search"])
ToggleHelp == InNormal /\ Pressed([app EXCEPT !.help = ~@])

\* The node `s` and `e` are about.
NodeInHand ==
  IF Current(app.nav).is = "NodeFocus" THEN Current(app.nav).node ELSE Selected(app)
SourceInHand == UNION {{[node |-> ref, path |-> path, scroll |-> 0] :
                           path \in NodeSourceLocation(app.graph, ref)} : ref \in NodeInHand}
ShowSource == InNormal /\ Pressed([app EXCEPT !.source = SourceInHand])
\* The editor runs while the loop waits: what it leaves behind is read by the next load.
OpenEditor == InNormal /\ Pressed(app)

CloseSource == InSource /\ Pressed([app EXCEPT !.source = {}])
ScrollSource(by) ==
  /\ InSource
  /\ \E view \in app.source :
       /\ view.scroll + by <= MaxScroll
       /\ Pressed([app EXCEPT !.source = {[view EXCEPT !.scroll = IF @ + by < 0 THEN 0 ELSE @ + by]}])
EditSource == InSource /\ Pressed(app)

(***************************************************************************)
(* Search.                                                                 *)
(***************************************************************************)
ContextCandidates(a) == ScreenRows(a, Current(a.nav))
Candidates(a) == IF a.search.scope = "Global" THEN AllNodeRefs(a.graph) ELSE ContextCandidates(a)
RefreshSearch(a) ==
  [a EXCEPT !.search.total = Len(Candidates(a)),
            !.search.results = Search(a.graph, a.search.query, Candidates(a), Words)]

Type(c) ==
  /\ InSearch
  /\ Pressed(RefreshSearch([app EXCEPT !.search.query = Append(@, c), !.search.selected = 0]))
Erase ==
  /\ InSearch
  /\ Pressed(RefreshSearch([app EXCEPT !.search.query = IF @ = <<>> THEN @ ELSE Front(@),
                                       !.search.selected = 0]))
ToggleScope ==
  /\ InSearch
  /\ Pressed(RefreshSearch([app EXCEPT !.search.scope = IF @ = "Context" THEN "Global" ELSE "Context"]))
SelectNext ==
  /\ InSearch
  /\ Pressed(IF app.search.results = <<>> THEN app
             ELSE [app EXCEPT !.search.selected = (@ + 1) % Len(app.search.results)])
SelectPrev ==
  /\ InSearch
  /\ Pressed(IF app.search.results = <<>> THEN app
             ELSE [app EXCEPT !.search.selected = IF @ = 0 THEN Len(app.search.results) - 1 ELSE @ - 1])
SearchEsc == InSearch /\ Pressed([app EXCEPT !.search = NewSearch, !.mode = "Normal"])
SearchEnter == InSearch /\ Pressed([app EXCEPT !.mode = "Normal"])

(***************************************************************************)
(* Refresh.                                                                *)
(***************************************************************************)
Stale(nav, graph) == Current(nav).is = "NodeFocus" /\ \A r \in Current(nav).node : ~Resolves(graph, r)
\* Stale screens are popped from the top, until one that is not.
PruneStaleTrail(nav, graph) ==
  SubSeq(nav, 1, CHOOSE n \in 1..Len(nav) : /\ ~Stale(SubSeq(nav, 1, n), graph)
                                            /\ \A m \in (n + 1)..Len(nav) : Stale(SubSeq(nav, 1, m), graph))
\* Mutant: the channel of the load before goes on being polled.
RefreshedOldChannel(a, graph, rx) ==
  [WithGraph(a, graph) EXCEPT !.phase2 = "Loading", !.scroll = 0, !.nav = PruneStaleTrail(@, graph)]
Refreshed(a, graph, rx) ==
  [WithGraph(a, graph) EXCEPT !.phase2 = "Loading", !.rx = rx, !.scroll = 0,
                              !.nav = PruneStaleTrail(@, graph)]
Refresh ==
  /\ InNormal /\ at = "event" /\ keys < MaxKeys
  /\ at' = "frame" /\ keys' = keys + 1
  /\ \E project \in Projects :
       IF ~project.collects THEN UNCHANGED <<loads, app, late>>
       ELSE /\ Len(loads) < MaxLoads
            /\ loads' = Append(loads, Spawned(project)) /\ late' = FALSE
            /\ \E order \in Orders(Phase1Builder(app.inv, project)) :
                 app' = Refreshed(app, BuildPhase1Graph(app.inv, project, order), Len(loads'))

Stopped == at \in {"ended", "panicked"} /\ UNCHANGED vars

Next ==
  \/ Frame \/ NoKey \/ CtrlC \/ Elapse \/ Stopped
  \/ \E l \in DOMAIN loads : Answer(l)
  \/ QuitKey \/ NavCursorDown \/ NavCursorUp \/ NavPush \/ Back \/ OpenHistory
  \/ StartSearch \/ ToggleHelp \/ ShowSource \/ OpenEditor \/ Refresh
  \/ CloseSource \/ ScrollSource(1) \/ ScrollSource(-1) \/ EditSource
  \/ (\E c \in Typed : Type(c)) \/ Erase \/ ToggleScope \/ SelectNext \/ SelectPrev
  \/ SearchEsc \/ SearchEnter

\* The loop never stops turning (a wait for a key lasts 50 ms), and the clock runs.
Fairness ==
  /\ WF_at(at = "frame" /\ at' \in {"event", "ended", "panicked"})
  /\ WF_at(at = "event" /\ at' = "frame")
  /\ WF_late(Loading(app) /\ at \in {"frame", "event"} /\ ~late /\ late' = TRUE)
Spec == Init /\ [][Next]_vars /\ Fairness

(***************************************************************************)
(* Properties.                                                             *)
(***************************************************************************)
NoRepeats(list) == \A i, j \in DOMAIN list : i # j => list[i] # list[j]
Ends(nodes, field) == {<<i, x>> \in (DOMAIN nodes) \X UNION {Range(nodes[k][field]) : k \in DOMAIN nodes} :
                         x \in Range(nodes[i][field])}
Owner(nodes, field) == UNION {{<<x, i>> : x \in nodes[i][field]} : i \in DOMAIN nodes}
Uses(graph) == {<<Ref("test", e[1]), e[2]>> : e \in Ends(graph.test, "deps")}
Turned(edges) == {<<e[2], e[1]>> : e \in edges}

(***************************************************************************)
(* Whatever was loaded, merged and refreshed, in whatever order: every     *)
(* edge of the graph is recorded at both of its ends (a test and its       *)
(* fixtures, a test and its marks, a fixture and the file or the plugin it *)
(* comes from), no edge is there twice, every index is that of a node, and *)
(* no two nodes of a kind have one name.  The builder                      *)
(* (graph/builder.rs) appends to vectors on both sides of an edge, twice   *)
(* over when phase 2 resumes from the graph of phase 1.                    *)
(***************************************************************************)
GraphWhole ==
  LET g == app.graph
  IN  /\ Turned(Uses(g)) = Ends(g.fixture, "consumers")
      /\ Turned(Ends(g.test, "marks")) = Ends(g.mark, "used_by")
      /\ Owner(g.fixture, "declaration") = Ends(g.declaration, "fixtures")
      /\ Owner(g.fixture, "plugin") = Ends(g.plugin, "fixtures")
      /\ \A kind \in Kinds : NoRepeats([i \in DOMAIN g[kind] |-> g[kind][i].name])
      /\ \A ref \in Range(AllNodeRefs(g)) :
           NoRepeats(CollectEdges(g, ref)) /\ \A e \in Range(CollectEdges(g, ref)) : Resolves(g, e)

(***************************************************************************)
(* While the loop waits for a key, a cursor that stands on something is on *)
(* a line of the left pane, on one only, within the lines that are shown,  *)
(* and that line names the node that Enter would open.  The line is        *)
(* counted while the pane is built (ui.rs) and the node is looked up by    *)
(* input.rs from the sections: two countings that have to agree.           *)
(***************************************************************************)
CursorOnTarget ==
  (at = "event" /\ Selected(app) # {}) =>
    LET lines == PaneLines(app, Current(app.nav))
    IN  \E line \in 0..(Len(lines) - 1) :
          /\ CursorOf(lines) = {line}
          /\ lines[line + 1].names = Selected(app)
          /\ app.scroll <= line /\ line < app.scroll + Visible

(***************************************************************************)
(* The right pane previews that same node, with no edge the node does not  *)
(* have, and however long the preview is the two panes fill the width of   *)
(* the terminal, neither narrower than three tenths (ui.rs:                *)
(* adaptive_layout).                                                       *)
(***************************************************************************)
PreviewFits ==
  (at = "event" /\ app.source = {}) =>
    LET preview == BuildPreviewContent(app)
    IN  /\ Selected(app) # {} => Previewed(app) = Selected(app)
        /\ \A line \in Range(preview), ref \in Previewed(app) :
             line.names \subseteq Range(CollectEdges(app.graph, ref))
        /\ \A width \in Widths :
             LET panes == AdaptiveLayout(width, Len(preview))
             IN  /\ panes.left + panes.right = width
                 /\ width >= 80 => 10 * panes.left >= 3 * width - 9 /\ 10 * panes.right >= 3 * width - 9

\* What is on the screen agrees with the state behind it.
ScreenTrue == CursorOnTarget /\ PreviewFits

(***************************************************************************)
(* The fixtures shown are those the newest load found, once its answer was *)
(* merged, and none before that: an answer of a load that a refresh has    *)
(* replaced is never merged, however late it comes (app.rs: poll_phase2,   *)
(* refresh).                                                               *)
(***************************************************************************)
NamesOf(nodes) == {nodes[i].name : i \in DOMAIN nodes}
FixtureDataCurrent ==
  NamesOf(app.graph.fixture) =
    IF app.phase2 = "Complete" THEN UNION {NamesOf(data.fixtures) : data \in loads[Len(loads)].data} ELSE {}

(***************************************************************************)
(* Nothing but a refresh moves a node: whatever is merged, every index of  *)
(* the graph goes on naming the node it named, so that the history, the    *)
(* search results and the screens below the one on top stay valid          *)
(* (app.rs: merge_phase2; builder.rs: from_graph).                         *)
(***************************************************************************)
NodesStay ==
  [][Len(loads') = Len(loads) =>
       \A ref \in Range(AllNodeRefs(app.graph)) :
         Resolves(app'.graph, ref) /\ NodeName(app'.graph, ref) = NodeName(app.graph, ref)]_vars

(***************************************************************************)
(* Loading comes to an end, however long the thread takes and whether or   *)
(* not it ever answers: the timeout of poll_phase2 sees to it.             *)
(***************************************************************************)
LoadingEnds == []<>(~Loading(app) \/ at \in {"ended", "panicked"})

(***************************************************************************)
(* Drawing never looks up a node that the graph does not have.  A comment  *)
(* of app.rs says that the trail is pruned after a refresh "to avoid stale *)
(* node-index panics".                                                     *)
(***************************************************************************)
NoStaleLookup == at # "panicked"
==============================================================================
