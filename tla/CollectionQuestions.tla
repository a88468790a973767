------------------------- MODULE CollectionQuestions -------------------------
(***************************************************************************)
(* What collection owes: the files of the roots, the homes of every test   *)
(* file registered once and in order, the same items with a warm cache as  *)
(* without one, and the tests a change concerns.                           *)
(***************************************************************************)
EXTENDS Questions

CONSTANTS Names \* file and directory names, in alphabetical order

C == INSTANCE Collection
A == INSTANCE AffectedTests

\* The walk of the roots a configuration names.
FindFiles ==
  /\ question.about = "walk" /\ Answering
  /\ answer' = C!CollectFilesIn(question.cfg.testpaths, question.tree, question.cfg)

\* Two collections with an edit of one file between them; the second has
\* the module cache the first one left.
Tree(file) == (question.path :> file) @@ question.rest
Edited == Tree(question.after)
CollectTwice ==
  /\ question.about = "collect" /\ Answering
  /\ LET then == [question.cfg EXCEPT !.strict = question.strict]
         before == C!CollectItems(question.files, Tree(question.before), question.cfg, question.plugins, <<>>)
         second(cache) == C!CollectItems(question.files, Edited, then, question.plugins, cache)
     IN  answer' = [warm |-> second(before.cache), cold |-> second(<<>>)]

FindAffected ==
  /\ question.about = "affected" /\ Answering
  /\ answer' = A!Affected(question.tests, question.tree, question.git)

CollectionNext == FindFiles \/ CollectTwice \/ FindAffected

IsOrderedBy(seq, less(_, _)) == \A i \in 1..(Len(seq) - 1) : ~less(seq[i + 1], seq[i])
Occurrences(seq, e) == Cardinality({i \in DOMAIN seq : seq[i] = e})

\* The walk returns, in order, every file whose name matches and which lies
\* under a root outside the excluded directories, and nothing else: a root
\* finds it once (collect_from, walk_matching).
FilesFound ==
  Answered("walk") =>
    LET cfg == question.cfg
        roots == cfg.testpaths
        \* the directories between a root and a file of it
        between(r, f) == {SubSeq(f, 1, n) : n \in (Len(r) + 1)..(Len(f) - 1)}
        finds(r, f) == IF r = f THEN Last(f) \in cfg.pythonFiles
                       ELSE /\ IsPrefix(r, f) /\ Last(f) \in cfg.pythonFiles
                            /\ \A d \in between(r, f) : Last(d) \notin cfg.norecurse
                            /\ cfg.useGitignore =>
                                 (between(r, f) \cup {f}) \cap cfg.gitignored = {}
    IN  /\ IsOrderedBy(answer, C!PathLess)
        /\ \A f \in DOMAIN question.tree :
             Occurrences(answer, f) = Cardinality({i \in DOMAIN roots : finds(roots[i], f)})

\* The homes a collected file can reach: from the tree root down to its own
\* directory, leaving out those a plugin owns and those with nothing to
\* register.
Reaches(file, tree, cfg, home) ==
  LET root == C!TreeRoot(tree, cfg)
      dir == Front(file)
  IN  /\ IsPrefix(Front(home), dir)
      /\ IF root # C!NoTree /\ IsPrefix(root, dir) THEN IsPrefix(root, Front(home)) ELSE Front(home) = dir
Registrable(file) == file.parses /\ \E s \in Range(file.stmts) : s.decorators # <<>>
Homes(tree) == {f \in DOMAIN tree : Last(f) \in Range(C!HomeFiles)}
HasTests(file) == ~file.parses \/ \E s \in Range(file.stmts) : s.kind = "FunctionDef" /\ s.name[1] = "test_"

\* Each home is registered exactly once, within the tree an outer directory
\* before an inner one, and it makes no difference that the items came from the cache
\* (register_homes_in_chain runs before the cache is asked; the workers
\* register the list recorded here).
HomesRegisteredOnce ==
  Answered("collect") =>
    \A run \in {answer.warm, answer.cold} :
      LET calls == run.calls
          tree == Edited
          wanted(h) == /\ Registrable(tree[h]) /\ Front(h) \notin question.plugins
                       /\ \E f \in Range(question.files) : HasTests(tree[f]) /\ Reaches(f, tree, question.cfg, h)
      IN  /\ \A h \in Homes(tree) : Occurrences(calls, h) = IF wanted(h) THEN 1 ELSE 0
          /\ \A i, j \in DOMAIN calls :
               i < j /\ IsPrefix(C!TreeRoot(tree, question.cfg), Front(calls[j])) =>
                 ~IsStrictPrefix(Front(calls[j]), Front(calls[i]))
          /\ [i \in DOMAIN run.modules |-> run.modules[i].module] = calls

\* A collection that finds items in the module cache collects what a cold
\* one does, reports the same errors and violations, and still imports
\* every file that may declare fixtures inline: provided that what a file
\* imports to did not change under an unchanged source, which the
\* fingerprint cannot see.
WarmEqualsCold ==
  /\ Answered("collect")
  /\ C!FromSource(question.before) = C!FromSource(question.after) => question.before = question.after
  =>
    LET warm == answer.warm
        cold == answer.cold
        declares(file) == \E s \in Range(file.stmts) : \E d \in Range(s.decorators) :
                             d.kind = "Call" /\ d.kids[1].id = <<"fixture">>
    IN  /\ warm.items = cold.items
        /\ warm.errors = cold.errors /\ warm.violations = cold.violations
        /\ warm.diagnostics = cold.diagnostics /\ warm.modules = cold.modules
        /\ \A f \in Range(cold.imported) : declares(Edited[f]) => f \in Range(warm.imported)

\* A fixture that outlives every package is accepted in the one directory
\* that contains the whole test tree while no smaller one does, and refused
\* everywhere else.  The tree is what testpaths declares and holds tests,
\* or where the tests are (register_and_record, rootdir_package).
ProcessFixturesAtTheRoot ==
  Answered("collect") =>
    LET tree == Edited
        tests == {f \in DOMAIN tree : Last(f) \in question.cfg.pythonFiles}
        declared == Range(question.cfg.declared)
        holding == {d \in declared : \E t \in tests : IsPrefix(d, t)}
        dirs == IF declared = {} THEN {Front(t) : t \in tests} ELSE holding
        atTop(dir) == /\ \A d \in dirs : IsPrefix(dir, d)
                      /\ ~\E n \in DOMAIN Names : \A d \in dirs : IsPrefix(Append(dir, Names[n]), d)
        over(h) == tree[h].imports /\ \E d \in Range(tree[h].declares) : d.lifetime = <<"process">>
        refused == {e.file : e \in {x \in Range(answer.cold.errors) : x.why = "process"}}
    IN  \A h \in Range(answer.cold.calls) : over(h) => (h \in refused <=> ~atTop(Front(h)))

\* Declaration homes are registered once, in order, and below the right root.
HomesRegistered == HomesRegisteredOnce /\ ProcessFixturesAtTheRoot

\* Collection finds the files there are, registers what they can reach and
\* gives the same answer from its cache as without it.
CollectionExact == FilesFound /\ HomesRegistered /\ WarmEqualsCold

\* --affected runs what its documentation says: every test when the project
\* file changed or git cannot answer; otherwise a changed test file, the
\* tests in or below the directory of a changed declaration file, and the
\* tests that import the package of a changed source file.
AffectedAsDocumented ==
  Answered("affected") =>
    LET changed == Range(question.git.changed)
        git == question.git
        python == {c \in changed : c.kind = "py"}
        declarations == {c \in python : Last(c.path) \in {"__init__", "__fixtures__"}}
        imports(t) == {s.name[1] : s \in {x \in Range(question.tree[t].stmts) : x.kind \in {"Import", "ImportFrom"}}}
        concerned(t) ==
          \/ \E c \in python \ declarations : t = git.root \o c.path
          \/ \E c \in declarations : IsPrefix(git.root \o Front(c.path), t)
          \/ \E c \in python \ declarations : question.tree[t].parses /\ c.path[1] \in imports(t)
        all == ~git.locates \/ ~git.compares \/ A!Changed(<<"pyproject">>, "toml") \in changed
        expected == IF all THEN Range(question.tests) ELSE {t \in Range(question.tests) : concerned(t)}
    IN  IF expected = {} THEN answer = [exit |-> "Success"]
        ELSE /\ "files" \in DOMAIN answer /\ Range(answer.files) = expected
             /\ Len(answer.files) = Cardinality(expected)
             /\ \A i, j \in DOMAIN answer.files : \E k, l \in DOMAIN question.tests :
                  i < j => k < l /\ answer.files[i] = question.tests[k] /\ answer.files[j] = question.tests[l]
==============================================================================
