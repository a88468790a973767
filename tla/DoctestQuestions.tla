-------------------------- MODULE DoctestQuestions --------------------------
(***************************************************************************)
(* What the scan for doctests and the audit of documented examples owe:    *)
(* no example is lost, no undocumented definition passes, and an entry of  *)
(* the configuration is called stale only when it is.                      *)
(***************************************************************************)
EXTENDS Questions

D == INSTANCE Doctests

ReadDocstring ==
  /\ question.about = "docstring" /\ Answering
  /\ answer' = D!ParseDocstringExamples(question.lines)

ReadEntry ==
  /\ question.about = "entry" /\ Answering
  /\ answer' = D!ParseScope([kind |-> "list", value |-> <<question.text>>])

\* The doctests that run.
FindDoctests ==
  /\ question.about = "doctests" /\ Answering
  /\ answer' = D!CollectDoctestItems(SetToSeq(DOMAIN question.project.files), question.project.files)

\* The tree the project declares, and its files.
AuditRoots(cfg) == IF cfg.roots # <<>> THEN cfg.roots ELSE IF cfg.declared = <<>> THEN <<<<>>>> ELSE cfg.declared
DeclaredFiles(project, cfg) ==
  {f \in DOMAIN project.files : \E root \in Range(AuditRoots(cfg)) : D!IsPathPrefix(root, f)}
AuditProject ==
  /\ question.about = "audit" /\ Answering
  /\ answer' = D!SplitCoverageDiagnostics(
       D!CollectCoverageDiagnostics(SetToSeq(DeclaredFiles(question.project, question.cfg)), question.project,
                                    question.cfg, AuditRoots(question.cfg)), question.cfg.strict)

DoctestNext == ReadDocstring \/ ReadEntry \/ FindDoctests \/ AuditProject

\* The places of the lines that start an example, in order.
PromptsOf(lines) == SetToSortSeq({i \in DOMAIN lines : D!IsPrompt(lines[i])}, <)
\* The lines up to the next prompt or blank line.
BelongingTo(lines, i) ==
  {j \in i + 1..Len(lines) : \A k \in i + 1..j : lines[k] # <<>> /\ ~D!IsPrompt(lines[k])}

\* Every prompt of a docstring starts an example of its own, in order; up
\* to the next prompt or blank line its "..." lines are source and the
\* other lines are the output it wants, and no line is used twice.
ExamplesComplete ==
  Answered("docstring") =>
    LET prompts == PromptsOf(question.lines)
        more(k) == {j \in BelongingTo(question.lines, prompts[k]) : D!IsContinuation(question.lines[j])}
    IN  /\ Len(answer) = Len(prompts)
        /\ \A k \in DOMAIN prompts :
             /\ answer[k].lineno = prompts[k] - 1
             /\ Len(answer[k].source) = 1 + Cardinality(more(k))
             /\ Len(answer[k].want) = Cardinality(BelongingTo(question.lines, prompts[k]) \ more(k))

\* An accepted entry is shown in messages as it was written, and stays
\* below the rootdir.
EntriesKept ==
  Answered("entry") /\ answer.kind # "refused" =>
    \A e \in Range(answer.entries) :
      /\ D!RenderEntry(e) = question.text
      /\ e.path # <<>> /\ \A c \in Range(e.path) : c # <<"..">> /\ c # <<>>
      /\ e.kind = "Member" <=> Cardinality({i \in DOMAIN question.text : question.text[i] = "::"}) = 2

\* The docstrings of a file: of the module, of its functions and classes,
\* and of their methods.
BodiesOf(file) ==
  {file.stmts} \cup {s.body : s \in {t \in Range(file.stmts) : D!Defines(t)}}
    \cup UNION {{m.body : m \in {n \in Range(s.body) : D!Py!IsDef(n)}} : s \in {t \in Range(file.stmts) : t.kind = "ClassDef"}}
Documents(body) == \E doc \in D!ExtractDocstring(body) : \E line \in Range(doc) : D!IsPrompt(line)

\* Each docstring with a prompt, of a file that parses, is one test, and
\* nothing else is (docs: "Each docstring with >>> examples becomes a
\* single test item").
DoctestsFound ==
  Answered("doctests") =>
    \A f \in DOMAIN question.project.files :
      LET file == question.project.files[f]
          bodies == {b \in BodiesOf(file) : file.parses /\ Documents(b)}
      IN  Cardinality({k \in DOMAIN answer : answer[k].module = f}) = Cardinality(bodies)

(***************************************************************************)
(* What a public name stands for, followed from module to module.          *)
(***************************************************************************)
ModuleOf(f) == D!DottedPathForFile(f, question.project.files)
Audited == {f \in DeclaredFiles(question.project, question.cfg) :
              /\ Last(f) \notin question.cfg.testNames /\ Last(f) # <<"conftest", ".py">>
              /\ Range(f) \cap question.cfg.norecursedirs = {}}
NextNames(at) ==
  UNION {UNION {IF s.kind = "AliasImport" THEN {<<s.module, s.name>>}
                ELSE IF s.kind = "LocalAlias" THEN {<<at[1], s.name>>} ELSE {} :
                  s \in D!ClassifyTopLevelBinding(question.project.files[f].stmts, at[2])} :
           f \in {g \in D!Resolve(question.project, at[1]) : question.project.files[g].parses}}
NamesFrom(at) ==
  LET grow(names) == names \cup UNION {NextNames(n) : n \in names}
  IN  grow(grow(grow(grow({at}))))
\* The definitions a name leads to.
DefinitionsOf(at) ==
  UNION {UNION {{[file |-> f, def |-> d] : d \in D!FindDefByName(question.project.files[f].stmts, n[2])} :
                  f \in {g \in D!Resolve(question.project, n[1]) : question.project.files[g].parses}} : n \in NamesFrom(at)}
Wanting(body) ==
  \A doc \in D!ExtractDocstring(body) :
    (\A line \in Range(doc) : ~D!IsPrompt(line)) \/ ({<<"Examples:">>, <<"Example:">>} \cap Range(doc) = {})
SubjectsOf(f) == Range(D!EnumerateSubjects(question.project.files[f].stmts, ModuleOf(f), f))
Told == Range(answer.errors) \cup Range(answer.pending)
Audits == question.cfg.table /\ question.cfg.strict \in {"enforce", "abort"}
            /\ \A r \in Range(question.cfg.roots) : D!PathExists(r, question.project.files)

\* Under scope = "public" with nothing skipped, whatever definition a public
\* name of a public module leads to, through re-exports in other modules or
\* assignments, is told of when it has no Examples section with a prompt;
\* and a definition that is told of has none.
GapsTold ==
  Answered("audit") /\ Audits /\ question.cfg.scope.kind = "public" =>
    /\ question.cfg.skip = <<>> =>
         \A f \in {g \in Audited : question.project.files[g].parses /\ D!IsPublicModulePath(ModuleOf(g))} :
           \A s \in SubjectsOf(f) :
             ~D!IsPrivate(s.name) =>
               \A d \in DefinitionsOf(<<ModuleOf(f), s.name>>) :
                 Wanting(d.def.body) => \E t \in Told : t.context = "doctest.coverage" /\ t.file = {d.file} /\ t.lineno = d.def.line
    /\ \A t \in Told : t.context = "doctest.coverage" =>
         \E f \in Audited : \E s \in SubjectsOf(f) : s.id = t.about /\ \E n \in NamesFrom(<<s.module, s.name>>) :
           /\ t.file = D!Resolve(question.project, n[1])
           /\ \A g \in t.file : \A d \in D!FindDefByName(question.project.files[g].stmts, n[2]) : Wanting(d.body)

\* An entry is called stale at most once.  One that names a class or function
\* (or a method) of an audited file is not; one whose path is missing or
\* outside the audited tree, or whose file parses and does not bind the
\* name, is: a verdict on the entry, not on what else is in scope.
NamesSubject(entry, file) ==
  CASE entry.kind = "Symbol" -> \E s \in Range(D!EnumerateSubjects(file.stmts, <<>>, entry.path)) : s.name = entry.name
    [] entry.kind = "Member" -> D!FindClassMethod(file.stmts, entry.cls, entry.name) # {}
    [] OTHER -> TRUE
Binds(entry, file) ==
  IF entry.kind = "Symbol" THEN D!ClassifyTopLevelBinding(file.stmts, entry.name) # {} ELSE NamesSubject(entry, file)
ReExports(entry, file) ==
  entry.kind = "Symbol" /\ \E s \in D!ClassifyTopLevelBinding(file.stmts, entry.name) : s.kind = "AliasImport"
\* A method listed under the name of a function: f.py::name matches it too.
NamesakeListed(entry) ==
  \E e \in Range(question.cfg.scope.entries) : e.kind = "Member" /\ e.path = entry.path /\ e.name = entry.name /\ e # entry
StaleOf(entry) == {t \in Told : t.about = D!RenderEntry(entry) /\ t.context \in {"doctest.coverage.stale-scope", "doctest.coverage.stale-skip"}}
StaleEntriesTold ==
  Answered("audit") /\ Audits =>
    \A e \in Range(question.cfg.scope.entries) :
      /\ Cardinality(StaleOf(e)) <= 1
      /\ e.path \in Audited /\ question.project.files[e.path].parses =>
           /\ NamesSubject(e, question.project.files[e.path]) /\ ~ReExports(e, question.project.files[e.path]) => StaleOf(e) = {}
           /\ ~Binds(e, question.project.files[e.path]) /\ ~NamesakeListed(e) => StaleOf(e) # {}
      /\ (\A f \in DeclaredFiles(question.project, question.cfg) : ~D!IsPathPrefix(e.path, f)) => StaleOf(e) # {}

\* strict = "abort" turns every verdict of the audit into an error of the
\* collection and "enforce" none; a root that does not exist silences the
\* audit, never the error; without the table or under "off" it is silent.
SeverityFollowsStrict ==
  Answered("audit") =>
    /\ question.cfg.strict = "abort" => answer.pending = <<>>
    /\ question.cfg.strict # "abort" => answer.errors = <<>>
    /\ ~question.cfg.table \/ question.cfg.strict \in {"none", "off"} => Told = {}
    /\ question.cfg.table /\ question.cfg.strict = "abort"
         /\ (\E r \in Range(question.cfg.roots) : ~D!PathExists(r, question.project.files)) => answer.errors # <<>>

\* Doctests and their audit: examples, tests, gaps and entries.
DoctestsAccounted ==
  ExamplesComplete /\ EntriesKept /\ DoctestsFound /\ GapsTold /\ StaleEntriesTold /\ SeverityFollowsStrict
==============================================================================
