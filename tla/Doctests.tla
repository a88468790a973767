------------------------------ MODULE Doctests ------------------------------
(***************************************************************************)
(* Doctests and the audit of documented examples (src/doctest/*.rs, the    *)
(* doctest part of src/pipeline/collection.rs, the scope entries of        *)
(* src/config/pyproject.rs).                                               *)
(*                                                                         *)
(* A path is the sequence of its components below the rootdir; a component *)
(* or a name is a text: <<"a", ".py">>, <<"_", "g">>, and the dotted name  *)
(* of a module is one: <<"p", ".", "m">>.  A docstring is the sequence of  *)
(* its trimmed lines: <<">>>", "x">>, <<"...", "y">>, <<"Examples:">>.     *)
(* A project has its files (a function from paths to [parses, stmts]) and  *)
(* the directories of the rootdir in the order a walk meets them.          *)
(***************************************************************************)
EXTENDS Integers, Sequences, FiniteSets, SequencesExt

Py == INSTANCE PythonSource
S == INSTANCE Selection

InitStem == <<"_", "_init__">>
InitFile == <<"_", "_init__", ".py">>
DunderAll == <<"_", "_all__">>
IsPrivate(text) == text # <<>> /\ text[1] = "_"

Joined(parts, sep) ==
  IF parts = <<>> THEN <<>> ELSE FoldLeft(LAMBDA acc, part : Append(acc, sep) \o part, Head(parts), Tail(parts))
SplitOn(text, sep) ==
  FoldLeft(LAMBDA acc, sym : IF sym = sep THEN Append(acc, <<>>) ELSE Append(Front(acc), Append(Last(acc), sym)), <<<<>>>>, text)

\* A string literal: a name of __all__, or a docstring.
Str(name, lines) == Py!Expr("Str", name, lines)
Alias(name, asname) == Py!Expr("Alias", name, asname)
Bound(alias) == IF alias.kids = <<>> THEN alias.id ELSE alias.kids[1]

(***************************************************************************)
(* The examples of a docstring.                                            *)
(***************************************************************************)
IsPrompt(line) == line # <<>> /\ line[1] = ">>>"
IsContinuation(line) == line # <<>> /\ line[1] = "..."
NoExample == [examples |-> <<>>, pending |-> <<>>, want |-> <<>>]
Flush(s) ==
  IF s.pending = <<>> THEN s
  ELSE [examples |-> Append(s.examples, [source |-> s.pending[1].source, want |-> s.want, lineno |-> s.pending[1].lineno]),
        pending |-> <<>>, want |-> <<>>]
ReadLine(s, line, index) ==
  CASE IsPrompt(line) -> [Flush(s) EXCEPT !.pending = <<[source |-> <<Tail(line)>>, lineno |-> index]>>]
    [] IsContinuation(line) ->
         IF s.pending = <<>> THEN s ELSE [s EXCEPT !.pending[1].source = Append(@, Tail(line))]
    [] OTHER -> IF s.pending # <<>> /\ line # <<>> THEN [s EXCEPT !.want = Append(@, line)] ELSE Flush(s)
ParseDocstringExamples(lines) ==
  Flush(FoldLeft(LAMBDA s, i : ReadLine(s, lines[i], i - 1), NoExample, [i \in DOMAIN lines |-> i])).examples
HeaderPresent(lines) == \E line \in Range(lines) : line \in {<<"Examples:">>, <<"Example:">>}

\* The docstring of a body: none, or one.
ExtractDocstring(body) ==
  IF body # <<>> /\ body[1].kind = "Expr" /\ body[1].exprs[1].kind = "Str" THEN {body[1].exprs[1].kids} ELSE {}

TryPushDoctest(name, body, line) ==
  IF \E doc \in ExtractDocstring(body) : ParseDocstringExamples(doc) # <<>>
  THEN <<[name |-> name, lineno |-> line]>> ELSE <<>>
Stem(file) == IF Last(file) = ".py" THEN Front(file) ELSE file
ScanFn(prefix, stmt) ==
  IF Py!IsDef(stmt) THEN TryPushDoctest(Append(prefix, stmt.name), stmt.body, stmt.line) ELSE <<>>
ScanStmt(module, stmt) ==
  IF stmt.kind = "ClassDef"
  THEN TryPushDoctest(<<module, stmt.name>>, stmt.body, stmt.line)
         \o FlattenSeq([i \in DOMAIN stmt.body |-> ScanFn(<<module, stmt.name>>, stmt.body[i])])
  ELSE ScanFn(<<module>>, stmt)
ScanDoctests(path, file) ==
  IF ~file.parses THEN <<>>
  ELSE TryPushDoctest(<<Stem(Last(path))>>, file.stmts, 1)
         \o FlattenSeq([i \in DOMAIN file.stmts |-> ScanStmt(Stem(Last(path)), file.stmts[i])])

\* The tests the doctests of a run become.
DoctestItem(path, loc) ==
  [module |-> path, fn |-> <<"<doctest>">> \o loc.name, lineno |-> loc.lineno, markers |-> <<"doctest">>]
ItemsOfFile(path, locations) == [k \in DOMAIN locations |-> DoctestItem(path, locations[k])]
CollectDoctestItems(paths, files) ==
  FlattenSeq([i \in DOMAIN paths |-> ItemsOfFile(paths[i], ScanDoctests(paths[i], files[paths[i]]))])

(***************************************************************************)
(* The entries of scope and skip, written as texts with "/" and "::".      *)
(***************************************************************************)
Components(text) == SelectSeq(SplitOn(text, "/"), LAMBDA c : c # <<>>)
Refused == [kind |-> "refused"]
ScopeEntry(kind, path, cls, name) == [kind |-> kind, path |-> Components(path), written |-> path, cls |-> cls, name |-> name]
EndsIn(text, sym) == text # <<>> /\ Last(text) = sym
ScopeEntryOf(file, chain) ==
  CASE \E k \in DOMAIN chain : chain[k] = <<>> -> Refused
    [] ~EndsIn(file, ".py") -> Refused
    [] Len(chain) = 1 -> ScopeEntry("Symbol", file, <<>>, chain[1])
    [] Len(chain) = 2 -> ScopeEntry("Member", file, chain[1], chain[2])
    [] OTHER -> Refused
ParseScopeEntryStr(raw) ==
  IF (raw # <<>> /\ raw[1] = "/") \/ <<"..">> \in Range(Components(raw)) THEN Refused
  ELSE IF S!SplitNodeIdStr(raw).chain # <<>> THEN ScopeEntryOf(S!SplitNodeIdStr(raw).file, S!SplitNodeIdStr(raw).chain)
  ELSE IF EndsIn(raw, "/") THEN ScopeEntry("Prefix", raw, <<>>, <<>>)
  ELSE IF EndsIn(raw, ".py") THEN ScopeEntry("File", raw, <<>>, <<>>)
  ELSE Refused
RenderEntry(e) ==
  CASE e.kind = "Symbol" -> e.written \o <<"::">> \o e.name
    [] e.kind = "Member" -> e.written \o <<"::">> \o e.cls \o <<"::">> \o e.name
    [] OTHER -> e.written

\* scope: "public", or a list of entries.
Public == [kind |-> "public", entries |-> <<>>]
Listed(entries) == [kind |-> "list", entries |-> entries]
ParseScope(given) ==
  CASE given.kind = "scalar" -> IF given.value = "public" THEN Public ELSE Refused
    [] OTHER -> LET entries == [i \in DOMAIN given.value |-> ParseScopeEntryStr(given.value[i])]
                IN  IF Refused \in Range(entries) THEN Refused ELSE Listed(entries)

(***************************************************************************)
(* The subjects of a module: its public names, and what each is bound to.  *)
(***************************************************************************)
IsPublicModulePath(dotted) == \A part \in Range(SplitOn(dotted, ".")) : ~IsPrivate(part)
DottedPathFor(rel) ==
  LET parts == Append(Front(rel), Stem(Last(rel)))
  IN  Joined(IF Last(parts) = InitStem THEN Front(parts) ELSE parts, ".")
\* The directories above the outermost package are no part of the name.
DottedPathForFile(rel, files) ==
  LET bare == {k \in 0..Len(rel) - 1 : Append(SubSeq(rel, 1, k), InitFile) \notin DOMAIN files}
  IN  IF bare = {} THEN DottedPathFor(rel) ELSE DottedPathFor(SubSeq(rel, Max(bare) + 1, Len(rel)))

Source(kind, module, name) == [kind |-> kind, module |-> module, name |-> name]
LocalDefinition == Source("LocalDefinition", <<>>, <<>>)
AliasImport(module, name) == Source("AliasImport", module, name)
ClassifyRhs(rhs) ==
  Source(CASE rhs.kind = "Name" -> "LocalAlias" [] rhs.kind = "Call" -> "CallRhs" [] OTHER -> "Unknown", <<>>, rhs.id)

\* The name a statement assigns alone.
AssignedNames(stmt) ==
  IF stmt.kind = "Assign" /\ Len(Py!Targets(stmt)) = 1 /\ Py!Targets(stmt)[1].kind = "Name"
  THEN {Py!Targets(stmt)[1].id} ELSE {}
Defines(stmt) == stmt.kind = "ClassDef" \/ Py!IsDef(stmt)
\* A relative import (kind RelativeImport) binds nothing the scan knows of.
BindingOf(stmt, name) ==
  CASE Defines(stmt) -> IF stmt.name = name THEN {LocalDefinition} ELSE {}
    [] stmt.kind = "ImportFrom" ->
         LET k == SelectInSeq(stmt.exprs, LAMBDA alias : Bound(alias) = name)
         IN  IF k = 0 THEN {} ELSE {AliasImport(stmt.name, stmt.exprs[k].id)}
    [] OTHER -> IF name \in AssignedNames(stmt) THEN {ClassifyRhs(Py!Value(stmt))} ELSE {}
ClassifyTopLevelBinding(stmts, name) ==
  LET k == SelectInSeq(stmts, LAMBDA stmt : BindingOf(stmt, name) # {})
  IN  IF k = 0 THEN {} ELSE BindingOf(stmts[k], name)

ExtractDunderAll(stmts) ==
  LET k == SelectInSeq(stmts, LAMBDA stmt : DunderAll \in AssignedNames(stmt) /\ Py!Value(stmt).kind = "List")
      names == SelectSeq(Py!Value(stmts[k]).kids, LAMBDA e : e.kind = "Str")
  IN  IF k = 0 THEN {} ELSE {[i \in DOMAIN names |-> names[i].id]}
FallbackTopLevelNames(stmts) ==
  LET names(stmt) == IF Defines(stmt) THEN {stmt.name} ELSE AssignedNames(stmt)
      public(stmt) == {n \in names(stmt) : ~IsPrivate(n)}
  IN  FlattenSeq([i \in DOMAIN stmts |-> SetToSeq(public(stmts[i]))])
Subject(module, name, source, file, class) ==
  [id |-> Joined(<<module>> \o class \o <<name>>, "."), module |-> module, name |-> name, source |-> source, file |-> file, class |-> class]
SubjectsNamed(stmts, module, file, names) ==
  FlattenSeq([i \in DOMAIN names |->
    SetToSeq({Subject(module, names[i], src, file, <<>>) : src \in ClassifyTopLevelBinding(stmts, names[i])})])
EnumerateSubjects(stmts, module, file) ==
  SubjectsNamed(stmts, module, file,
    IF ExtractDunderAll(stmts) = {} THEN FallbackTopLevelNames(stmts) ELSE CHOOSE names \in ExtractDunderAll(stmts) : TRUE)

(***************************************************************************)
(* Where a re-exported name is defined.                                    *)
(***************************************************************************)
TryResolveUnder(files, base, dotted) ==
  LET target == base \o (IF dotted = <<>> THEN <<>> ELSE SplitOn(dotted, "."))
      init == Append(target, InitFile)
      module == IF target = <<>> THEN <<>> ELSE Append(Front(target), Append(Last(target), ".py"))
  IN  IF init \in DOMAIN files THEN {init} ELSE {module} \cap DOMAIN files
SourceRootCandidates(project) ==
  SelectSeq([i \in DOMAIN project.order |-> <<project.order[i]>>], LAMBDA d : Append(d, InitFile) \notin DOMAIN project.files)
ResolveIn(files, bases, dotted) ==
  LET k == SelectInSeq(bases, LAMBDA base : TryResolveUnder(files, base, dotted) # {})
  IN  IF k = 0 THEN {} ELSE TryResolveUnder(files, bases[k], dotted)
Resolve(project, dotted) == ResolveIn(project.files, <<<<>>>> \o SourceRootCandidates(project), dotted)

\* A class, or a function whose body is not a stub.
FindDefByName(stmts, name) ==
  LET k == SelectInSeq(stmts, LAMBDA s : Defines(s) /\ s.name = name /\ (Py!IsDef(s) => ~Py!IsStubBody(s.body)))
  IN  IF k = 0 THEN {} ELSE {stmts[k]}
FindClassMethod(stmts, cls, name) ==
  {m \in UNION {FindDefByName(c.body, name) : c \in {d \in FindDefByName(stmts, cls) : d.kind = "ClassDef"}} : Py!IsDef(m)}

\* What a search ends in.  Only stubs: a debug build stops at an assertion,
\* a release build finds no docstring, on line 0.
Found(file, defs) ==
  [error |-> "", file |-> {file}, lineno |-> IF defs = {} THEN 0 ELSE (CHOOSE d \in defs : TRUE).line,
   doc |-> UNION {ExtractDocstring(d.body) : d \in defs}]
WalkFailed(error) == [error |-> error, file |-> {}, lineno |-> 0, doc |-> {}]

RECURSIVE WalkAlias(_, _, _)
FollowBinding(project, at, seen, path, stmts, source) ==
  CASE source.kind = "LocalDefinition" -> Found(path, FindDefByName(stmts, at[2]))
    [] source.kind = "LocalAlias" -> WalkAlias(project, <<at[1], source.name>>, seen \cup {at})
    [] source.kind = "AliasImport" -> WalkAlias(project, <<source.module, source.name>>, seen \cup {at})
    [] OTHER -> WalkFailed("UnknownTerminus")
WalkBinding(project, at, seen, path, stmts, sources) ==
  IF sources = {} THEN WalkFailed("NameNotFound")
  ELSE FollowBinding(project, at, seen, path, stmts, CHOOSE s \in sources : TRUE)
WalkFile(project, at, seen, path) ==
  IF ~project.files[path].parses THEN WalkFailed("ParseFailure")
  ELSE WalkBinding(project, at, seen, path, project.files[path].stmts, ClassifyTopLevelBinding(project.files[path].stmts, at[2]))
WalkModule(project, at, seen, paths) ==
  IF paths = {} THEN WalkFailed("ModuleFileNotFound") ELSE WalkFile(project, at, seen, CHOOSE f \in paths : TRUE)
WalkAlias(project, at, seen) ==
  IF at \in seen THEN WalkFailed("Cycle") ELSE WalkModule(project, at, seen, Resolve(project, at[1]))
ResolveAlias(project, source, module) ==
  WalkAlias(project, <<IF source.kind = "AliasImport" THEN source.module ELSE module, source.name>>, {})

(***************************************************************************)
(* The audit: every subject in scope has an Examples section that runs.    *)
(***************************************************************************)
IsPathPrefix(prefix, path) == Len(prefix) <= Len(path) /\ SubSeq(path, 1, Len(prefix)) = prefix
Diag(context, about, what, file, lineno) ==
  [context |-> context, about |-> about, what |-> what, file |-> file, lineno |-> lineno]

Gap(doc) ==
  CASE ~\E d \in doc : HeaderPresent(d) -> "MissingHeader"
    [] \E d \in doc : HeaderPresent(d) /\ ParseDocstringExamples(d) = <<>> -> "HeaderNoExamples"
    [] OTHER -> "Covered"
AtLeastOne(lineno) == IF lineno = 0 THEN 1 ELSE lineno
DiagnosticForGap(subject, found) ==
  IF Gap(found.doc) = "Covered" THEN <<>>
  ELSE <<Diag("doctest.coverage", subject.id, Gap(found.doc), found.file, AtLeastOne(found.lineno))>>
DiagnosticForWalkError(subject, error, file) == <<Diag("doctest.coverage.analysis", subject.id, error, file, 1)>>
\* The docstring of a definition of the scanned file itself.
FoundLocally(subject, scanned) ==
  LET module == scanned[subject.module]
  IN  Found(module.file, IF subject.class # <<>> THEN FindClassMethod(module.stmts, subject.class[1], subject.name)
                         ELSE FindDefByName(module.stmts, subject.name))
CheckAlias(project, subject, found) ==
  CASE found.error = "" -> DiagnosticForGap(subject, found)
    [] found.error = "UnknownTerminus" -> <<>>
    [] OTHER -> DiagnosticForWalkError(subject, found.error, Resolve(project, subject.module))
CheckSubject(project, subject, scanned) ==
  CASE subject.source.kind = "LocalDefinition" -> DiagnosticForGap(subject, FoundLocally(subject, scanned))
    [] subject.source.kind \in {"AliasImport", "LocalAlias"} ->
         CheckAlias(project, subject, ResolveAlias(project, subject.source, subject.module))
    [] subject.source.kind = "CallRhs" -> <<>>
    [] OTHER -> DiagnosticForWalkError(subject, "UnknownShape", Resolve(project, subject.module))

SubjectMatches(entry, subject) ==
  CASE entry.kind = "Prefix" -> IsPathPrefix(entry.path, subject.file)
    [] entry.kind = "File" -> subject.file = entry.path
    [] entry.kind = "Symbol" -> subject.file = entry.path /\ subject.name = entry.name
    [] OTHER -> subject.file = entry.path /\ subject.class = <<entry.cls>> /\ subject.name = entry.name
\* Mutant: the search stops at the first entry that matches.
HitsFirst(entries, subject) ==
  LET k == SelectInSeq(entries, LAMBDA e : SubjectMatches(e, subject)) IN {k} \ {0}
Hits(entries, subject) == {i \in DOMAIN entries : SubjectMatches(entries[i], subject)}
\* The subjects left, and the entries that matched one.  An entry of skip
\* is tried only on what scope let through.
InScope(subject, scope) ==
  /\ scope.kind = "public" => ~IsPrivate(subject.name)
  /\ scope.entries # <<>> => Hits(scope.entries, subject) # {}
FilterSubjectsByScope(subjects, scope, skip) ==
  LET within == SelectSeq(subjects, LAMBDA s : InScope(s, scope))
  IN  [kept |-> SelectSeq(within, LAMBDA s : Hits(skip, s) = {}),
       scopeHits |-> UNION {Hits(scope.entries, s) : s \in Range(within)},
       skipHits |-> UNION {Hits(skip, s) : s \in Range(within)}]

FileCouldMatch(rel, entries) ==
  \E e \in Range(entries) : IF e.kind = "Prefix" THEN IsPathPrefix(e.path, rel) ELSE rel = e.path

\* The methods a list of entries names.
MemberSubjects(entries, scanned, files) ==
  LET seeds(e) ==
        IF e.kind # "Member" THEN {}
        ELSE {Subject(m, e.name, LocalDefinition, e.path, <<e.cls>>) :
                m \in {d \in {DottedPathForFile(e.path, files)} \cap DOMAIN scanned :
                         FindClassMethod(scanned[d].stmts, e.cls, e.name) # {}}}
  IN  FlattenSeq([i \in DOMAIN entries |-> SetToSeq(seeds(entries[i]))])
\* A re-export whose target is itself a subject is not audited twice.
DedupAliases(subjects) ==
  LET sites == {s.id : s \in {t \in Range(subjects) : t.source = LocalDefinition}}
  IN  SelectSeq(subjects, LAMBDA s : s.source.kind = "AliasImport" => Joined(<<s.source.module, s.source.name>>, ".") \notin sites)

\* Of two files with one dotted name the later one stands for both.
ScannedModules(paths, files) ==
  [d \in {DottedPathForFile(f, files) : f \in Range(paths)} |->
     LET f == paths[SelectLastInSeq(paths, LAMBDA g : DottedPathForFile(g, files) = d)]
     IN  [file |-> f, stmts |-> files[f].stmts]]
OwnSubjects(paths, files) ==
  FlattenSeq([i \in DOMAIN paths |-> EnumerateSubjects(files[paths[i]].stmts, DottedPathForFile(paths[i], files), paths[i])])
CheckKept(project, scanned, filtered) ==
  [filtered EXCEPT !.kept = FlattenSeq([i \in DOMAIN @ |-> CheckSubject(project, @[i], scanned)])]
CheckScanned(project, paths, scanned, scope, skip) ==
  CheckKept(project, scanned,
    FilterSubjectsByScope(DedupAliases(OwnSubjects(paths, project.files) \o MemberSubjects(scope.entries, scanned, project.files)),
                          scope, skip))
ParseError(path) == Diag("doctest.coverage.parse-error", Joined(path, "/"), "unparsed", {path}, 1)
CoverageOf(failed, parsed, checked) ==
  [diagnostics |-> [i \in DOMAIN failed |-> ParseError(failed[i])] \o checked.kept,
   scopeHits |-> checked.scopeHits, skipHits |-> checked.skipHits, parsed |-> Range(parsed), failed |-> Range(failed)]
CheckParsed(failed, parsed, project, scope, skip) ==
  CoverageOf(failed, parsed, CheckScanned(project, parsed, ScannedModules(parsed, project.files), scope, skip))
CheckTried(tried, project, scope, skip) ==
  CheckParsed(SelectSeq(tried, LAMBDA f : ~project.files[f].parses), SelectSeq(tried, LAMBDA f : project.files[f].parses),
              project, scope, skip)
\* A file of a private module is read only when an entry names it.
RunCoverageCheck(paths, project, scope, skip) ==
  CheckTried(SelectSeq(paths, LAMBDA f : IsPublicModulePath(DottedPathForFile(f, project.files)) \/ FileCouldMatch(f, scope.entries)),
             project, scope, skip)

(***************************************************************************)
(* Entries that can match nothing.                                         *)
(***************************************************************************)
PathExists(path, files) == \E f \in DOMAIN files : IsPathPrefix(path, f)
IsUnreachable(path, roots) == \A root \in Range(roots) : ~IsPathPrefix(root, path) /\ ~IsPathPrefix(path, root)
Classify(entry, hit, check, roots, files) ==
  CASE ~PathExists(entry.path, files) -> "MissingPath"
    [] PathExists(entry.path, files) /\ IsUnreachable(entry.path, roots) -> "Unreachable"
    [] OTHER ->
         CASE entry.kind \in {"Prefix", "File"} -> "Fresh"
           [] entry.kind \in {"Symbol", "Member"} /\ entry.path \in check.failed -> "ParseFailure"
           [] OTHER -> IF ~hit /\ entry.path \in check.parsed THEN "NoSubjects" ELSE "Fresh"
StaleDiag(entry, context, verdict) ==
  Diag(IF verdict = "ParseFailure" THEN "doctest.coverage.parse-error" ELSE context, RenderEntry(entry), verdict, {}, 0)
StaleDiagnostics(entries, hits, context, check, roots, files) ==
  SelectSeq([i \in DOMAIN entries |-> StaleDiag(entries[i], context, Classify(entries[i], i \in hits, check, roots, files))],
            LAMBDA d : d.what # "Fresh")

\* The files of the declared tree that are no test infrastructure.
AuditedFiles(paths, cfg) ==
  SelectSeq(paths, LAMBDA f :
    /\ Range(f) \cap cfg.norecursedirs = {}
    /\ Last(f) \notin cfg.testNames
    /\ Last(f) # <<"conftest", ".py">>
    /\ cfg.scope.kind = "list" => FileCouldMatch(f, cfg.scope.entries))
WithStaleEntries(check, cfg, roots, files) ==
  check.diagnostics
    \o StaleDiagnostics(cfg.scope.entries, check.scopeHits, "doctest.coverage.stale-scope", check, roots, files)
    \o StaleDiagnostics(cfg.skip, check.skipHits, "doctest.coverage.stale-skip", check, roots, files)
CollectCoverageDiagnostics(paths, project, cfg, roots) ==
  LET missing == SelectSeq(cfg.roots, LAMBDA r : ~PathExists(r, project.files))
  IN  IF ~cfg.table \/ cfg.strict \in {"none", "off"} THEN <<>>
      ELSE IF missing # <<>> THEN [i \in DOMAIN missing |-> Diag("doctest.coverage.missing-root", Joined(missing[i], "/"), "MissingRoot", {}, 0)]
      ELSE WithStaleEntries(RunCoverageCheck(AuditedFiles(paths, cfg), project, cfg.scope, cfg.skip), cfg, roots, project.files)

\* Under abort they stop the run at collection, under enforce they are shown.
HardFailContexts ==
  {"doctest.coverage", "doctest.coverage.analysis", "doctest.coverage.stale-scope", "doctest.coverage.stale-skip",
   "doctest.coverage.parse-error", "doctest.coverage.missing-root"}
SplitCoverageDiagnostics(diagnostics, strict) ==
  LET hard(d) == strict = "abort" /\ d.context \in HardFailContexts
  IN  [errors |-> SelectSeq(diagnostics, hard), pending |-> SelectSeq(diagnostics, LAMBDA d : ~hard(d))]
==============================================================================
