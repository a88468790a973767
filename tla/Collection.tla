----------------------------- MODULE Collection -----------------------------
(***************************************************************************)
(* Finding the test files of a project, registering the files that declare *)
(* fixtures for them and collecting their items (src/collector.rs,         *)
(* src/pipeline/collection.rs, src/cache/module.rs).                       *)
(*                                                                         *)
(* A path is the sequence of its components.  `tree` is the disk: a        *)
(* function from the paths of files to what they hold: whether they parse  *)
(* (parses), their statements (stmts), whether Python can import them      *)
(* (imports), and what that shows: the fixtures they register (declares)   *)
(* and strict violations (violations).                                     *)
(* `cfg` is the part of Config the walk and the collection read.           *)
(***************************************************************************)
EXTENDS Integers, Sequences, FiniteSets, SequencesExt

CONSTANTS Names, \* file and directory names, in alphabetical order
          Stdlib \* the names of the standard library

Py == INSTANCE PythonSource
S == INSTANCE Selection

NoTree == <<"(none)">>
Parent(path) == Front(path)
Rank(name) == CHOOSE i \in DOMAIN Names : Names[i] = name

\* Utf8PathBuf's order: component by component.
PathLess(a, b) ==
  LET k == Len(LongestCommonPrefix({a, b}))
  IN  \/ k = Len(a) /\ k < Len(b)
      \/ k < Len(a) /\ k < Len(b) /\ Rank(a[k + 1]) < Rank(b[k + 1])

(***************************************************************************)
(* The walk.  `names` are the file names the glob set matches; a directory *)
(* named in norecursedirs is not entered, unless it is a root itself.      *)
(***************************************************************************)
\* Mutant: norecursedirs also excludes the roots themselves.
CollectFromUnlessExcluded(root, tree, cfg, names) ==
  SetToSeq({f \in DOMAIN tree : /\ IsPrefix(root, f) /\ Last(f) \in names
                                /\ \A i \in 1..(Len(f) - 1) : f[i] \notin cfg.norecurse
                                /\ cfg.useGitignore => ~\E i \in cfg.gitignored : Len(i) > Len(root) /\ IsPrefix(i, f)})

CollectFrom(root, tree, cfg, names) ==
  LET below(f) == SubSeq(f, Len(root) + 1, Len(f))
      ignored(f) == cfg.useGitignore /\ \E i \in cfg.gitignored : Len(i) > Len(root) /\ IsPrefix(i, f)
      entered(f) == \A i \in 1..(Len(below(f)) - 1) : below(f)[i] \notin cfg.norecurse
  IN  IF root \in DOMAIN tree
      THEN IF Last(root) \in names THEN <<root>> ELSE <<>>
      ELSE SetToSeq({f \in DOMAIN tree : /\ IsPrefix(root, f)
                                         /\ Last(f) \in names
                                         /\ entered(f) /\ ~ignored(f)})

\* Each root is walked on its own and the paths are sorted.
WalkMatching(roots, tree, cfg, names) ==
  SortSeq(FlattenSeq([i \in DOMAIN roots |-> CollectFrom(roots[i], tree, cfg, names)]), PathLess)

CollectFilesIn(roots, tree, cfg) == WalkMatching(roots, tree, cfg, cfg.pythonFiles)
\* A pattern that is no glob fails the walk.
CollectFiles(tree, cfg) ==
  IF cfg.badGlob THEN [error |-> "glob"] ELSE [files |-> CollectFilesIn(cfg.testpaths, tree, cfg)]

PyFiles(tree) == {Last(f) : f \in DOMAIN tree}
CollectDoctestFiles(tree, cfg) == WalkMatching(cfg.testpaths, tree, cfg, PyFiles(tree))

\* What doctest coverage audits: never the paths of the command line.
CoverageRoots(cfg) ==
  IF cfg.doctestRoots # <<>> THEN cfg.doctestRoots
  ELSE IF cfg.declared = <<>> THEN <<cfg.rootdir>> ELSE cfg.declared
CollectDeclaredDoctestFiles(tree, cfg) == WalkMatching(CoverageRoots(cfg), tree, cfg, PyFiles(tree))

(***************************************************************************)
(* The rootdir package: the deepest directory over the declared test tree. *)
(***************************************************************************)
\* Mutant: the first declared directory is the root.
RootdirPackageFirst(dirs, rootdir) == IF dirs = <<>> THEN NoTree ELSE dirs[1]

RootdirPackage(dirs, rootdir) ==
  LET folded == FoldLeft(LAMBDA common, d : LongestCommonPrefix({common, d}), dirs[1], dirs)
  IN  IF dirs = <<>> THEN NoTree
      ELSE IF (\E d \in Range(dirs) : IsPrefix(rootdir, d)) /\ ~IsPrefix(rootdir, folded) THEN rootdir
      ELSE folded

DeclaredDir(path, tree) == IF path \in DOMAIN tree THEN Parent(path) ELSE path

\* A walk that fails is not evidence that there are no tests.
ImpliedDeclaredDirs(tree, cfg) ==
  IF cfg.badGlob THEN <<cfg.rootdir>>
  ELSE LET files == CollectFilesIn(<<cfg.rootdir>>, tree, cfg) IN [i \in DOMAIN files |-> Parent(files[i])]
DeclaredDirsHoldingTests(tree, cfg) ==
  LET declared == [i \in DOMAIN cfg.declared |-> DeclaredDir(cfg.declared[i], tree)]
      holding == SelectSeq(declared, LAMBDA d : cfg.badGlob \/ CollectFilesIn(<<d>>, tree, cfg) # <<>>)
  IN  IF holding = <<>> THEN declared ELSE holding

TreeRoot(tree, cfg) ==
  RootdirPackage(IF cfg.declared = <<>> THEN ImpliedDeclaredDirs(tree, cfg)
                 ELSE DeclaredDirsHoldingTests(tree, cfg), cfg.rootdir)

\* From the rootdir package down to the directory itself.
RegistrationChain(dir, root) ==
  IF root = NoTree \/ ~IsPrefix(root, dir) THEN <<dir>>
  ELSE [i \in 1..(Len(dir) - Len(root) + 1) |-> SubSeq(dir, 1, Len(root) + i - 1)]

(***************************************************************************)
(* Registering declaration homes.  `acc` accumulates the directories done, *)
(* the calls made on the session, errors, diagnostics and fixture modules. *)
(***************************************************************************)
Empty(plugins) ==
  [dirs |-> plugins, calls |-> <<>>, errors |-> <<>>, diagnostics |-> <<>>, modules |-> <<>>]

HomeFiles == <<"__fixtures__.py", "__init__.py">>

\* A broken __fixtures__.py is an error, a broken __init__.py a warning.
Blame(acc, path, why) ==
  IF Last(path) = "__fixtures__.py" THEN [acc EXCEPT !.errors = Append(@, [file |-> path, why |-> why])]
  ELSE [acc EXCEPT !.diagnostics = Append(@, [file |-> path, why |-> why])]

\* What the registry says of the file, or the syntax tree when it could not
\* be imported; the module is recorded either way, so that workers register
\* what the coordinator registered.
RegisterAndRecord(acc, path, tree, root, astFallback) ==
  LET file == tree[path]
      called == [acc EXCEPT !.calls = Append(@, path)]
      blamed == IF file.imports THEN called ELSE Blame(called, path, "import")
      declarations == IF file.imports THEN file.declares ELSE astFallback
      of(lifetime) == SelectSeq(declarations, LAMBDA d : d.lifetime = lifetime)
      misplaced == IF root = Parent(path) THEN <<>>
                   ELSE [i \in DOMAIN of(<<"process">>) |->
                           [file |-> path, why |-> "process", fn |-> of(<<"process">>)[i].fn]]
  IN  [blamed EXCEPT !.errors = @ \o misplaced,
                     !.modules = Append(@, [module |-> path, anchor |-> Parent(path),
                                            packages |-> of(<<"package">>)])]

RegisterScanned(acc, path, tree, root, scan) ==
  CASE scan.verdict = "HasFixtures" -> RegisterAndRecord(acc, path, tree, root, scan.declarations)
    [] scan.verdict = "Unavailable" -> Blame(acc, path, "parse")
    [] scan.verdict = "NoFixtures" /\ scan.decorated -> RegisterAndRecord(acc, path, tree, root, <<>>)
    [] OTHER -> acc
RegisterDeclarationHome(acc, path, tree, root) ==
  RegisterScanned(acc, path, tree, root, Py!PrescanFixtureModule(tree[path]))

RegisterHomesInDir(acc, dir, tree, root) ==
  LET homes == SelectSeq([i \in 1..2 |-> Append(dir, HomeFiles[i])], LAMBDA h : h \in DOMAIN tree)
  IN  IF dir \in acc.dirs THEN acc
      ELSE [FoldLeft(LAMBDA a, h : RegisterDeclarationHome(a, h, tree, root), acc, homes)
              EXCEPT !.dirs = @ \cup {dir}]

RegisterHomesInChain(acc, dir, tree, root) ==
  FoldLeft(LAMBDA a, d : RegisterHomesInDir(a, d, tree, root), acc, RegistrationChain(dir, root))

\* The query path: the same registrations, of which only the first error
\* is kept.
RegisterDeclarationHomesForFiles(files, tree, cfg, plugins) ==
  LET root == TreeRoot(tree, cfg)
  IN  FoldLeft(LAMBDA a, f : RegisterHomesInChain(a, Parent(f), tree, root), Empty(plugins), files)

\* A plugin's fixtures are registered and recorded nowhere else.
RegisterPluginHome(acc, anchor, tree) ==
  LET path == Append(anchor, HomeFiles[1])
      scan == Py!PrescanFixtureModule(tree[path])
      called == [acc EXCEPT !.calls = Append(@, path)]
  IN  IF path \notin DOMAIN tree \/ scan.verdict = "Unavailable" THEN Blame(acc, path, "parse")
      ELSE IF scan.verdict = "NoFixtures" /\ ~scan.decorated THEN acc
      ELSE IF tree[path].imports THEN called ELSE Blame(called, path, "import")

(***************************************************************************)
(* The module item cache: items by path, each with the fingerprint of the  *)
(* source they came from.  The hash is taken to be injective.              *)
(***************************************************************************)
FromSource(file) == [parses |-> file.parses, stmts |-> file.stmts]
\* Mutant: an entry is served whatever the source is now.
CachedModuleItemsOfPath(cache, path, fingerprint) ==
  IF path \in DOMAIN cache THEN [hit |-> TRUE, items |-> cache[path].items] ELSE [hit |-> FALSE, items |-> <<>>]

CachedModuleItems(cache, path, fingerprint) ==
  IF path \in DOMAIN cache /\ cache[path].fingerprint = fingerprint
  THEN [hit |-> TRUE, items |-> cache[path].items] ELSE [hit |-> FALSE, items |-> <<>>]
UpdateModuleCache(cache, path, fingerprint, items) ==
  [p \in DOMAIN cache \cup {path} |->
     IF p = path THEN [fingerprint |-> fingerprint, items |-> items] ELSE cache[p]]
InvalidateModules(cache, tree) == [p \in DOMAIN cache \cap DOMAIN tree |-> cache[p]]

(***************************************************************************)
(* collect_items.  `got` adds the items, the strict violations, the files  *)
(* imported and the module cache to what the registration accumulates.     *)
(***************************************************************************)
\* The strict checks of one file: what Python saw while importing it, and
\* what its syntax tree shows.
StrictChecks(path, file) ==
  file.violations \cup
  IF ~file.parses THEN {}
  ELSE Py!CollectBareAsserts(path, file.stmts) \cup Py!CollectModuleDefs(path, file.stmts)
       \cup Py!CollectTestReturns(path, file.stmts)

ImportFile(got, path, tree, cfg, fingerprint) ==
  LET file == tree[path]
      items == SetToSeq(S!CollectModule(path, file))
      imported == [got EXCEPT !.imported = Append(@, path)]
      violating == cfg.strict # "none"
  IN  IF ~file.imports THEN [imported EXCEPT !.errors = Append(@, [file |-> path, why |-> "import"])]
      ELSE [imported EXCEPT
              !.items = @ \o items,
              !.violations = IF violating THEN @ \cup StrictChecks(path, file) ELSE @,
              !.cache = IF ~violating /\ fingerprint # <<>>
                        THEN UpdateModuleCache(@, path, fingerprint, items) ELSE @]

\* The items of a file whose homes are registered: the cached ones, if it
\* declares no fixture and has not changed.
CollectRegistered(got, path, tree, cfg, mayDeclare, fingerprint) ==
  LET cached == CachedModuleItems(got.cache, path, fingerprint)
  IN  IF cfg.strict = "none" /\ ~mayDeclare /\ fingerprint # <<>> /\ cached.hit
      THEN [got EXCEPT !.items = @ \o cached.items]
      ELSE ImportFile(got, path, tree, cfg, fingerprint)

\* One turn of the loop: a file without tests is skipped before anything
\* else; its homes are registered before the cache is asked.
CollectScanned(got, path, tree, cfg, root, scan) ==
  IF scan.verdict = "NoTests" THEN got
  ELSE CollectRegistered(RegisterHomesInChain(got, Parent(path), tree, root), path, tree, cfg,
         scan.verdict = "Unavailable" \/ scan.payload.fixtureShaped,
         IF scan.verdict = "HasTests" THEN FromSource(tree[path]) ELSE <<>>)
CollectFile(got, path, tree, cfg, root) ==
  CollectScanned(got, path, tree, cfg, root, Py!PrescanWithAst(tree[path], Stdlib))

WithMarkersValidated(done, registered) ==
  IF done.errors # <<>> THEN done
  ELSE [done EXCEPT !.errors = SetToSeq(S!ValidateMarkers(done.items, registered))]

CollectItems(files, tree, cfg, plugins, cache) ==
  LET root == TreeRoot(tree, cfg)
      start == [dirs |-> plugins, calls |-> <<>>, errors |-> <<>>, diagnostics |-> <<>>, modules |-> <<>>,
                items |-> <<>>, violations |-> {}, imported |-> <<>>, cache |-> cache]
  IN  WithMarkersValidated(FoldLeft(LAMBDA g, f : CollectFile(g, f, tree, cfg, root), start, files), cfg.registered)

\* format_collection_profile: where the time of the collection went, the
\* five slowest files first.  Times in microseconds.
FormatCollectionProfile(profile) ==
  LET total(f) == f.prescan + f.collection
      files == SortSeq(profile.files, LAMBDA a, b : total(a) > total(b))
      sum(part(_)) == FoldLeft(LAMBDA n, f : n + part(f), 0, files)
      prescan == sum(LAMBDA f : f.prescan)
      collection == sum(LAMBDA f : f.collection)
  IN  [files |-> Len(files), prescan |-> prescan, collection |-> collection,
       other |-> profile.total - prescan - collection,
       slowest |-> IF files # <<>> /\ total(files[1]) > 0
                   THEN SubSeq(files, 1, IF Len(files) < 5 THEN Len(files) ELSE 5) ELSE <<>>]
==============================================================================
