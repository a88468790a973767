--------------------------- MODULE Configuration ---------------------------
(* How an invocation gets its settings (src/config/): the rootdir found from the      *)
(* first target, the defaults, the table of pyproject.toml merged into them and the   *)
(* arguments of the command line merged last.  A table, and the options given on a    *)
(* command line, are functions whose domain is what was said.  An optional setting is *)
(* a set with at most one element.  A path is a sequence of symbols, as in Selection.  *)
EXTENDS Integers, TLC
LOCAL INSTANCE SequencesExt
LOCAL INSTANCE FiniteSetsExt

S == INSTANCE Selection

Auto == 0           \* WorkerCount::Auto; Fixed(n) is n, which is at least 1
Serial == [kind |-> "serial", arg |-> Auto]
Parallel(workers) == [kind |-> "parallel", arg |-> workers]
Debug(always) == [kind |-> "debug", arg |-> IF always THEN 1 ELSE 0]

TbStyles == {"detail", "line", "no"}
StrictModes == {"abort", "enforce", "off"}
FailedModes == {"only", "first"}
ScheduleStrategies == {"longest-first", "failed-first", "random"}
ColorModes == {"auto", "always", "never"}
KeepTmpModes == {"cleanup", "failed", "always"}
Verbosities == {"normal", "detailed", "full"}
CovReportFormats == {"term", "html", "xml", "json", "none"}

DefaultPaths(rootdir) ==
  [testpaths |-> <<rootdir>>, declared_testpaths |-> <<>>, python_files |-> "test_*.py *_test.py",
   norecursedirs |-> "builtin", use_gitignore |-> TRUE]
DefaultExec ==
  [mode |-> Parallel(Auto), maxfail |-> 0, timeout |-> {}, timeout_multiplier |-> {},
   spawn_overhead_ms |-> 250, min_parallel_tests |-> 100, retries |-> 0, retries_delay |-> 0,
   inspect_timeout |-> 30]
DefaultOutput ==
  [tb |-> "detail", show_locals |-> FALSE, show_internals |-> FALSE, verbosity |-> "normal",
   durations |-> {}, color |-> "auto", collection_profile |-> FALSE, keep_tmp |-> "cleanup"]
DefaultMarkers ==
  [registered_markers |-> <<>>, markers_without_description |-> <<>>, strict |-> {}]
DefaultFilter ==
  [schedule |-> "longest-first", failed |-> {}, node_ids |-> <<>>, has_explicit_paths |-> FALSE,
   affected |-> {}, affected_base |-> "HEAD"]
DefaultFeatures ==
  [plugins |-> <<>>, plugin_settings |-> <<>>, async_backend |-> "asyncio", cov |-> FALSE,
   cov_report |-> {}, cache_max_age |-> 50, plugin_cli_values |-> <<>>]
DefaultConfig(rootdir, invocationDir) ==
  [rootdir |-> rootdir, invocation_dir |-> invocationDir, doctest |-> {}]
    @@ DefaultPaths(rootdir) @@ DefaultExec @@ DefaultOutput @@ DefaultMarkers
    @@ DefaultFilter @@ DefaultFeatures

-----------------------------------------------------------------------------
\* apply_if_some!: what was said, under the given keys, replaces what the configuration holds.
ApplyIfSome(cfg, said, keys) == [k \in DOMAIN said \cap keys |-> said[k]] @@ cfg
ApplyIfSomeWrapped(cfg, said, keys) == [k \in DOMAIN said \cap keys |-> {said[k]}] @@ cfg
Said(said, key, otherwise) == IF key \in DOMAIN said THEN said[key] ELSE otherwise
SaidOption(said, key) == IF key \in DOMAIN said THEN {said[key]} ELSE {}

\* The keys of struct Overrides, which the file and the command line share.
ApplyOverrides(cfg, said) ==
  ApplyIfSomeWrapped(
    ApplyIfSome(cfg, said, {"schedule", "retries", "retries_delay", "keep_tmp", "tb",
                            "show_locals", "show_internals", "color"}),
    said, {"failed", "durations", "strict"})

IsAbsolute(path) == path # <<>> /\ path[1] = "/"
ResolveTarget(base, path) == IF IsAbsolute(path) THEN path ELSE base \o <<"/">> \o path
ResolveTestpaths(paths, rootdir) == [i \in DOMAIN paths |-> ResolveTarget(rootdir, paths[i])]

\* "name: description", or a bare name.  A marker is [name, described].
ParseMarkerDescriptions(raw) ==
  [names |-> [i \in DOMAIN raw |-> raw[i].name],
   bare |-> LET no == SelectSeq(raw, LAMBDA m : ~m.described) IN [i \in DOMAIN no |-> no[i].name]]

\* A doctest table is [scope, roots, skip]; the roots are joined to the rootdir.
MergeDoctest(tc, rootdir) ==
  {[dt EXCEPT !.roots = ResolveTestpaths(@, rootdir)] : dt \in SaidOption(tc, "doctest")}

MergeToml(cfg, tc, rootdir) ==
  LET markers == ParseMarkerDescriptions(Said(tc, "markers", <<>>))
      testpaths == ResolveTestpaths(Said(tc, "testpaths", <<>>), rootdir)
      applied == ApplyIfSome(cfg, tc, {"python_files", "norecursedirs", "use_gitignore", "maxfail",
                   "async_backend", "cache_max_age", "min_parallel_tests", "spawn_overhead_ms",
                   "inspect_timeout", "verbosity", "plugins", "affected_base"})
  IN  [ApplyOverrides(applied, tc) EXCEPT
         !.testpaths = IF "testpaths" \in DOMAIN tc THEN testpaths ELSE @,
         !.declared_testpaths = IF "testpaths" \in DOMAIN tc THEN testpaths ELSE @,
         !.doctest = IF "doctest" \in DOMAIN tc THEN MergeDoctest(tc, rootdir) ELSE @,
         !.timeout = SaidOption(tc, "timeout"),
         !.timeout_multiplier = SaidOption(tc, "timeout_multiplier"),
         !.plugin_settings = Said(tc, "plugin_settings", <<>>),
         !.registered_markers = IF "markers" \in DOMAIN tc THEN markers.names ELSE @,
         !.markers_without_description = IF "markers" \in DOMAIN tc THEN markers.bare ELSE @,
         !.mode = IF "workers" \in DOMAIN tc THEN Parallel(tc.workers)
                  ELSE IF Said(tc, "serial", FALSE) THEN Serial ELSE @]

-----------------------------------------------------------------------------
MergePaths(cfg, paths) ==
  IF paths = <<>> THEN cfg
  ELSE [cfg EXCEPT !.has_explicit_paths = TRUE,
                   !.testpaths = [i \in DOMAIN paths |-> ResolveTarget(cfg.invocation_dir, paths[i])]]

\* canonicalize resolves no symbolic link here: it succeeds on what is on disk.
CanonicalNodeId(id, base, onDisk) ==
  LET file == S!ModulePath(id)
      path == ResolveTarget(base, file)
      rest == SubSeq(id, Len(file) + 1, Len(id))
  IN  IF S!SeparatorAt(id) = 0 THEN id
      ELSE IF S!ContainsGlobChars(file) \/ path \in onDisk THEN path \o rest
      ELSE id
CanonicalizeNodeIds(cfg, ids, onDisk) ==
  IF ids = <<>> THEN cfg
  ELSE [cfg EXCEPT !.node_ids = [i \in DOMAIN ids |-> CanonicalNodeId(ids[i], cfg.invocation_dir, onDisk)]]

MergeAffected(cfg, given) ==
  IF "affected" \notin DOMAIN given THEN cfg
  ELSE [cfg EXCEPT !.has_explicit_paths = TRUE,
                   !.affected = {IF given.affected = "" THEN cfg.affected_base ELSE given.affected}]

\* FailedFilterArgs::resolve and VerbosityArgs::resolve, as what the command line says.
FailedFilterResolve(given) ==
  IF "lf" \in DOMAIN given THEN "failed" :> "only"
  ELSE IF "ff" \in DOMAIN given THEN "failed" :> "first"
  ELSE [k \in DOMAIN given \cap {"failed"} |-> given[k]]
VerbosityResolve(given) ==
  IF "verbose" \in DOMAIN given THEN "verbosity" :> given.verbose
  ELSE IF "v" \in DOMAIN given THEN "verbosity" :> IF given.v >= 2 THEN "full" ELSE "detailed"
  ELSE <<>>

\* `args` is [paths, node_ids, given].
MergeTargets(cfg, args, onDisk) ==
  MergeAffected(CanonicalizeNodeIds(MergePaths(cfg, args.paths), args.node_ids, onDisk), args.given)

Public == [kind |-> "public", entries |-> <<>>]
DoctestPublic(doctest) ==
  IF doctest = {} THEN {[scope |-> {Public}, roots |-> <<>>, skip |-> <<>>]}
  ELSE {[dt EXCEPT !.scope = {Public}] : dt \in doctest}

MergeRunArgs(cfg, args, onDisk) ==
  LET given == args.given
      merged == ApplyOverrides(
        ApplyIfSome(MergeTargets(cfg, args, onDisk), VerbosityResolve(given), {"verbosity"}),
        FailedFilterResolve(given) @@ [k \in DOMAIN given \ {"failed", "retries_delay"} |-> given[k]])
  IN  [merged EXCEPT
         !.maxfail = IF "exitfirst" \in DOMAIN given THEN 1
                     ELSE IF Said(given, "maxfail", 0) > 0 THEN given.maxfail ELSE @,
         !.mode = IF "workers" \in DOMAIN given THEN Parallel(given.workers)
                  ELSE IF "serial" \in DOMAIN given THEN Serial ELSE @,
         !.timeout = IF "timeout" \in DOMAIN given THEN {given.timeout} ELSE @,
         !.doctest = IF "doctest_modules" \in DOMAIN given THEN DoctestPublic(@) ELSE @,
         !.cov = "cov" \in DOMAIN given,
         !.cov_report = IF "cov_report" \in DOMAIN given THEN {given.cov_report} ELSE @,
         !.collection_profile = "collection_profile" \in DOMAIN given,
         !.strict = @ \ {"off"}]

MergeDebugArgs(cfg, args, onDisk) ==
  LET given == args.given
      always == "always" \in DOMAIN given
      debugging == [MergeTargets(cfg, args, onDisk) EXCEPT
                      !.mode = Debug(always),
                      !.timeout = {},
                      !.show_internals = TRUE,
                      !.tb = IF "tb" \in DOMAIN given THEN @ ELSE "detail",
                      !.maxfail = IF always THEN @ ELSE 1]
  IN  ApplyOverrides(
        ApplyIfSome(debugging, VerbosityResolve(given), {"verbosity"}),
        FailedFilterResolve(given)
          @@ [k \in DOMAIN given \cap {"tb", "color", "keep_tmp", "show_locals"} |-> given[k]])

MergeQueryArgs(cfg, args) == ApplyIfSome(MergePaths(cfg, args.paths), args.given, {"color"})

-----------------------------------------------------------------------------
(* The project on disk: `onDisk` (files and directories), `files`, `markers` (the      *)
(* directories with a pyproject.toml, setup.cfg or tox.ini) and `pyproject`, from such *)
(* a directory to what its file is: [state |-> "broken" | "legacy" | "invalid" |       *)
(* "absent" | "present", table].                                                       *)
Parent(path) ==
  LET cuts == {n \in DOMAIN path : path[n] = "/"}
  IN  IF cuts = {} THEN path ELSE SubSeq(path, 1, Max(cuts) - 1)
Ancestors(path) == {SubSeq(path, 1, n - 1) : n \in {n \in DOMAIN path : path[n] = "/" /\ n > 1}} \cup {path}
Longest(paths) == CHOOSE p \in paths : \A q \in paths : Len(q) <= Len(p)

FindRootdir(first, invocationDir, project) ==
  LET target == IF first = {} THEN invocationDir
                ELSE ResolveTarget(invocationDir, CHOOSE p \in first : TRUE)
      start == IF target \in project.files THEN Parent(target) ELSE target
      marked == Ancestors(start) \cap project.markers
  IN  IF marked = {} THEN start ELSE Longest(marked)

PyprojectOf(rootdir, project) ==
  IF rootdir \in DOMAIN project.pyproject THEN project.pyproject[rootdir]
  ELSE [state |-> "unreadable", table |-> <<>>]

\* check_no_legacy_keys and parse_oxitest_config: `refused` is their error.
ParseOxitestConfig(file) ==
  [refused |-> file.state \in {"legacy", "invalid"},
   table |-> IF file.state = "present" THEN file.table ELSE <<>>]

\* The configuration, or none where the process exits with a usage error.
Load(rootdir, invocationDir, project) ==
  LET parsed == ParseOxitestConfig(PyprojectOf(rootdir, project))
      default == DefaultConfig(rootdir, invocationDir)
  IN  IF parsed.refused THEN {}
      ELSE IF PyprojectOf(rootdir, project).state = "unreadable" THEN {default}
      ELSE {MergeToml(default, parsed.table, rootdir)}

\* Reads the value, not the struct: any file that is TOML and names a plugin counts.
HasPluginsConfigured(rootdir, project) ==
  LET file == PyprojectOf(rootdir, project)
  IN  file.state \in {"present", "legacy", "invalid"} /\ Said(file.table, "plugins", <<>>) # <<>>

=============================================================================
