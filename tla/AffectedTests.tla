---------------------------- MODULE AffectedTests ----------------------------
(***************************************************************************)
(* `--affected`: the test files a set of changed files concerns            *)
(* (src/affected.rs, src/import_graph.rs and the affected transition of    *)
(* src/pipeline/transitions/files_collected.rs).                           *)
(*                                                                         *)
(* A path is the sequence of its components; a changed path is relative to *)
(* the root of the repository.  A component of a Python file is its stem,  *)
(* and `kind` tells a Python file from another one.  An import is the      *)
(* sequence of the parts of a module name.                                 *)
(***************************************************************************)
EXTENDS Integers, Sequences, FiniteSets, SequencesExt

Py == INSTANCE PythonSource

Changed(path, kind) == [path |-> path, kind |-> kind]
IsPyproject(change) == change = Changed(<<"pyproject">>, "toml")
IsDeclaration(change) ==
  change.kind = "py" /\ Last(change.path) \in {"__fixtures__", "__init__"}

(***************************************************************************)
(* Git.  `git` is what the two commands answer: whether each succeeds,     *)
(* whether the directory is in a repository, and the changed files.        *)
(***************************************************************************)
CheckGitOutput(succeeds, inRepo) ==
  IF succeeds THEN "ok" ELSE IF ~inRepo THEN "NotAGitRepo" ELSE "GitCommandFailed"
GitChangedFiles(git) ==
  LET located == CheckGitOutput(git.locates, git.inRepo)
      compared == CheckGitOutput(git.compares, TRUE)
  IN  IF located # "ok" THEN [error |-> located]
      ELSE IF compared # "ok" THEN [error |-> compared]
      ELSE [root |-> git.root, changed |-> git.changed]

\* Stops at the project file: the rest of the list is not classified.
ClassifyChangedFiles(changed) ==
  LET stop == SelectInSeq(changed, IsPyproject)
      seen == IF stop = 0 THEN changed ELSE SubSeq(changed, 1, stop - 1)
      python == SelectSeq(seen, LAMBDA c : c.kind = "py")
  IN  [runAll |-> stop # 0,
       declarations |-> SelectSeq(python, IsDeclaration),
       sources |-> SelectSeq(python, LAMBDA c : ~IsDeclaration(c)),
       nonPython |-> Len(seen) - Len(python)]

DirectlyChangedTests(tests, sources, root) ==
  {t \in Range(tests) : \E c \in Range(sources) : t = root \o c.path}
DeclarationAffectedTests(tests, declarations, root) ==
  {t \in Range(tests) : \E c \in Range(declarations) : IsPrefix(root \o Front(c.path), t)}

(***************************************************************************)
(* The import graph: one step, absolute imports only.  A relative import   *)
(* is a statement of kind "RelativeImport".                                *)
(***************************************************************************)
RECURSIVE CollectImports(_)
CollectImports(stmt) ==
  (IF stmt.kind \in {"Import", "ImportFrom", "StarImport"} THEN {stmt.name} ELSE {})
    \cup UNION {CollectImports(s) : s \in Range(Py!CompoundChildren(stmt))}

\* Mutant: an import names its module only, not the packages above it.
ExpandNothing(modules) == modules

ExpandPrefixes(modules) == UNION {{SubSeq(m, 1, i) : i \in 1..Len(m)} : m \in modules}

ExtractImportedModules(file) ==
  IF ~file.parses THEN {} ELSE ExpandPrefixes(UNION {CollectImports(s) : s \in Range(file.stmts)})

\* A file is its module and every package above it.
FileToModules(path) ==
  LET parts == IF Last(path) = "__init__" THEN Front(path) ELSE path
  IN  {SubSeq(parts, 1, i) : i \in 1..Len(parts)}

ResolveAffected(tests, sources, tree) ==
  LET changed == UNION {FileToModules(c.path) : c \in Range(sources)}
  IN  [t \in Range(tests) |-> ExtractImportedModules(tree[t]) \cap changed]

\* An error, all tests, or the affected ones with why they are.
FilterAffected(tests, tree, git) ==
  LET diff == GitChangedFiles(git)
      kinds == ClassifyChangedFiles(diff.changed)
      direct == DirectlyChangedTests(tests, kinds.sources, diff.root)
      declared == DeclarationAffectedTests(tests, kinds.declarations, diff.root)
      remaining == SelectSeq(tests, LAMBDA t : t \notin direct \cup declared)
      imports == IF kinds.sources = <<>> THEN <<>> ELSE ResolveAffected(remaining, kinds.sources, tree)
      importing == {t \in DOMAIN imports : imports[t] # {}}
  IN  IF "error" \in DOMAIN diff THEN diff
      ELSE IF diff.changed = <<>> THEN [files |-> <<>>, direct |-> {}, declared |-> {}, importing |-> {}]
      ELSE IF kinds.runAll THEN [all |-> TRUE]
      ELSE [files |-> SelectSeq(tests, LAMBDA t : t \in direct \cup declared \cup importing),
            direct |-> direct, declared |-> declared \ direct, importing |-> importing]

\* The transition: a failure of git runs every test; no affected test ends
\* the run with success.
Affected(tests, tree, git) ==
  LET result == FilterAffected(tests, tree, git)
  IN  CASE "files" \in DOMAIN result /\ result.files = <<>> -> [exit |-> "Success"]
        [] "files" \in DOMAIN result /\ result.files # <<>> -> [files |-> result.files]
        [] OTHER -> [files |-> tests]
==============================================================================
