--------------------------- MODULE FixtureChecks ---------------------------
(***************************************************************************)
(* What is checked about fixtures after collection and before any test     *)
(* runs: every name a test asks for, every fx.<...> access written in a    *)
(* test body, and, under strict mode, the fixtures nobody uses; and the    *)
(* proxy that decides the same accesses while a test runs.                 *)
(*                                                                         *)
(* A path is the sequence of its components.  A declaration is anchored at *)
(* a directory (a package's __fixtures__.py), at a test module (inline) or *)
(* nowhere (conftest, plugins and builtins, which every test sees); a      *)
(* registry is the sequence of declarations in the order they registered.  *)
(***************************************************************************)
EXTENDS Integers, Sequences, FiniteSets, SequencesExt

(***************************************************************************)
(* Looking a declaration up.                                               *)
(***************************************************************************)
IsVisible(anchor, inline, module) == IF inline THEN module = anchor ELSE anchor # <<>> /\ IsPrefix(anchor, module)
IsVisibleFrom(defn, module) == \A a \in defn.anchor : IsVisible(a, defn.inline, module)

Deeper(registry, i, j) ==
  LET depth(k) == IF registry[k].anchor = {} THEN 0 ELSE Len(CHOOSE a \in registry[k].anchor : TRUE)
  IN  depth(i) > depth(j) \/ (depth(i) = depth(j) /\ i > j)
DeepestVisible(registry, among, module) ==
  {registry[i] : i \in {k \in {j \in among : IsVisibleFrom(registry[j], module)} :
     \A other \in among \ {k} : IsVisibleFrom(registry[other], module) => Deeper(registry, k, other)}}

Named(registry, name) == {i \in DOMAIN registry : registry[i].name = name}
GetVisible(registry, name, module) == DeepestVisible(registry, Named(registry, name), module)
GetVisibleInNamespace(registry, name, namespace, module) ==
  DeepestVisible(registry, {i \in Named(registry, name) : registry[i].namespace = {namespace}}, module)
HasNamespace(registry, namespace) == \E i \in DOMAIN registry : registry[i].namespace = {namespace}
\* The declaration registered last.
Get(registry, name) == {registry[i] : i \in {k \in Named(registry, name) : \A j \in Named(registry, name) : j <= k}}

(***************************************************************************)
(* The gate before the run, and the proxy during it.                       *)
(***************************************************************************)
Oxi == "oxi"

\* A static access: namespace is optional.
ResolveStaticUsageByLeaf(registry, namespace, name, module) ==
  IF namespace = {} THEN GetVisible(registry, name, module) # {}
  ELSE \E segment \in namespace : segment = Oxi \/ GetVisibleInNamespace(registry, name, segment, module) # {}
ResolveStaticUsage(registry, namespace, name, module) ==
  IF namespace = {} THEN GetVisible(registry, name, module) # {}
  ELSE LET segment == CHOOSE n \in namespace : TRUE
       IN  \/ segment = Oxi
           \/ IF HasNamespace(registry, segment) THEN GetVisibleInNamespace(registry, name, segment, module) # {}
              ELSE GetVisible(registry, segment, module) # {}

ValidateModule(registry, module, usages) ==
  LET failing == SelectSeq(usages, LAMBDA u : ~ResolveStaticUsage(registry, u.namespace, u.name, module))
  IN  [i \in DOMAIN failing |-> [module |-> module, lineno |-> failing[i].lineno]]

\* Only modules that were imported are judged, in the order of their paths
\* (order lists them).
ValidateFxBoundaries(registry, usages, collected, order) ==
  LET modules == SelectSeq(order, LAMBDA p : p \in DOMAIN usages /\ p \in collected)
  IN  FlattenSeq([i \in DOMAIN modules |-> ValidateModule(registry, modules[i], usages[modules[i]])])

\* What fx.<segment> gives a running test.
ProxyGetattr(registry, segment, module) ==
  IF segment = Oxi THEN "builtins"
  ELSE IF HasNamespace(registry, segment) THEN "namespace"
  ELSE IF GetVisible(registry, segment, module) # {} THEN "value" ELSE "raises"

\* fx.<name> or fx.<namespace>.<name>: an attribute of a value or of the
\* builtins is not the proxy's to refuse.
Access(registry, namespace, name, module) ==
  IF namespace = {} THEN ProxyGetattr(registry, name, module) # "raises"
  ELSE LET segment == CHOOSE n \in namespace : TRUE
           got == ProxyGetattr(registry, segment, module)
       IN  IF got = "namespace" THEN GetVisibleInNamespace(registry, name, segment, module) # {} ELSE got # "raises"

(***************************************************************************)
(* The parameters of the collected tests.                                  *)
(***************************************************************************)
Unresolved(registry, item, name) ==
  /\ name \notin item.fixrefs
  /\ name \notin item.builtins
  /\ Get(registry, name) = {}
  /\ name \notin item.plugin
ValidateItem(registry, item) ==
  LET bad == SelectSeq(item.names, LAMBDA n : Unresolved(registry, item, n))
  IN  [i \in DOMAIN bad |-> [node_id |-> item.node_id, name |-> bad[i]]]
ValidateFixtureNames(registry, items) == FlattenSeq([i \in DOMAIN items |-> ValidateItem(registry, items[i])])

(***************************************************************************)
(* The fixtures nobody uses.                                               *)
(***************************************************************************)
\* A stack of names to visit and the names visited.
RECURSIVE Visit(_, _, _)
Visit(registry, stack, used) ==
  IF stack = <<>> THEN used
  ELSE LET name == Last(stack)
           rest == Front(stack)
           deps == UNION {defn.deps : defn \in Get(registry, name)}
       IN  IF name \in used THEN Visit(registry, rest, used)
           ELSE Visit(registry, rest \o SetToSeq({d \in deps : Named(registry, d) # {}} \ (used \cup {name})),
                      used \cup {name})
ExpandFixtureDeps(registry, names) == Visit(registry, SetToSeq(names), {})

Autouse(registry) ==
  {d.name : d \in {e \in UNION {Get(registry, registry[i].name) : i \in DOMAIN registry} : e.autouse}}

FindUnusedFixtures(registry, items) ==
  LET used == ExpandFixtureDeps(registry, UNION {Range(items[i].names) : i \in DOMAIN items} \cup Autouse(registry))
  IN  {d.name : d \in {e \in UNION {Get(registry, registry[i].name) : i \in DOMAIN registry} :
         ~e.autouse /\ e.conftest /\ e.name \notin used}}

(***************************************************************************)
(* "did you mean": the closest registered name within two edits.           *)
(***************************************************************************)
Minimum(a, b) == IF a <= b THEN a ELSE b

\* One row of the table for a character of the longer word: a is the
\* shorter word and prev the row before.
NextRow(a, prev, char, j) ==
  FoldLeft(LAMBDA row, i :
             Append(row, IF a[i] = char THEN prev[i]
                         ELSE 1 + Minimum(Minimum(prev[i], prev[i + 1]), row[i])),
           <<j>>, [i \in DOMAIN a |-> i])
EditDistanceOrdered(a, b) ==
  Last(FoldLeft(LAMBDA row, j : NextRow(a, row, b[j], j), [i \in 1..Len(a) + 1 |-> i - 1], [j \in DOMAIN b |-> j]))
EditDistance(a, b) == IF Len(a) <= Len(b) THEN EditDistanceOrdered(a, b) ELSE EditDistanceOrdered(b, a)

\* The first of the nearest.
ClosestMatch(name, candidates, max) ==
  FoldLeft(LAMBDA best, c :
             LET d == EditDistance(name, c)
             IN  IF d <= max /\ \A b \in best : d < b.distance THEN {[name |-> c, distance |-> d]} ELSE best,
           {}, candidates)

MaxDistance == 2
FormatFixtureErrors(errors, registered) ==
  [i \in DOMAIN errors |->
     [node_id |-> errors[i].node_id, name |-> errors[i].name,
      suggestion |-> {s.name : s \in ClosestMatch(errors[i].name, registered, MaxDistance)}]]
=============================================================================
