---------------------------- MODULE ExecutionPlan ----------------------------
(***************************************************************************)
(* How the selected tests are laid out before any of them runs: serial or  *)
(* parallel, how many workers, and which process executes which test       *)
(* (pipeline/arrange.rs, scheduler.rs, execution.rs).  An item has an id,  *)
(* its module, whether it is marked inprocess and the qualifiers of its    *)
(* fixtures; a group is a module and its items.                            *)
(***************************************************************************)
EXTENDS TestCache

S == INSTANCE Selection

Group(module, items) == [module |-> module, items |-> items]
Holds(group, Test(_)) == \E i \in Range(group.items) : Test(i)
Total(groups) == FoldLeft(LAMBDA n, g : n + Len(g.items), 0, groups)

\* A group with the items that pass, nothing when none does.
Part(group, Test(_)) ==
  LET items == SelectSeq(group.items, Test)
  IN  IF items = <<>> THEN <<>> ELSE <<Group(group.module, items)>>

(***************************************************************************)
(* The tests marked inprocess stay in the main process, with every module  *)
(* that could share a package or a module fixture with them.               *)
(***************************************************************************)
HotPackageAnchors(groups, dirs) ==
  {d \in dirs : \E g \in Range(groups) : S!StartsWith(g.module, d) /\ Holds(g, LAMBDA i : i.inprocess)}

\* Mutant: a module with a module fixture may be split between two phases.
PartitionInprocessItems(groups, declaring, dirs) ==
  LET hot == HotPackageAnchors(groups, dirs)
      whole(g) == \E d \in hot : S!StartsWith(g.module, d)
  IN  [inprocess |-> FlattenSeq([k \in DOMAIN groups |->
                        IF whole(groups[k]) THEN <<groups[k]>> ELSE Part(groups[k], LAMBDA i : i.inprocess)]),
       parallel |-> FlattenSeq([k \in DOMAIN groups |->
                        IF whole(groups[k]) THEN <<>> ELSE Part(groups[k], LAMBDA i : ~i.inprocess)])]

PartitionInprocessGroups(groups, declaring, dirs) ==
  LET hot == HotPackageAnchors(groups, dirs)
      whole(g) == \/ \E d \in hot : S!StartsWith(g.module, d)
                  \/ g.module \in declaring /\ Holds(g, LAMBDA i : i.inprocess)
  IN  [inprocess |-> FlattenSeq([k \in DOMAIN groups |->
                        IF whole(groups[k]) THEN <<groups[k]>> ELSE Part(groups[k], LAMBDA i : i.inprocess)]),
       parallel |-> FlattenSeq([k \in DOMAIN groups |->
                        IF whole(groups[k]) THEN <<>> ELSE Part(groups[k], LAMBDA i : ~i.inprocess)])]

(***************************************************************************)
(* The components of arranged fixtures: `components` is a sequence of sets *)
(* of registered names, `display` the spelling of a name by the user.      *)
(***************************************************************************)
ComponentOf(qualifier, components, display) ==
  LET names == {n \in UNION Range(components) : n = qualifier \/ (n \in DOMAIN display /\ display[n] = qualifier)}
      at == {k \in DOMAIN components : components[k] \cap names # {}}
  IN  IF at = {} THEN 0 ELSE CHOOSE k \in at : \A j \in at : j <= k

\* The component of the first dependency that has one, 0 for none.
FirstComponent(items, components, display) ==
  LET found == SelectSeq(FlattenSeq([i \in DOMAIN items |->
                 [d \in DOMAIN items[i].deps |-> ComponentOf(items[i].deps[d], components, display)]]),
                 LAMBDA k : k # 0)
  IN  IF found = <<>> THEN 0 ELSE found[1]

PartitionByFixtureGroups(groups, components, declaring, dirs, display) ==
  LET of(items) == FirstComponent(items, components, display)
      subtree(d) == of(FlattenSeq([k \in DOMAIN groups |->
                       IF S!StartsWith(groups[k].module, d) THEN groups[k].items ELSE <<>>]))
      bucket(g, k) ==     \* 0: the remaining ones
        LET anchor == S!OutermostDeclaringAncestor(g.module, dirs)
        IN  IF anchor # <<>> THEN IF subtree(anchor) = k THEN <<g>> ELSE <<>>
            ELSE IF g.module \in declaring THEN IF of(g.items) = k THEN <<g>> ELSE <<>>
            ELSE Part(g, LAMBDA i : of(<<i>>) = k)
      all(k) == FlattenSeq([n \in DOMAIN groups |-> bucket(groups[n], k)])
  IN  [arranged |-> [k \in DOMAIN components |-> all(k)], remaining |-> all(0)]

(***************************************************************************)
(* The plan.  A mode is serial, debug or parallel with its workers, 0 for  *)
(* auto.                                                                   *)
(***************************************************************************)
IsSerial(mode) == mode.kind \in {"serial", "debug"}
WorkerCount(mode, cpus) ==
  IF IsSerial(mode) THEN 1 ELSE IF mode.workers = 0 THEN cpus ELSE mode.workers

ComputeOptimalWorkers(mode, cpus, estimated, overhead) ==
  LET needed == IF overhead = 0 THEN estimated * cpus ELSE (estimated + overhead - 1) \div overhead
      capped == IF cpus < needed THEN cpus ELSE needed
  IN  IF IsSerial(mode) THEN 1
      ELSE IF mode.workers # 0 THEN mode.workers
      ELSE IF estimated = Unknown THEN cpus
      ELSE IF capped > 1 THEN capped ELSE 1

UseParallel(groups, c) ==
  LET count == WorkerCount(c.mode, c.cpus)
  IN  /\ ~IsSerial(c.mode) /\ count > 1
      /\ \/ c.mode.workers # 0
         \/ IF c.estimated # Unknown THEN c.estimated > c.overhead * count ELSE Total(groups) >= c.minTests

PlanExecution(groups, c) ==
  LET split == PartitionInprocessGroups(groups, c.declaring, c.dirs)
      parts == IF c.components = <<>> THEN [arranged |-> <<>>, remaining |-> split.parallel]
               ELSE PartitionByFixtureGroups(split.parallel, c.components, c.declaring, c.dirs, c.display)
  IN  IF ~UseParallel(groups, c)
      THEN [workers |-> 0, inprocess |-> <<>>, arranged |-> <<>>, parallel |-> groups]
      ELSE [workers |-> ComputeOptimalWorkers(c.mode, c.cpus, c.estimated, c.overhead),
            inprocess |-> split.inprocess, arranged |-> parts.arranged, parallel |-> parts.remaining]

(***************************************************************************)
(* execute_phases: the phases of the run in order, each the task groups    *)
(* group_by_package makes of its modules and where they are executed.  An  *)
(* empty phase is not dispatched; a serial run has one phase.              *)
(***************************************************************************)
Phase(place, groups, dirs) ==
  IF groups = <<>> THEN <<>>
  ELSE LET modules == [k \in DOMAIN groups |-> groups[k].module]
           tasks == S!GroupByPackage(modules, dirs)
           of(m) == groups[CHOOSE k \in DOMAIN groups : groups[k].module = m]
       IN  <<[place |-> place,
              tasks |-> [t \in DOMAIN tasks |-> [m \in DOMAIN tasks[t].modules |-> of(tasks[t].modules[m])]]]>>

Phases(plan, dirs) ==
  IF plan.workers = 0 THEN Phase("main", plan.parallel, dirs)
  ELSE Phase("main", plan.inprocess, dirs)
       \o FlattenSeq([k \in DOMAIN plan.arranged |-> Phase("main", plan.arranged[k], dirs)])
       \o Phase("workers", plan.parallel, dirs)

\* warn_about_package_collapse: the declaring directories that cost their
\* modules the parallelism.
CollapsedPackages(plan, dirs) ==
  LET groups == plan.inprocess \o plan.parallel \o FlattenSeq(plan.arranged)
  IN  {d \in dirs : Len(SelectSeq(groups, LAMBDA g : S!StartsWith(g.module, d))) >= 2}

\* declaring_package_dirs
DeclaringPackageDirs(fixtureModules) == {m.anchor : m \in {f \in fixtureModules : f.declaresPackage}}
==============================================================================
