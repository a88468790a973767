---------------------------- MODULE PlanQuestions ----------------------------
(***************************************************************************)
(* What the layout of a run owes: every selected test is executed once, in *)
(* the process its markers and its fixtures ask for, and with time enough. *)
(***************************************************************************)
EXTENDS Questions

P == INSTANCE ExecutionPlan

\* The order of the modules, and the plan of the run.
PlanTests ==
  /\ question.about = "plan" /\ Answering
  /\ LET all == FlattenSeq([k \in DOMAIN question.groups |-> question.groups[k].items])
         c == [question.c EXCEPT !.estimated = P!EstimatedDuration(question.cache, all, question.astMs)]
     IN  \E groups \in P!Scheduled(question.groups, question.strategy, question.cache, P!LastFailedIds(question.cache)) :
           LET plan == P!PlanExecution(groups, c)
           IN  answer' = [plan |-> plan, order |-> groups, c |-> c, phases |-> P!Phases(plan, c.dirs),
                          collapsed |-> P!CollapsedPackages(plan, c.dirs)]

\* The seconds a test may take.
AllowTime ==
  /\ question.about = "timeout" /\ Answering
  /\ answer' = P!ResolveTimeout(question.cache, question.item, question.global, question.tenths)

PlanNext == PlanTests \/ AllowTime

\* The places (phase, task) that hold an item that passes.
PlacesOf(phases, Test(_)) ==
  {<<p, t>> \in (1..Len(phases)) \X (1..10) :
     /\ t <= Len(phases[p].tasks)
     /\ \E m \in Range(phases[p].tasks[t]) : \E i \in Range(m.items) : Test(i)}

\* Each test of the run is in one place of one phase.  In a parallel run a
\* test marked inprocess, and one with an arranged fixture, is executed by
\* the main process; the tests of a module that can see a module fixture
\* stay in one place, and so do those under a directory that declares a
\* package fixture (#1710, #1750: one instance is built), and the user is
\* told of each directory whose modules were merged.  The heaviest known
\* module, or a module with a recorded failure, comes first.
TestsPlaced ==
  Answered("plan") =>
    LET phases == answer.phases
        items == UNION {Range(g.items) : g \in Range(question.groups)}
        parallel == answer.plan.workers # 0
        c == answer.c
        main(i) == \A at \in PlacesOf(phases, LAMBDA j : j = i) : phases[at[1]].place = "main"
        failed(g) == \E i \in Range(g.items) : i.id \in P!LastFailedIds(question.cache)
        weight(g) == P!ModuleDurationSum(question.cache, g.items)
    IN  /\ \A i \in items :
             /\ Cardinality(PlacesOf(phases, LAMBDA j : j = i)) = 1
             /\ parallel /\ i.inprocess => main(i)
             /\ parallel /\ (\E d \in Range(i.deps) : d \in UNION Range(c.components)) => main(i)
        /\ Len(FlattenSeq([p \in DOMAIN phases |-> FlattenSeq([t \in DOMAIN phases[p].tasks |->
                 FlattenSeq([m \in DOMAIN phases[p].tasks[t] |-> phases[p].tasks[t][m].items])])]))
             = Cardinality(items)
        /\ \A m \in c.declaring : Cardinality(PlacesOf(phases, LAMBDA i : i.module = m)) <= 1
        /\ \A d \in c.dirs :
             /\ Cardinality(PlacesOf(phases, LAMBDA i : P!S!StartsWith(i.module, d))) <= 1
             /\ d \in answer.collapsed <=>
                  Cardinality({i.module : i \in {j \in items : P!S!StartsWith(j.module, d)}}) >= 2
        /\ parallel => answer.plan.workers \in 1..c.maxWorkers
        /\ \A j, k \in DOMAIN answer.order : j < k =>
             /\ question.strategy = "failed_first" => (failed(answer.order[k]) => failed(answer.order[j]))
             /\ question.strategy = "longest_first" => weight(answer.order[j]) >= weight(answer.order[k])

\* A test is given at least the timeout of the configuration, and with a
\* multiplier at least that many times what it took when it last ran.
TimeEnough ==
  Answered("timeout") =>
    /\ question.global # P!Unknown => answer >= question.global
    /\ question.tenths # P!Unknown /\ question.item.id \in DOMAIN question.cache.timings =>
         answer >= 1 /\ answer * 10000 >= question.cache.timings[question.item.id].duration * question.tenths

\* The layout of a run: its places, its order and its timeouts.
RunLaidOut == TestsPlaced /\ TimeEnough
==============================================================================
