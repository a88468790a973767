--------------------------- MODULE FixtureSession ---------------------------
(***************************************************************************)
(* The fixture session of one process: which scope caches a fixture, where *)
(* its teardown is registered, what each lifetime boundary disposes, and   *)
(* the steps of one test that use them.  SerialSession and WorkerSession   *)
(* add the loops that run the tests and fire the boundaries.               *)
(*                                                                         *)
(* A path is the sequence of its parts.  Every fixture has a teardown: one *)
(* without registers nothing and has nothing to order.  A teardown that    *)
(* raises is reported and the drain goes on, so raising changes no state.  *)
(***************************************************************************)
EXTENDS Integers, Sequences, FiniteSets, SequencesExt

CONSTANTS
  Fixtures,
  Tier,      \* Tier[f]: "function", "module", "package" or "process" as declared;
             \* "session": the session-scoped builtin; "plain": any other
             \* builtin, or the value of a plugin's provider; neither has deps
  IsAsync,   \* IsAsync[f]
  Name,      \* Name[f]: its short name; fixtures of several namespaces may share it
  Deps,      \* Deps[f]: the fixtures f asks for, in order
  Anchor,    \* Anchor[f]: the directory that declares a package-lifetime f
  Modules,   \* the paths of the test modules
  MayFail,   \* the fixtures whose setup may raise
  Interrupts, \* whether Ctrl-C may be pressed
  Requests   \* what a test may be: [async, params, arranged, lazy], whether it is
             \* `async def`, and the fixtures it has as parameters, names in
             \* @oxi.arrange, and reaches through `fx.` in its body.  A sync test
             \* reaches no async one through `fx.` and no function-lifetime async
             \* one at all (refused); none is arranged here

VARIABLES
  \* the session
  values,    \* every value ever built: [fx, home, deps, state], home the list
             \* that got its teardown; "starting", "live" or "failed"
  cache,     \* the caches of all scopes: set of [scope, key, id]
  lists,     \* lists[key]: the registered teardowns, oldest first
  packages,  \* the keys of _package_scopes, in insertion order
  loop,      \* the SharedAsyncManager is "idle" or "live"
  torn,      \* the values torn down so far, in order
  \* the test being run
  stage,     \* "idle", then "resolve", "arrange", "await", "body", "teardown",
             \* "over"
  module,    \* the module of the test
  ask,       \* its request
  want,      \* the fixtures this stage has still to resolve
  waiting,   \* its function-lifetime async parameters, awaited inside the body
  kept,      \* the length of the test's list when arranging began
  moved,     \* teardowns of arranged entries, held apart from the test's list
  frames,    \* the fixtures being built, innermost last
  held,      \* what the test was given: pairs of a fixture and a value
  result     \* "none", "passed", "failed" or "interrupted"

sessionVars == <<values, cache, lists, packages, loop, torn>>
testVars == <<stage, module, ask, want, waiting, kept, moved, frames, held, result>>
fixtureVars == <<sessionVars, testVars>>

Wide == {"module", "package", "process"}
NoPath == <<>>
NoRequest == [async |-> FALSE, params |-> <<>>, arranged |-> <<>>, lazy |-> <<>>]

\* A scope is a tier and the path that tells its buckets apart.
Function == <<"function", NoPath>>
Session == <<"session", NoPath>>
Process == <<"process", NoPath>>
Module(m) == <<"module", m>>
Package(a) == <<"package", a>>
Anchors == {Anchor[f] : f \in {g \in Fixtures : Tier[g] = "package"}}
Scopes == {Function, Session, Process} \cup {Module(m) : m \in Modules}
            \cup {Package(a) : a \in Anchors}

\* A scope has a list of sync teardowns; its async generators are registered
\* under its boundary with the manager, or at the function tier with the sink of
\* the running test.
Sync(scope) == <<"sync", scope>>
Async(scope) == <<"async", scope>>
Keys == {"sync", "async"} \X Scopes

Within(path, dir) == IsPrefix(dir, path)
DeepestFirst(S) == SetToSortSeq(S, LAMBDA a, b : Len(a) > Len(b))

FixtureInit ==
  /\ values = <<>> /\ cache = {} /\ lists = [k \in Keys |-> <<>>]
  /\ packages = <<>> /\ loop = "idle" /\ torn = <<>>
  /\ stage = "idle" /\ module = NoPath /\ ask = NoRequest /\ want = <<>>
  /\ waiting = <<>> /\ kept = 0 /\ moved = <<>> /\ frames = <<>> /\ held = {}
  /\ result = "none"

-----------------------------------------------------------------------------
(* Where a fixture is cached and where its teardown goes. *)

\* The scope that caches f.  The session builtin follows a process-lifetime
\* fixture that asks for it into the process scope.
ScopeFor(f, ownerTier) ==
  CASE Tier[f] = "module" -> Module(module)
    [] Tier[f] = "package" -> Package(Anchor[f])
    [] Tier[f] = "process" \/ (Tier[f] = "session" /\ ownerTier = "process") -> Process
    [] Tier[f] = "session" /\ ownerTier # "process" -> Session
    [] Tier[f] \in {"function", "plain"} -> Function

\* Mutant: every scope keys its cache on the short name.
BareName(f) == Name[f]
\* The key of f in the cache of its scope: qualified by the namespace at
\* function and module lifetime, the short name elsewhere.
CacheKey(f) == IF Tier[f] \in {"function", "module"} THEN f ELSE Name[f]

\* The list f's teardown is appended to.  `owner` is the scope of the nearest
\* enclosing fixture wider than function lifetime, or the test's.
HomeOf(f, scope, owner) ==
  IF Tier[f] = "plain" THEN Sync(owner)
  ELSE IF IsAsync[f] THEN Async(scope) ELSE Sync(scope)

OwnerTier == IF frames = <<>> THEN "none" ELSE Last(frames).ownerTier
OwnerScope == IF frames = <<>> THEN Function ELSE Last(frames).owner

\* What is being asked for, and by whom: the innermost fixture under
\* construction, or the test.
Todo == IF frames = <<>> THEN want ELSE Last(frames).todo
Requested == Head(Todo)
CachedIds(f, scope) ==
  {e.id : e \in {c \in cache : c.scope = scope /\ c.key = CacheKey(f)}}

\* A parameter that is async at function lifetime stays an unawaited coroutine
\* while parameters are resolved.
Deferred(f) ==
  stage = "resolve" /\ frames = <<>> /\ IsAsync[f] /\ Tier[f] = "function"

\* Hands value id to whoever asked for it; fs are the frames below the value.
Deliver(id, fs) ==
  IF fs = <<>>
  THEN frames' = <<>> /\ want' = Tail(want) /\ held' = held \cup {<<Head(want), id>>}
  ELSE LET top == Last(fs)
       IN /\ frames' = [fs EXCEPT ![Len(fs)].todo = Tail(top.todo),
                                  ![Len(fs)].got = @ \cup {<<Head(top.todo), id>>}]
          /\ UNCHANGED <<want, held>>

-----------------------------------------------------------------------------
(* One test: `_run_test_impl`. *)

\* Collection refuses a test that asks for a fixture anchored outside its package.
Usable(m, r) ==
  \A f \in ToSet(r.params \o r.arranged \o r.lazy) :
     Tier[f] = "package" => Within(m, Anchor[f])

\* resolve_for_test replaces the function scope, whatever the last test left.
Begin(m, r) ==
  /\ stage = "idle" /\ Usable(m, r)
  /\ stage' = "resolve" /\ module' = m /\ ask' = r /\ want' = r.params
  /\ waiting' = <<>> /\ held' = {} /\ result' = "none"
  /\ cache' = {c \in cache : c.scope # Function}
  /\ UNCHANGED <<values, lists, packages, loop, torn, kept, moved, frames>>

Defer ==
  /\ Todo # <<>> /\ Deferred(Requested)
  /\ waiting' = Append(waiting, Requested)
  /\ want' = Tail(want)
  /\ UNCHANGED <<sessionVars, stage, module, ask, kept, moved, frames, held, result>>

\* The value is in the cache of its scope.
Hit ==
  /\ Todo # <<>> /\ ~ Deferred(Requested) /\ Tier[Requested] # "plain"
  /\ \E id \in CachedIds(Requested, ScopeFor(Requested, OwnerTier)) : Deliver(id, frames)
  /\ UNCHANGED <<sessionVars, stage, module, ask, waiting, kept, moved, result>>

\* Reached through an awaitable handle of the `fx.` proxy, which builds with the
\* context of the test instead of descending into the fixture's own.
ByHandle(f) == stage = "body" /\ frames = <<>> /\ IsAsync[f]

\* The construction of f: its dependencies are resolved with f as their owner,
\* and with f's list as the home of the uncached ones if f is a wide fixture.
FrameOf(f, scope) ==
  [fx |-> f, scope |-> scope, todo |-> Deps[f], got |-> {}, id |-> 0,
   home |-> HomeOf(f, scope, OwnerScope), byHandle |-> ByHandle(f),
   ownerTier |-> IF ByHandle(f) THEN "none" ELSE Tier[f],
   owner |-> IF Tier[f] \in Wide /\ ~ ByHandle(f) THEN scope ELSE OwnerScope]

\* Not in the cache: _scope_for makes the bucket, and the dependencies come first.
Enter ==
  /\ Todo # <<>> /\ ~ Deferred(Requested)
  /\ LET f == Requested
         scope == ScopeFor(f, OwnerTier)
     IN /\ Tier[f] = "plain" \/ CachedIds(f, scope) = {}
        /\ frames' = Append(frames, FrameOf(f, scope))
        /\ packages' = IF scope[1] = "package" /\ ~ Contains(packages, scope[2])
                         THEN Append(packages, scope[2]) ELSE packages
  /\ UNCHANGED <<values, cache, lists, loop, torn, stage, module, ask, want,
                 waiting, kept, moved, held, result>>

\* Mutant: the handle's build runs on the shared session too.
EagerAlways(fr) == IsAsync[fr.fx] /\ Tier[fr.fx] \in Wide
\* A wide async fixture that is not awaited through a handle runs eagerly on the
\* shared session, which cannot be entered while the loop already runs a test.
Eager(fr) == IsAsync[fr.fx] /\ Tier[fr.fx] \in Wide /\ ~ fr.byHandle
LoopRunning == ask.async /\ stage \in {"await", "body"}

\* Mutant: the teardown is registered only after the setup, by a later step.
StartUnregistered ==
  /\ frames # <<>> /\ Todo = <<>> /\ Last(frames).id = 0
  /\ values' = Append(values, [fx |-> Last(frames).fx, home |-> Last(frames).home,
                   deps |-> {g[2] : g \in Last(frames).got}, state |-> "live"])
  /\ frames' = [frames EXCEPT ![Len(frames)].id = Len(values) + 1]
  /\ loop' = IF Eager(Last(frames)) THEN "live" ELSE loop
  /\ UNCHANGED <<lists, cache, packages, torn, stage, module, ask, want, waiting,
                 kept, moved, held, result>>
\* Dependencies are in: register the teardown, then run the body to its yield.  A
\* builtin or provider value has no body to suspend and is created in this step.
Start ==
  /\ frames # <<>> /\ Todo = <<>> /\ Last(frames).id = 0
  /\ LET fr == Last(frames)
         id == Len(values) + 1
     IN /\ values' = Append(values,
             [fx |-> fr.fx, home |-> fr.home, deps |-> {g[2] : g \in fr.got},
              state |-> IF Tier[fr.fx] \in {"plain", "session"} THEN "live" ELSE "starting"])
        /\ lists' = [lists EXCEPT ![fr.home] = Append(@, id)]
        /\ frames' = [frames EXCEPT ![Len(frames)].id = id]
        /\ loop' = IF Eager(fr) THEN "live" ELSE loop
  /\ UNCHANGED <<cache, packages, torn, stage, module, ask, want, waiting, kept,
                 moved, held, result>>

\* The setup reached its yield: cache the value and hand it on.  What an arranged
\* entry put on the test's list is moved off it.
Advance ==
  /\ frames # <<>> /\ Last(frames).id # 0
  /\ LET fr == Last(frames)
         own == lists[Sync(Function)]
         arranging == stage = "arrange" /\ Len(frames) = 1
     IN /\ ~ (Eager(fr) /\ LoopRunning)
        /\ values' = [values EXCEPT ![fr.id].state = "live"]
        /\ cache' = IF Tier[fr.fx] = "plain" THEN cache
                     ELSE cache \cup {[scope |-> fr.scope, key |-> CacheKey(fr.fx), id |-> fr.id]}
        /\ Deliver(fr.id, Front(frames))
        /\ moved' = IF arranging THEN moved \o SubSeq(own, kept + 1, Len(own)) ELSE moved
        /\ lists' = IF arranging THEN [lists EXCEPT ![Sync(Function)] = SubSeq(own, 1, kept)]
                     ELSE lists
  /\ UNCHANGED <<packages, loop, torn, stage, module, ask, waiting, kept, result>>

\* The test is abandoned with result r.  While parameters are resolved nothing
\* drains the test's list; later the `finally` does, without the moved part.
Abandon(r) ==
  /\ stage' = IF stage = "resolve" THEN "over" ELSE "teardown"
  /\ lists' = IF stage = "resolve" THEN [lists EXCEPT ![Sync(Function)] = <<>>] ELSE lists
  /\ result' = r
  /\ moved' = <<>> /\ want' = <<>> /\ frames' = <<>> /\ held' = {}
  /\ UNCHANGED <<cache, packages, loop, torn, module, ask, waiting, kept>>

\* The setup raises, or cannot run because the loop is taken.
SetupFails ==
  /\ frames # <<>> /\ Last(frames).id # 0
  /\ Last(frames).fx \in MayFail \/ (Eager(Last(frames)) /\ LoopRunning)
  /\ values' = [values EXCEPT ![Last(frames).id].state = "failed"]
  /\ Abandon("failed")

\* KeyboardInterrupt, anywhere before the teardown of the test.  Inside a running
\* loop its delivery is the async backend's.
Interrupt ==
  /\ Interrupts /\ stage \in {"resolve", "arrange", "await", "body"} /\ ~ LoopRunning
  /\ Abandon("interrupted")
  /\ UNCHANGED values

StageDone(s) == stage = s /\ frames = <<>> /\ want = <<>>

\* A mark may skip the test once its parameters are resolved.
SkippedByMark ==
  /\ StageDone("resolve")
  /\ stage' = "teardown" /\ result' = "passed"
  /\ UNCHANGED <<sessionVars, module, ask, want, waiting, kept, moved, frames, held>>

Arrange ==
  /\ StageDone("resolve")
  /\ stage' = "arrange" /\ want' = ask.arranged /\ kept' = Len(lists[Sync(Function)])
  /\ UNCHANGED <<sessionVars, module, ask, waiting, moved, frames, held, result>>

WideAsyncVisible == \E f \in Fixtures : IsAsync[f] /\ Tier[f] \in Wide

\* Arranged teardowns go back on the test's list.  An async test that might reach
\* a wide async fixture is promoted to the shared loop before it starts.
EnterLoop ==
  /\ StageDone("arrange")
  /\ stage' = "await" /\ want' = waiting /\ moved' = <<>>
  /\ lists' = [lists EXCEPT ![Sync(Function)] = @ \o moved]
  /\ loop' = IF ask.async /\ WideAsyncVisible THEN "live" ELSE loop
  /\ UNCHANGED <<values, cache, packages, torn, module, ask, waiting, kept, frames,
                 held, result>>

EnterBody ==
  /\ StageDone("await")
  /\ stage' = "body" /\ want' = ask.lazy
  /\ UNCHANGED <<sessionVars, module, ask, waiting, kept, moved, frames, held, result>>

BodyEnds ==
  /\ stage = "body" /\ frames = <<>>
  /\ result' \in {"passed", "failed"}
  /\ stage' = "teardown" /\ want' = <<>>
  /\ UNCHANGED <<sessionVars, module, ask, waiting, kept, moved, frames, held>>

-----------------------------------------------------------------------------
(* Disposal. *)

\* setup_completed: only a setup that reached its yield is resumed.
Completed(id) == values[id].state = "live"

\* Mutant: teardowns run oldest first.
OldestFirst(keys) ==
  FlattenSeq([n \in DOMAIN keys |-> SelectSeq(lists[keys[n]], Completed)])
\* The teardowns the lists of keys run, list by list, each newest first.
Teardowns(keys) ==
  FlattenSeq([n \in DOMAIN keys |-> SelectSeq(Reverse(lists[keys[n]]), Completed)])

\* Mutant: the cache of a drained scope survives it.
DrainKeepsCache(keys) ==
  /\ torn' = torn \o Teardowns(keys)
  /\ lists' = [k \in Keys |-> IF k \in ToSet(keys) THEN <<>> ELSE lists[k]]
  /\ cache' = {c \in cache : c.scope[1] \in {"function", "session", "process"}
                              \/ Sync(c.scope) \notin ToSet(keys)}
\* Mutant: the teardown list of a drained scope survives it.
DrainKeepsList(keys) ==
  /\ torn' = torn \o Teardowns(keys)
  /\ lists' = lists
  /\ cache' = {c \in cache : Sync(c.scope) \notin ToSet(keys)}
\* Runs the lists of keys in order and empties them, and drops the cache of every
\* scope whose sync list is among them.
Drain(keys) ==
  /\ torn' = torn \o Teardowns(keys)
  /\ lists' = [k \in Keys |-> IF k \in ToSet(keys) THEN <<>> ELSE lists[k]]
  /\ cache' = {c \in cache : Sync(c.scope) \notin ToSet(keys)}

\* The async generators on the sink are drained inside the body, then
\* _run_teardowns drains the test's list and drops the function scope.
Teardown ==
  /\ stage = "teardown"
  /\ Drain(<<Async(Function), Sync(Function)>>)
  /\ stage' = "over" /\ held' = {}
  /\ UNCHANGED <<values, packages, loop, module, ask, want, waiting, kept, moved,
                 frames, result>>

\* drain_boundary does nothing while the manager is idle.
Boundary(scope) == IF loop = "live" THEN <<Async(scope), Sync(scope)>> ELSE <<Sync(scope)>>

EndModule(m) ==
  /\ Drain(Boundary(Module(m)))
  /\ UNCHANGED <<values, packages, loop, testVars>>

\* The live anchors a package boundary ends, innermost first.
AnchorsEndingWith(dir) == DeepestFirst({a \in ToSet(packages) : Within(a, dir)})

EndPackage(dir) ==
  LET ending == AnchorsEndingWith(dir)
  IN /\ Drain(FlattenSeq([n \in DOMAIN ending |-> Boundary(Package(ending[n]))]))
     /\ packages' = SelectSeq(packages, LAMBDA a : ~ Within(a, dir))
     /\ UNCHANGED <<values, loop, testVars>>

\* drain_task: every async boundary but the process's, deepest path first.
TaskBoundaries ==
  LET open == {s \in Scopes : s[1] \in {"module", "package"} /\ lists[Async(s)] # <<>>}
      ordered == SetToSortSeq(open, LAMBDA s, t : Len(s[2]) > Len(t[2]))
  IN IF loop = "live" THEN [n \in DOMAIN ordered |-> Async(ordered[n])] ELSE <<>>

\* end_package for each anchor still held, in insertion order.
HeldAnchors ==
  FoldLeft(LAMBDA done, dir :
             done \o SelectSeq(AnchorsEndingWith(dir), LAMBDA a : ~ Contains(done, a)),
           <<>>, packages)

\* Mutant: the task boundary drains the process scope as well.
EndTaskDrainsProcess ==
  /\ Drain(TaskBoundaries
             \o [n \in DOMAIN HeldAnchors |-> Sync(Package(HeldAnchors[n]))]
             \o <<Sync(Session), Sync(Process)>>)
  /\ packages' = <<>>
  /\ UNCHANGED <<values, loop, testVars>>
\* Async generators first, then the packages' sync values, then the session
\* builtins; the loop stays open for the process tier.
EndTask ==
  /\ Drain(TaskBoundaries
             \o [n \in DOMAIN HeldAnchors |-> Sync(Package(HeldAnchors[n]))]
             \o <<Sync(Session)>>)
  /\ packages' = <<>>
  /\ UNCHANGED <<values, loop, testVars>>

\* cleanup drains what async is left, the process's last, and closes the loop; the
\* sync process scope follows.
EndProcess ==
  /\ Drain(TaskBoundaries \o Boundary(Process))
  /\ loop' = "idle"
  /\ UNCHANGED <<values, packages, testVars>>

\* The steps of the test in progress.
TestStep ==
  \/ Defer \/ Hit \/ Enter \/ Start \/ Advance \/ SetupFails
  \/ SkippedByMark \/ Arrange \/ EnterLoop \/ EnterBody \/ BodyEnds \/ Teardown

-----------------------------------------------------------------------------
(* Properties of the session, whichever loop drives it. *)

Ids == 1..Len(values)
Torn == ToSet(torn)
\* Values whose teardown some list still holds.
Owed == UNION {ToSet(lists[k]) : k \in Keys} \cup ToSet(moved)
Given == held \cup UNION {frames[n].got : n \in DOMAIN frames}

FixtureTypeOK ==
  /\ \A id \in Ids : /\ values[id].fx \in Fixtures /\ values[id].home \in Keys
                      /\ values[id].deps \subseteq Ids
                      /\ values[id].state \in {"starting", "live", "failed"}
  /\ cache \subseteq [scope : Scopes, key : Fixtures \cup {Name[f] : f \in Fixtures}, id : Ids]
  /\ lists \in [Keys -> Seq(Ids)] /\ torn \in Seq(Ids) /\ moved \in Seq(Ids)
  /\ packages \in Seq(Anchors) /\ loop \in {"idle", "live"}
  /\ stage \in {"idle", "resolve", "arrange", "await", "body", "teardown", "over"}
  /\ module \in Modules \cup {NoPath} /\ ask \in Requests \cup {NoRequest}
  /\ want \in Seq(Fixtures) /\ waiting \in Seq(Fixtures) /\ kept \in Nat
  /\ held \subseteq Fixtures \X Ids
  /\ \A n \in DOMAIN frames : frames[n].fx \in Fixtures /\ frames[n].got \subseteq Fixtures \X Ids
  /\ result \in {"none", "passed", "failed", "interrupted"}

\* No teardown runs twice, whichever boundaries a value is within reach of: the
\* test's list, end_module, end_package, end_task and end_process each empty
\* what they run (`_Scope.drain`, `drain_boundary`, `drain_task`).
TornOnce == IsInjective(torn)

\* A value is torn down before what it was built from, across every kind of list
\* and boundary: no dependency of a value is disposed while the value's own
\* teardown is still to run (Amendments 6 and 10, `_anchors_ending_with`,
\* `drain_task`).
DependentsFirst ==
  /\ \A id \in Owed : Completed(id) => values[id].deps \cap Torn = {}
  /\ \A a, b \in DOMAIN torn : torn[b] \in values[torn[a]].deps => a < b

\* Neither a test nor a fixture under construction is ever handed a value whose
\* teardown has run: draining a scope empties its cache with its list.
NoStaleValue == {g[2] : g \in Given} \cap Torn = {}

\* Whoever asks for a fixture gets a value of that fixture, not of a namesake
\* from another namespace that shares the scope (`_cache_key`).
OwnInstance == \A g \in Given : values[g[2]].fx = g[1]

\* No fixture wider than its test was built to completion twice in one scope.
BuiltOnce ==
  \A a, b \in Ids :
     (a < b /\ Completed(a) /\ Completed(b) /\ Tier[values[a].fx] \in Wide)
        => values[a].fx # values[b].fx \/ values[a].home # values[b].home

\* A fixture wider than its test whose setup reached its yield is torn down or
\* has its teardown registered, whatever fails or is interrupted around it.
WideNeverLost ==
  \A id \in Ids : (Completed(id) /\ values[id].home[2] # Function) => id \in Torn \cup Owed

\* The same for every fixture: "a fixture is torn down if and only if its body
\* reached its yield" (ADR-0009, Amendment 11).
NeverLost == \A id \in Ids : Completed(id) => id \in Torn \cup Owed

\* A setup fails only where the fixture itself raises: "async fixtures may depend
\* on other async fixtures" (`_instantiate`).
OnlyOwnFailures == \A id \in Ids : values[id].state = "failed" => values[id].fx \in MayFail
=============================================================================
