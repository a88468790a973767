----------------------------- MODULE MCSessions -----------------------------
(* Instances of Sessions for TLC, and the suites of fixtures and tests they  *)
(* are checked on.                                                           *)
EXTENDS Sessions

NoDir == <<>>
Pkg == <<"pkg">>
Sub == <<"pkg", "sub">>
A == <<"pkg", "a">>
B == <<"pkg", "sub", "b">>
C == <<"c">>
AllModules == {A, B, C}

\* A suite with every tier: a process connection built on a session builtin, an
\* outer sync package, an inner async one built on it, a module fixture holding an
\* uncached builtin, and two function-lifetime namesakes, one async.
AllFixtures == {"env", "tmp", "conn", "outer", "inner", "mod", "item", "plugin_item"}
TierOf ==
  [env |-> "session", tmp |-> "plain", conn |-> "process", outer |-> "package",
   inner |-> "package", mod |-> "module", item |-> "function", plugin_item |-> "function"]
AsyncOf == [f \in AllFixtures |-> f \in {"inner", "plugin_item"}]
NameOf == [f \in AllFixtures |-> IF f = "plugin_item" THEN "item" ELSE f]
DepsOf ==
  [env |-> <<>>, tmp |-> <<>>, conn |-> <<"env">>, outer |-> <<>>, inner |-> <<"outer">>,
   mod |-> <<"tmp", "env">>, item |-> <<"mod">>, plugin_item |-> <<"item">>]
AnchorOf == [f \in AllFixtures |-> IF f = "outer" THEN Pkg ELSE IF f = "inner" THEN Sub ELSE NoDir]

Request(async, params, arranged, lazy) ==
  [async |-> async, params |-> params, arranged |-> arranged, lazy |-> lazy]
\* Where visible, a sync test arranges the async package value and an async test
\* reaches it through its handle.
Mixed == {Request(FALSE, <<"item", "conn">>, <<>>, <<"env">>),
          Request(FALSE, <<"conn">>, <<"item", "inner">>, <<"outer">>),
          Request(TRUE, <<"item", "plugin_item">>, <<"outer">>, <<"inner">>)}

\* Two function fixtures, the second of which may fail.
FnFixtures == {"item", "bad"}
FnTier == [f \in FnFixtures |-> "function"]
FnAsync == [f \in FnFixtures |-> FALSE]
FnName == [f \in FnFixtures |-> f]
FnDeps == [f \in FnFixtures |-> <<>>]
FnAnchor == [f \in FnFixtures |-> NoDir]
BothParams == {Request(FALSE, <<"item", "bad">>, <<>>, <<>>)}

-----------------------------------------------------------------------------
Item(p, t) == [path |-> p, test |-> t]
Mod(p, ts) == [path |-> p, tests |-> ts]
Group(a, ms) == [anchor |-> a, modules |-> ms]
Plan(items, phases, retries) == [collected |-> items, phases |-> phases, retries |-> retries]

Four == <<Item(A, 1), Item(B, 2), Item(B, 3), Item(C, 4)>>
PackageGroup == <<Group({Pkg}, <<Mod(B, <<2, 3>>), Mod(A, <<1>>)>>)>>
ModuleGroup == <<Group({}, <<Mod(C, <<4>>)>>)>>
Two == <<Item(A, 1), Item(C, 2)>>
OneEach == <<<<Group({}, <<Mod(A, <<1>>)>>)>>, <<Group({}, <<Mod(C, <<2>>)>>)>>>>
One == <<Item(A, 1)>>
Alone == <<<<Group({}, <<Mod(A, <<1>>)>>)>>>>
\* A package group of two modules and a module on its own, in two phases and in
\* one; two tests that are retried once, and one that is retried twice.
FourPlans ==
  {Plan(Four, <<PackageGroup, ModuleGroup>>, 0), Plan(Four, <<PackageGroup \o ModuleGroup>>, 0),
   Plan(Two, OneEach, 1), Plan(One, Alone, 2)}
OnePlan == {Plan(One, Alone, 0)}

\* A package task of two modules, then a single-module task.
TwoTasks == <<<<[path |-> B, tests |-> 1], [path |-> A, tests |-> 1]>>, <<[path |-> C, tests |-> 2]>>>>
=============================================================================
