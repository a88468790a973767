------------------------------ MODULE MCInspect ------------------------------
(***************************************************************************)
(* The instance TLC checks: a project with every kind of node, a smaller   *)
(* one, and one that can neither be collected nor loaded.                  *)
(***************************************************************************)
EXTENDS Inspect

MCRoot == <<"r">>
MCWords == {"mark", "slow", "t", "u"}

File(name) == <<"r", "/", name>>
TestIn(file, name) == File(file) \o <<"::", name>>
FixtureEntry(name, source, home) ==
  [name |-> <<name>>, source |-> source, home |-> home, anchor |-> IF home = <<>> THEN <<>> ELSE source,
   autouse |-> FALSE, async |-> FALSE, description |-> <<>>]

Whole ==
  [files |-> <<File("a"), File("b")>>, collects |-> TRUE, session |-> TRUE,
   affected |-> [is |-> "files", files |-> <<File("a")>>], failed |-> {TestIn("a", "t")},
   tests |-> <<[name |-> TestIn("a", "t"), async |-> FALSE, marks |-> <<<<"slow">>>>],
               [name |-> TestIn("b", "u"), async |-> TRUE, marks |-> <<<<"slow">>>>]>>,
   marks |-> <<[name |-> <<"slow">>, registered |-> FALSE, files |-> {File("a"), File("b")}]>>,
   fixtures |-> <<FixtureEntry("db", File("a"), <<"inline">>), FixtureEntry("x", File("a"), <<"inline">>),
                  FixtureEntry("y", File("f"), <<"fixtures-file">>),
                  FixtureEntry("p", <<"<plugin:", "plug", ">">>, <<>>)>>,
   plugins |-> <<[name |-> <<"plug">>, protocols |-> <<<<"fixtures">>>>]>>,
   deps |-> <<[test |-> TestIn("a", "t"), names |-> <<<<"db">>, <<"p">>>>],
              [test |-> TestIn("b", "u"), names |-> <<<<"db">>, <<"none">>>>]>>,
   autouse |-> <<[module |-> File("a"), names |-> <<<<"db">>>>, lifetimes |-> <<<<"module">>>>],
                 [module |-> File("b"), names |-> <<>>, lifetimes |-> <<>>]>>]

Small ==
  [Whole EXCEPT !.files = <<File("a")>>, !.affected = [is |-> "all", files |-> <<>>],
                !.tests = <<[name |-> TestIn("a", "t"), async |-> FALSE, marks |-> <<>>]>>, !.marks = <<>>,
                !.fixtures = <<FixtureEntry("x", File("a"), <<"inline">>)>>, !.plugins = <<>>, !.deps = <<>>]
Broken == [Small EXCEPT !.collects = FALSE, !.session = FALSE]
MCProjects == {Whole, Small, Broken}

Invocation(jump, affected, failed, expression) ==
  [jump |-> jump, affected |-> affected, failed |-> failed, expression |-> expression]
MCInvocations ==
  {Invocation({}, FALSE, FALSE, <<>>), Invocation({<<"r">>}, FALSE, FALSE, <<>>),
   Invocation({<<"slow">>}, FALSE, FALSE, <<>>),
   Invocation({}, TRUE, TRUE, <<"mark", "(", "slow", ")">>)}
==============================================================================
