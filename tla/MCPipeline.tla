----------------------------- MODULE MCPipeline -----------------------------
(***************************************************************************)
(* Two modules: m with two plain tests, the id of one being the beginning  *)
(* of the other's, and n with a case of a parametrized test.               *)
(***************************************************************************)
EXTENDS Pipeline

Test(id, fn, module, param, within, inprocess) ==
  [id |-> id, fn |-> fn, module |-> module, param |-> param, within |-> within, inprocess |-> inprocess]

MCTests == <<Test("m::t", "t", "m", FALSE, {"m::t"}, TRUE),
             Test("m::tt", "tt", "m", FALSE, {"m::t", "m::tt"}, FALSE),
             Test("n::p[1]", "p", "n", TRUE, {"n::p[1]"}, FALSE)>>

AllIds == {t.id : t \in Range(MCTests)}

MCOutcomes == [id \in AllIds |-> CASE id = "m::t" -> {Plainly("passed"), Plainly("failed")}
                                  [] id = "m::tt" -> {Plainly("passed"), UsageError}
                                  [] id = "n::p[1]" -> {Plainly("skipped"), Plainly("timeout"), XPassedStrict}]
MCMaxAge == 1

Plain == [cmd |-> "run", fault |-> "none", affected |-> {"m", "n"}, targets |-> {}, matching |-> AllIds,
          failed |-> "none", strict |-> "off", raw |-> <<>>, markers |-> 0, serial |-> FALSE,
          maxfail |-> 0, retries |-> 0, style |-> "tty", json |-> "writable", junit |-> "off"]

Violation(id, module, kind) == [id |-> id, module |-> module, kind |-> kind, detail |-> "plain"]

Faults == {"setup_refuses", "setup_answers", "coverage", "bad_glob", "session", "session_usage", "import",
           "fx_call", "fx_boundary", "fixture_names", "expression", "payloads"}

MCInvocations ==
  {[Plain EXCEPT !.fault = f] : f \in Faults}
  \cup {[Plain EXCEPT !.cmd = "query", !.fault = f] : f \in {"none", "session", "homes", "fzf", "expression"}}
  \cup {Plain,
        [Plain EXCEPT !.affected = {}],
        [Plain EXCEPT !.affected = {"m"}, !.retries = 1, !.style = "verbose", !.junit = "writable"],
        [Plain EXCEPT !.serial = TRUE, !.retries = 2, !.targets = {"m::tt", "n::p[1]"}],
        [Plain EXCEPT !.maxfail = 1, !.failed = "first", !.style = "ci"],
        [Plain EXCEPT !.failed = "only", !.matching = {"m::t", "n::p[1]"}],
        [Plain EXCEPT !.failed = "only", !.retries = 1, !.style = "ci"],
        [Plain EXCEPT !.failed = "only", !.targets = {"m::t"}, !.json = "unwritable"],
        [Plain EXCEPT !.targets = {"m::t", "m::gone"}],
        [Plain EXCEPT !.cmd = "debug", !.serial = TRUE, !.targets = {"m::t"}, !.retries = 1],
        [Plain EXCEPT !.strict = "abort", !.raw = <<Violation("m::t", "m", "BareAssert")>>, !.junit = "writable"],
        [Plain EXCEPT !.strict = "enforce", !.markers = 1,
                      !.raw = <<Violation("m::t", "m", "BareAssert")>>, !.junit = "writable"],
        [Plain EXCEPT !.strict = "enforce", !.raw = <<Violation("n::p", "n", "BareAssert")>>,
                      !.targets = {"n::p[1]"}]}
=============================================================================
