------------------------ MODULE InvocationQuestions ------------------------
(***************************************************************************)
(* Questions about command lines and configuration files.                  *)
(***************************************************************************)
EXTENDS Questions
LOCAL INSTANCE TLC

I == INSTANCE Invocation

\* A command line in pieces: [plugin, tokens, says], where `says` is what the
\* piece means.
TokensOf(pieces) == FlattenSeq([i \in DOMAIN pieces |-> pieces[i].tokens])
OfCore(piece) == ~piece.plugin

\* The same command line as it is, without the options of plugins, and with
\* the name of the subcommand `run` written out.
SetUp ==
  /\ question.about = "invocation" /\ Answering
  /\ LET core == TokensOf(SelectSeq(question.pieces, OfCore))
         sub == IF question.sub = "none" THEN <<>> ELSE <<I!Word(<<question.sub>>)>>
         named == <<I!Word(<<IF question.sub = "none" THEN "run" ELSE question.sub>>)>>
     IN  answer' = [whole |-> I!Setup(sub \o TokensOf(question.pieces), question.project),
                    core |-> I!Setup(sub \o core, question.project),
                    named |-> I!Setup(named \o core, question.project)]

InvocationNext == SetUp

-----------------------------------------------------------------------------
\* What all the pieces say; a later piece wins.
Says(pieces) == FoldLeft(LAMBDA said, p : p.says @@ said, <<>>, pieces)
SaysOf(pieces, plugin) == Says(SelectSeq(pieces, LAMBDA p : p.plugin = plugin))

\* The table of the project the targets lie in.
TableOf(project, root) ==
  IF root \in DOMAIN project.pyproject /\ project.pyproject[root].state = "present"
  THEN project.pyproject[root].table ELSE <<>>

\* The first of command line, file and default that speaks of a setting.
Precedence(given, table, key, default) ==
  IF key \in DOMAIN given THEN given[key] ELSE IF key \in DOMAIN table THEN table[key] ELSE default
Speaks(key, given, table) == key \in DOMAIN given \cup DOMAIN table

ModeMeant(given, table) ==
  IF "workers" \in DOMAIN given THEN I!Parallel(given.workers)
  ELSE IF "serial" \in DOMAIN given THEN I!Serial
  ELSE IF "workers" \in DOMAIN table THEN I!Parallel(table.workers)
  ELSE IF "serial" \in DOMAIN table /\ table.serial THEN I!Serial
  ELSE I!Parallel(I!Auto)

\* The settings of a run are what the command line, else the file, else the
\* default says of each of them: the file never overrules the command line,
\* whatever the order of the merges (config/merge.rs).  --maxfail 0 is the
\* exception: it leaves the file's limit in force.
RunSettings(cfg, given, table) ==
  /\ \A k \in {"tb", "color", "schedule", "retries", "show_locals", "verbosity"} :
        cfg[k] = Precedence(given, table, k, cfg[k]) /\ (~Speaks(k, given, table) => cfg[k] = I!DefaultConfig(<<>>, <<>>)[k])
  /\ \A k \in {"durations", "failed", "timeout"} :
        cfg[k] = IF Speaks(k, given, table) THEN {Precedence(given, table, k, 0)} ELSE {}
  /\ cfg.strict = {Precedence(given, table, "strict", "off")} \ {"off"}
  /\ cfg.mode = ModeMeant(given, table)
  /\ cfg.maxfail = IF "maxfail" \in DOMAIN given /\ given.maxfail > 0 THEN given.maxfail
                   ELSE Precedence(<<>>, table, "maxfail", 0)
  /\ cfg.affected = IF "affected" \notin DOMAIN given THEN {}
                    ELSE {IF given.affected # "" THEN given.affected
                          ELSE Precedence(<<>>, table, "affected_base", "HEAD")}

\* A debug session is never timed out, runs in one process, shows its own
\* frames, and stops at the first failure unless it stops everywhere.
DebugSettings(cfg, given, table) ==
  /\ cfg.mode.kind = "debug" /\ cfg.timeout = {} /\ cfg.show_internals
  /\ "always" \notin DOMAIN given => cfg.maxfail = 1
  /\ cfg.tb = IF "tb" \in DOMAIN given THEN given.tb ELSE "detail"

\* Targets are resolved where the command was given, directories of the file
\* where the file is; the declared ones do not depend on the command line.
PathsResolved(cfg, command, table, project) ==
  /\ command.paths # <<>> =>
        cfg.has_explicit_paths /\ cfg.testpaths = [i \in DOMAIN command.paths |-> project.cwd \o <<"/">> \o command.paths[i]]
  /\ cfg.declared_testpaths = IF "testpaths" \in DOMAIN table
                              THEN [i \in DOMAIN table.testpaths |-> cfg.rootdir \o <<"/">> \o table.testpaths[i]]
                              ELSE <<>>
  /\ command.paths = <<>> /\ cfg.affected = {} =>
        ~cfg.has_explicit_paths /\ cfg.testpaths = IF "testpaths" \in DOMAIN table THEN cfg.declared_testpaths ELSE <<cfg.rootdir>>
  /\ \A i \in DOMAIN command.node_ids : cfg.node_ids[i] = project.cwd \o <<"/">> \o command.node_ids[i]

\* The options of plugins leave the rest of the command line as it is,
\* wherever they stand, and reach their plugin.
PluginsApart(whole, core, pieces) ==
  /\ whole.exit = core.exit
  /\ whole.command = core.command
  /\ \A w \in whole.cfg, c \in core.cfg :
        /\ [w EXCEPT !.plugin_settings = <<>>, !.plugin_cli_values = <<>>]
             = [c EXCEPT !.plugin_settings = <<>>, !.plugin_cli_values = <<>>]
        /\ \A m \in DOMAIN SaysOf(pieces, TRUE) : \A f \in DOMAIN SaysOf(pieces, TRUE)[m] :
              w.plugin_settings[m][f].text = SaysOf(pieces, TRUE)[m][f]

\* --version and --no-use-gitignore are only understood before the name of a
\* subcommand: after it the second one makes that name a path.  --help after an
\* option of run or of a plugin is refused together with the option.
AsksTopLevel(pieces) ==
  \E i \in DOMAIN pieces :
     pieces[i].tokens[1].name \in {<<"--version">>, <<"--help">>, <<"--no-use-gitignore">>}

\* Every command line is understood as its pieces mean, however they are
\* ordered (OxitestCli::resolve, setup_with_plugin_recovery, merge_*_args).
InvocationUnderstood ==
  Answered("invocation") =>
    /\ AsksTopLevel(question.pieces) \/ PluginsApart(answer.whole, answer.core, question.pieces)
    /\ question.sub = "none" /\ ~AsksTopLevel(question.pieces) => answer.core = answer.named
    /\ \A cfg \in answer.core.cfg, command \in answer.core.command :
         LET given == SaysOf(question.pieces, FALSE)
             table == TableOf(question.project, cfg.rootdir)
         IN  /\ command.sub = "run" => RunSettings(cfg, given, table)
             /\ command.sub = "debug" => DebugSettings(cfg, given, table)
             /\ PathsResolved(cfg, command, table, question.project)
=============================================================================
