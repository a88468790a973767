----------------------------- MODULE Invocation -----------------------------
(* From a command line to a pipeline or an exit code: setup, its recovery when the      *)
(* command line holds options of plugins, and the values those options carry            *)
(* (src/pipeline/mod.rs, src/config/cli/plugin.rs, discover_plugin_cli in bridge.rs).    *)
(* A project is as in Configuration, with `modules`, from the name of a plugin module    *)
(* to its command line extension [prefix, fields], where it has one.                    *)
EXTENDS CommandLine
LOCAL INSTANCE SequencesExt

\* A field is [name, source, short, type]; Conf fields have no flag.
PluginOption(module, prefix, field) ==
  [module |-> module, field |-> field.name, long |-> <<"--", prefix, "-", field.name>>,
   short |-> field.short, type |-> field.type]
EffectivePrefix(module, settings, ext) ==
  IF module \in DOMAIN settings THEN Said(settings[module], "cli_prefix", ext.prefix) ELSE ext.prefix

\* The modules with options, in the order of the configuration.
DiscoverPluginCli(cfg, modules) ==
  LET fields(m) == SelectSeq(modules[m].fields, LAMBDA f : f.source # "Conf")
      prefix(m) == EffectivePrefix(m, cfg.plugin_settings, modules[m])
      found == SelectSeq(cfg.plugins, LAMBDA m : m \in DOMAIN modules /\ fields(m) # <<>>)
  IN  [i \in DOMAIN found |->
         [module |-> found[i], prefix |-> prefix(found[i]),
          options |-> [j \in DOMAIN fields(found[i]) |->
                         PluginOption(found[i], prefix(found[i]), fields(found[i])[j])]]]
ValidatePrefixUniqueness(extensions) ==
  \A i, j \in DOMAIN extensions : extensions[i].prefix = extensions[j].prefix => i = j
OptionsIn(extensions) == FlattenSeq([i \in DOMAIN extensions |-> extensions[i].options])

-----------------------------------------------------------------------------
IsLong(option, token) == token.name = option.long
IsShort(option, token) == token.inline = {} /\ \E s \in option.short : token.name = <<s>>

\* A value that does not parse as its type stays a string.
TypedValue(option, text) ==
  [type |-> IF option.type \in {"int", "float"} /\ ~(Len(text) = 1 /\ text[1] \in Digits)
            THEN "string" ELSE option.type,
   text |-> text]
SetValue(values, option, value) ==
  (option.module :> ((option.field :> value) @@ Said(values, option.module, <<>>))) @@ values

\* One option looked for at token `at`; `next` is the token the loop has come to.
ExtractOption(s, option, argv, at) ==
  LET token == argv[at]
      found == IsLong(option, token) \/ IsShort(option, token)
  IN  CASE ~found -> s
        [] option.type = "bool" ->
             [s EXCEPT !.values = SetValue(@, option, [type |-> "bool", text |-> <<"true">>])]
        [] option.type # "bool" /\ token.inline # {} ->
             [s EXCEPT !.values = SetValue(@, option, TypedValue(option, CHOOSE v \in token.inline : TRUE))]
        [] option.type # "bool" /\ token.inline = {} /\ s.next < Len(argv) ->
             [next |-> s.next + 1,
              values |-> SetValue(s.values, option, TypedValue(option, TokenText(argv[s.next + 1])))]
        [] OTHER -> s
RECURSIVE ExtractFrom(_, _, _)
ExtractFrom(s, argv, options) ==
  IF s.next > Len(argv) THEN s.values
  ELSE LET found == FoldLeft(LAMBDA r, o : ExtractOption(r, o, argv, s.next), s, options)
       IN  ExtractFrom([found EXCEPT !.next = @ + 1], argv, options)
ExtractPluginValuesFromArgv(argv, options) == ExtractFrom([next |-> 1, values |-> <<>>], argv, options)

\* One of several options with this flag being a switch is enough to take no value.
TakesNext(options, token, long) ==
  ~\E i \in DOMAIN options :
      options[i].type = "bool" /\ IF long THEN IsLong(options[i], token) ELSE IsShort(options[i], token)
\* A mutant: the value of an option stays on the command line.
StripTokenKeepsValue(s, token, options, last) ==
  IF \E i \in DOMAIN options : IsLong(options[i], token) \/ IsShort(options[i], token)
  THEN s ELSE [s EXCEPT !.kept = Append(@, token), !.at = @ + 1]
StripToken(s, token, options, last) ==
  LET long == \E i \in DOMAIN options : IsLong(options[i], token)
      short == \E i \in DOMAIN options : IsShort(options[i], token)
      takes == (long => token.inline = {}) /\ TakesNext(options, token, long)
  IN  CASE s.skip -> [s EXCEPT !.skip = FALSE, !.at = @ + 1]
        [] long \/ short -> [s EXCEPT !.skip = takes /\ s.at < last, !.at = @ + 1]
        [] OTHER -> [s EXCEPT !.kept = Append(@, token), !.at = @ + 1]
StripPluginFlags(argv, options) ==
  FoldLeft(LAMBDA s, t : StripToken(s, t, options, Len(argv)),
           [kept |-> <<>>, skip |-> FALSE, at |-> 1], argv).kept

MergePluginCliValues(cfg, values) ==
  IF values = <<>> THEN cfg
  ELSE [cfg EXCEPT
          !.plugin_settings = [m \in DOMAIN values \cup DOMAIN @ |->
                                 Said(values, m, <<>>) @@ Said(@, m, <<>>)],
          !.plugin_cli_values = values]

-----------------------------------------------------------------------------
\* What setup returns: an exit code, or the command and the configuration of a pipeline.
Success == 0
Failure == 1
UsageError == 4
Leaves(code) == [exit |-> {code}, command |-> {}, cfg |-> {}]
Starts(command, cfg) == [exit |-> {}, command |-> {command}, cfg |-> {cfg}]

PipelineCommands == {"run", "debug", "query", "fixtures"}
FirstPath(command) == IF command.paths = <<>> THEN {} ELSE {command.paths[1]}
RefuseMissingTargets(command, project) ==
  \E i \in DOMAIN command.paths : ResolveTarget(project.cwd, command.paths[i]) \notin project.onDisk
MergeArgs(cfg, command, project) ==
  CASE command.sub = "run" -> MergeRunArgs(cfg, command, project.onDisk)
    [] command.sub = "debug" -> MergeDebugArgs(cfg, command, project.onDisk)
    [] OTHER -> MergeQueryArgs(cfg, command)
LoadConfig(command, project) ==
  {[MergeArgs(cfg, command, project) EXCEPT !.use_gitignore = @ /\ command.gitignore] :
     cfg \in Load(FindRootdir(FirstPath(command), project.cwd, project), project.cwd, project)}
\* Config::load exits by itself on a table it refuses.
StartsOrLeaves(command, cfgs) ==
  IF cfgs = {} THEN Leaves(UsageError) ELSE Starts(command, CHOOSE c \in cfgs : TRUE)

RecoveredSetup(command, values, project) ==
  IF command.error # "none" \/ ~Validate(command) \/ command.sub \notin PipelineCommands
     \/ RefuseMissingTargets(command, project)
  THEN Leaves(UsageError)
  ELSE StartsOrLeaves(command, {MergePluginCliValues(cfg, values) : cfg \in LoadConfig(command, project)})

Recover(argv, phase1, extensions, project) ==
  CASE extensions # <<>> /\ ~ValidatePrefixUniqueness(extensions) -> Leaves(UsageError)
    [] phase1 = "DisplayHelp" -> Leaves(Success)
    [] extensions = <<>> -> Leaves(UsageError)
    [] OTHER -> RecoveredSetup(Resolve(StripPluginFlags(argv, OptionsIn(extensions))),
                               ExtractPluginValuesFromArgv(argv, OptionsIn(extensions)), project)
SetupWithPluginRecovery(argv, phase1, rootdir, project) ==
  LET cfgs == Load(rootdir, project.cwd, project)
  IN  IF cfgs = {} THEN Leaves(UsageError)
      ELSE Recover(argv, phase1, DiscoverPluginCli(CHOOSE c \in cfgs : TRUE, project.modules), project)

SetupRefused(argv, phase1, project) ==
  LET first == IF argv = <<>> \/ argv[1].dash THEN {} ELSE {TokenText(argv[1])}
      rootdir == FindRootdir(first, project.cwd, project)
  IN  CASE phase1 = "DisplayVersion" -> Leaves(Success)
        [] phase1 \in {"DisplayHelp", "UnknownArgument"} /\ HasPluginsConfigured(rootdir, project) ->
             SetupWithPluginRecovery(argv, phase1, rootdir, project)
        [] OTHER -> Leaves(IF phase1 = "DisplayHelp" THEN Success ELSE UsageError)

(* Phase 2, when phase 1 accepted the command line, which then holds no option of a      *)
(* plugin: the extended parse can only fail the way the plain one did.  An option set    *)
(* through its environment variable is not modelled.                                     *)
Benign == {"none", "UnknownArgument", "InvalidSubcommand", "DisplayHelp", "DisplayVersion"}
SecondPhase(argv, command, cfg, extensions) ==
  IF extensions # <<>> /\ (~ValidatePrefixUniqueness(extensions) \/ TryParseFrom(argv).error \notin Benign)
  THEN Leaves(UsageError) ELSE Starts(command, cfg)
SetupPipeline(argv, command, cfgs, project) ==
  IF cfgs = {} THEN Leaves(UsageError)
  ELSE LET cfg == CHOOSE c \in cfgs : TRUE
       IN  SecondPhase(argv, command, cfg, DiscoverPluginCli(cfg, project.modules))

SetupResolved(argv, command, project) ==
  CASE command.error # "none" -> SetupRefused(argv, command.error, project)
    [] command.error = "none" /\ ~Validate(command) -> Leaves(UsageError)
    [] command.sub \in {"env", "completions"} -> Leaves(Success)
    [] command.sub = "inspect" -> Leaves(IF project.inspects THEN Success ELSE Failure)
    [] OTHER -> IF RefuseMissingTargets(command, project) THEN Leaves(UsageError)
                ELSE SetupPipeline(argv, command, LoadConfig(command, project), project)
Setup(argv, project) == SetupResolved(argv, Resolve(argv), project)
=============================================================================
