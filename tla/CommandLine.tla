---------------------------- MODULE CommandLine ----------------------------
(* How a command line becomes a command (src/config/cli/ and the setup part of         *)
(* src/pipeline/mod.rs): parsing, the implied `run`, the positional arguments, the     *)
(* options of plugins, and the exits before a pipeline starts.                         *)
(* A token is [dash, name, inline]: `name` is the text before an "=" and `inline` the  *)
(* text after it, if any.  Parsing proper is clap's and is modelled from its use.       *)
EXTENDS Configuration
LOCAL INSTANCE SequencesExt

Flag(name) == [dash |-> TRUE, name |-> <<name>>, inline |-> {}]
FlagWith(name, value) == [dash |-> TRUE, name |-> <<name>>, inline |-> {value}]
Word(text) == [dash |-> FALSE, name |-> text, inline |-> {}]
\* A token as the value of the option before it.
TokenText(token) ==
  IF token.inline = {} THEN token.name ELSE token.name \o <<"=">> \o CHOOSE v \in token.inline : TRUE

Subcommands == {"run", "debug", "query", "inspect", "env", "completions", "fixtures"}

(* The options of a subcommand: from a flag to the setting it speaks of, its form (a    *)
(* "switch", a "count", a "value", or a "value" that is only read after an "=", with    *)
(* what it means without one) and the values it takes.                                  *)
Switch(key) == [key |-> key, form |-> "switch", values |-> {}, bare |-> {}]
Valued(key, values) == [key |-> key, form |-> "value", values |-> values, bare |-> {}]
Optional(key, values, bare) == [key |-> key, form |-> "optional", values |-> values, bare |-> {bare}]
Numbers == 0 .. 3
NumberOf(text) == CHOOSE n \in Numbers : ToString(n) = text
Digits == {ToString(n) : n \in Numbers}

FilteringOptions ==
  "--affected" :> Optional("affected", {"main"}, "") @@ "-E" :> Valued("expression", {"expr"})
FailedFilterOptions ==
  "--failed" :> Valued("failed", FailedModes) @@ "--lf" :> Switch("lf") @@ "--ff" :> Switch("ff")
VerbosityOptions ==
  "-v" :> [Switch("v") EXCEPT !.form = "count"] @@ "--verbose" :> Optional("verbose", Verbosities, "detailed")
OutputOptions ==
  VerbosityOptions @@ "-q" :> Switch("quiet") @@ "--tb" :> Valued("tb", TbStyles)
    @@ "--show-locals" :> Switch("show_locals")
    @@ "--keep-tmp" :> Optional("keep_tmp", KeepTmpModes, "failed")
    @@ "--color" :> Valued("color", ColorModes)
RunOptions ==
  "-x" :> Switch("exitfirst") @@ "--maxfail" :> Valued("maxfail", Digits)
    @@ "--serial" :> Switch("serial") @@ "--doctest-modules" :> Switch("doctest_modules")
    @@ "-n" :> Valued("workers", {"auto"} \cup (Digits \ {"0"}))
    @@ "--schedule" :> Valued("schedule", ScheduleStrategies)
    @@ "--timeout" :> Valued("timeout", Digits) @@ "--retries" :> Valued("retries", Digits)
    @@ "--strict" :> Optional("strict", StrictModes, "abort")
    @@ "--show-internals" :> Switch("show_internals")
    @@ "--tips" :> Switch("tips") @@ "--warnings" :> Switch("warnings")
    @@ "--durations" :> Valued("durations", Digits)
    @@ "--collection-profile" :> Switch("collection_profile")
    @@ "--json" :> Valued("json", {"out"}) @@ "--junit-xml" :> Valued("junit_xml", {"out"})
    @@ "--cov" :> Switch("cov") @@ "--cov-report" :> Valued("cov_report", CovReportFormats)
    @@ FilteringOptions @@ FailedFilterOptions @@ OutputOptions
DebugOptions == "--always" :> Switch("always") @@ FilteringOptions @@ FailedFilterOptions @@ OutputOptions
QueryOptions ==
  "-E" :> Valued("expression", {"expr"}) @@ "--detail" :> Valued("detail", {"id"})
    @@ "--fzf" :> Switch("fzf") @@ "--jsonl" :> Switch("jsonl") @@ "--count" :> Switch("count")
    @@ "--tree" :> Switch("tree") @@ "--color" :> Valued("color", ColorModes)
OptionsOf(sub) ==
  CASE sub = "run" -> RunOptions [] sub = "debug" -> DebugOptions [] sub = "query" -> QueryOptions
    [] sub = "inspect" -> FilteringOptions @@ FailedFilterOptions
    [] sub = "none" -> "--no-use-gitignore" :> Switch("no_use_gitignore") [] OTHER -> <<>>
Resources == {"tests", "fixtures", "marks", "plugins"}

NumericKeys == {"maxfail", "timeout", "retries", "durations", "workers"}
ValueOf(option, word) ==
  IF option.key \in NumericKeys THEN IF word = "auto" THEN Auto ELSE NumberOf(word) ELSE word

-----------------------------------------------------------------------------
(* clap's parse, from left to right: `sub` is the subcommand met so far, `wants` the    *)
(* option whose value comes next, `error` the first error.                              *)
ParseStart == [sub |-> "none", given |-> <<>>, paths |-> <<>>, gitignore |-> TRUE, wants |-> {}, error |-> "none"]
Refused(s, error) == [s EXCEPT !.error = error]

TakeValue(s, option, text) ==
  IF Len(text) = 1 /\ text[1] \in option.values
  THEN [s EXCEPT !.given = (option.key :> ValueOf(option, text[1])) @@ @, !.wants = {}]
  ELSE Refused(s, "InvalidValue")

TakeFlag(s, option, token) ==
  CASE token.inline # {} /\ option.form \in {"value", "optional"} ->
         TakeValue(s, option, CHOOSE v \in token.inline : TRUE)
    [] token.inline # {} -> Refused(s, "TooManyValues")
    [] option.key = "no_use_gitignore" -> [s EXCEPT !.gitignore = FALSE]
    [] option.form = "count" -> [s EXCEPT !.given = ("v" :> Said(@, "v", 0) + 1) @@ @]
    [] option.form = "switch" -> [s EXCEPT !.given = (option.key :> TRUE) @@ @]
    [] option.form = "optional" -> [s EXCEPT !.given = (option.key :> CHOOSE b \in option.bare : TRUE) @@ @]
    [] OTHER -> [s EXCEPT !.wants = {option}]

TakeWord(s, text) ==
  CASE s.sub = "none" -> IF Len(text) = 1 /\ text[1] \in Subcommands
                         THEN [s EXCEPT !.sub = text[1]] ELSE Refused(s, "InvalidSubcommand")
    [] s.sub = "query" /\ "resource" \notin DOMAIN s.given ->
         TakeValue(s, Valued("resource", Resources), text)
    [] s.sub = "inspect" /\ "name" \notin DOMAIN s.given -> [s EXCEPT !.given = ("name" :> text) @@ @]
    [] s.sub \in {"run", "debug", "query", "fixtures"} -> [s EXCEPT !.paths = Append(@, text)]
    [] OTHER -> Refused(s, "UnknownArgument")

ParseToken(s, token) ==
  CASE s.error # "none" -> s
    [] s.wants # {} -> IF token.dash THEN Refused(s, "InvalidValue")
                       ELSE TakeValue(s, CHOOSE o \in s.wants : TRUE, TokenText(token))
    [] ~token.dash -> TakeWord(s, TokenText(token))
    [] token.name = <<"--help">> -> Refused(s, "DisplayHelp")
    [] token.name = <<"--version">> /\ s.sub = "none" -> Refused(s, "DisplayVersion")
    [] token.name[1] \in DOMAIN OptionsOf(s.sub) -> TakeFlag(s, OptionsOf(s.sub)[token.name[1]], token)
    [] OTHER -> Refused(s, "UnknownArgument")

Conflicting == {{"workers", "serial"}, {"lf", "failed"}, {"ff", "failed"}, {"lf", "ff"}}
ParseEnd(s) ==
  CASE s.error # "none" -> s
    [] s.wants # {} -> Refused(s, "InvalidValue")
    [] \E c \in Conflicting : c \subseteq DOMAIN s.given -> Refused(s, "ArgumentConflict")
    [] s.sub = "query" /\ "resource" \notin DOMAIN s.given -> Refused(s, "MissingRequiredArgument")
    [] OTHER -> s
TryParseFrom(tokens) == ParseEnd(FoldLeft(ParseToken, ParseStart, tokens))

-----------------------------------------------------------------------------
AppendNew(seq, value) == IF \E i \in DOMAIN seq : seq[i] = value THEN seq ELSE Append(seq, value)
PartitionPositional(split, arg) ==
  IF S!SeparatorAt(arg) = 0 THEN [split EXCEPT !.paths = AppendNew(@, arg)]
  ELSE [paths |-> IF S!ContainsGlobChars(S!ModulePath(arg)) THEN split.paths
                  ELSE AppendNew(split.paths, S!ModulePath(arg)),
        node_ids |-> Append(split.node_ids, arg)]
PartitionPositionals(raw) == FoldLeft(PartitionPositional, [paths |-> <<>>, node_ids |-> <<>>], raw)

\* A resolved command line: an error, or a command with its arguments.
Command(parsed, gitignore) ==
  [error |-> "none", sub |-> parsed.sub, gitignore |-> gitignore, given |-> parsed.given]
    @@ IF parsed.sub \in {"run", "debug"} THEN PartitionPositionals(parsed.paths)
       ELSE [paths |-> parsed.paths, node_ids |-> <<>>]
Unresolved(kind) ==
  [error |-> kind, sub |-> "none", gitignore |-> TRUE, given |-> <<>>, paths |-> <<>>, node_ids |-> <<>>]

Displays == {"DisplayVersion", "DisplayHelp"}
IsGlobalFlag(token) == token.name = <<"--no-use-gitignore">> /\ token.inline = {}
ImpliedRun(tokens) ==
  SelectSeq(tokens, IsGlobalFlag) \o <<Word(<<"run">>)>> \o SelectSeq(tokens, LAMBDA t : ~IsGlobalFlag(t))

ResolveFallback(first, fallback) ==
  IF fallback.error = "none" THEN Command(fallback, fallback.gitignore)
  ELSE Unresolved(IF first.error = "InvalidSubcommand" THEN fallback.error ELSE first.error)
ResolveParsed(tokens, first) ==
  CASE first.error = "none" /\ first.sub # "none" -> Command(first, first.gitignore)
    [] first.error = "none" -> Command(TryParseFrom(<<Word(<<"run">>)>>), first.gitignore)
    [] first.error \in Displays \/ tokens = <<>> -> Unresolved(first.error)
    [] OTHER -> ResolveFallback(first, TryParseFrom(ImpliedRun(tokens)))
Resolve(tokens) == ResolveParsed(tokens, TryParseFrom(tokens))

\* RunArgs::validate and DebugArgs::validate: whether they accept what was given.
ValidateVerbosity(given) == ~{"v", "verbose"} \subseteq DOMAIN given
ValidateRun(given) ==
  /\ ~{"exitfirst", "maxfail"} \subseteq DOMAIN given
  /\ ~{"schedule", "serial"} \subseteq DOMAIN given
  /\ {"show_locals", "show_internals"} \cap DOMAIN given # {} => Said(given, "tb", "detail") = "detail"
  /\ "cov_report" \in DOMAIN given => "cov" \in DOMAIN given
  /\ ValidateVerbosity(given)
Validate(command) ==
  CASE command.sub = "run" -> ValidateRun(command.given)
    [] command.sub = "debug" -> ValidateVerbosity(command.given)
    [] OTHER -> TRUE
=============================================================================
