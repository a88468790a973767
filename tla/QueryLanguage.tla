---------------------------- MODULE QueryLanguage ----------------------------
(***************************************************************************)
(* The query language of `oxitest query -E`, `run -E` and `debug -E`       *)
(* (src/query/compile.rs, eval.rs, ast.rs, resource.rs).                   *)
(*                                                                         *)
(* An input is a sequence of symbols.  A symbol is a punctuation           *)
(* character, a blank, a quote or a whole bare word: two bare words never  *)
(* touch.  A text (a field value, a quoted string, a bare word) is a       *)
(* sequence of symbols too, so that "contains" is "has as a factor".       *)
(***************************************************************************)
EXTENDS Naturals, Sequences, FiniteSets

Punctuation == {"(", ")", "&", "|", "!", "~", "="}
Keywords == {"and", "or", "not"}

\* A Token: its kind and, for an identifier or a literal, its text.
Token(kind, text) == [kind |-> kind, text |-> text]
DslError(reason) == [error |-> reason]
Failed(result) == "error" \in DOMAIN result
\* Result::and_then
Then(result, Use(_)) == IF Failed(result) THEN result ELSE Use(result)

\* Where a literal opened at `pos` closes: 0 when it does not.
ClosedAt(input, pos) ==
  LET ends == {i \in (pos + 1)..Len(input) : input[i] = input[pos]}
  IN  IF ends = {} THEN 0 ELSE CHOOSE i \in ends : \A j \in ends : i <= j

\* Characters of a bare word; every other symbol stands for itself.
IsBareWord(symbol, words) == symbol \in words \cup Keywords

(***************************************************************************)
(* lex: one pass.  `ident` is prev_was_ident, `str` is next_bare_is_str.   *)
(***************************************************************************)
RECURSIVE LexFrom(_, _, _, _, _, _)
LexFrom(input, words, pos, tokens, ident, str) ==
  IF pos > Len(input) THEN [tokens |-> tokens]
  ELSE
  LET c == input[pos]
      close == ClosedAt(input, pos)
  IN
  CASE c = " " -> LexFrom(input, words, pos + 1, tokens, ident, str)
    [] c \in Punctuation ->
         LexFrom(input, words, pos + 1, Append(tokens, Token(c, <<>>)), FALSE,
                 \/ c = "(" /\ ident
                 \/ c \in {"~", "="})
    [] c = "/" /\ close = 0 -> DslError("UnterminatedRegex")
    [] c \in {"'", "\""} /\ close = 0 -> DslError("UnterminatedString")
    [] c \in {"/", "'", "\""} /\ close # 0 ->
         LexFrom(input, words, close + 1,
                 Append(tokens, Token(IF c = "/" THEN "regex" ELSE "str",
                                      SubSeq(input, pos + 1, close - 1))),
                 FALSE, FALSE)
    [] IsBareWord(c, words) /\ str ->
         LexFrom(input, words, pos + 1, Append(tokens, Token("str", <<c>>)), FALSE, FALSE)
    [] IsBareWord(c, words) /\ ~str /\ c \in Keywords ->
         LexFrom(input, words, pos + 1, Append(tokens, Token(c, <<>>)), FALSE, FALSE)
    [] IsBareWord(c, words) /\ ~str /\ c \notin Keywords ->
         LexFrom(input, words, pos + 1, Append(tokens, Token("ident", <<c>>)), TRUE, FALSE)
    [] OTHER -> DslError("ParseError")

Lex(input, words) == LexFrom(input, words, 1, <<>>, FALSE, FALSE)

(***************************************************************************)
(* The parser.  A parse result is an error or the expression read and the  *)
(* position after it.                                                      *)
(***************************************************************************)
Any == [how |-> "any", text |-> <<>>]
Contains(text) == [how |-> "contains", text |-> text]
Exact(text) == [how |-> "exact", text |-> text]
Regex(text) == [how |-> "regex", text |-> text]

Predicate(name, matcher) == [op |-> "pred", name |-> name, matcher |-> matcher]
And(a, b) == [op |-> "and", left |-> a, right |-> b]
Or(a, b) == [op |-> "or", left |-> a, right |-> b]
Not(a) == [op |-> "not", inner |-> a]

Parsed(expr, pos) == [expr |-> expr, pos |-> pos]
Peek(tokens, pos) == IF pos \in DOMAIN tokens THEN tokens[pos].kind ELSE "end"
Expect(tokens, pos, kind, result, reason) ==
  IF Peek(tokens, pos) = kind THEN result ELSE DslError(reason)

\* regex::Regex::new, for the patterns the models use: a lone parenthesis
\* does not compile.
RegexCompiles(text) == \A i \in DOMAIN text : text[i] \notin {"(", ")"}

ParsePredicate(tokens, name, pos) ==
  LET arg == pos + 1
      closing(matcher, at) ==
        Expect(tokens, at, ")", Parsed(Predicate(name, matcher), at + 1), "ParseError")
      afterSign(matcher(_)) ==
        IF Peek(tokens, arg + 1) = "str"
        THEN closing(matcher(tokens[arg + 1].text), arg + 2)
        ELSE DslError("ParseError")
  IN
  IF Peek(tokens, pos) # "(" THEN DslError("MissingParens")
  ELSE CASE Peek(tokens, arg) = ")" -> closing(Any, arg)
         [] Peek(tokens, arg) = "~" -> afterSign(Contains)
         [] Peek(tokens, arg) = "=" -> afterSign(Exact)
         [] Peek(tokens, arg) = "regex" ->
              IF RegexCompiles(tokens[arg].text)
              THEN closing(Regex(tokens[arg].text), arg + 1)
              ELSE DslError("InvalidRegex")
         [] Peek(tokens, arg) = "str" -> closing(Contains(tokens[arg].text), arg + 1)
         [] OTHER -> DslError("ParseError")

RECURSIVE ParseExpr(_, _)
RECURSIVE ParseTerm(_, _)
RECURSIVE ParseOperators(_, _)

ParseAtom(tokens, pos) ==
  CASE Peek(tokens, pos) = "(" ->
         Then(ParseExpr(tokens, pos + 1),
              LAMBDA inner : Expect(tokens, inner.pos, ")", Parsed(inner.expr, inner.pos + 1), "UnmatchedParen"))
    [] Peek(tokens, pos) = "ident" -> ParsePredicate(tokens, tokens[pos].text[1], pos + 1)
    [] Peek(tokens, pos) = ")" -> DslError("UnmatchedParen")
    [] Peek(tokens, pos) = "end" -> DslError("EmptyExpression")
    [] OTHER -> DslError("ParseError")

ParseTerm(tokens, pos) ==
  IF Peek(tokens, pos) \notin {"!", "not"} THEN ParseAtom(tokens, pos)
  ELSE Then(ParseTerm(tokens, pos + 1), LAMBDA inner : Parsed(Not(inner.expr), inner.pos))

\* The loop of parse_expr: both operators have one precedence and associate
\* to the left.
ParseOperators(tokens, left) ==
  IF Peek(tokens, left.pos) \notin {"&", "and", "|", "or"} THEN left
  ELSE LET join(right) == IF Peek(tokens, left.pos) \in {"&", "and"}
                          THEN And(left.expr, right.expr) ELSE Or(left.expr, right.expr)
       IN  Then(ParseTerm(tokens, left.pos + 1),
                LAMBDA right : ParseOperators(tokens, Parsed(join(right), right.pos)))

ParseExpr(tokens, pos) ==
  Then(ParseTerm(tokens, pos), LAMBDA first : ParseOperators(tokens, first))

\* Mutant: what follows a complete expression is ignored.
ParsePrefix(tokens) ==
  IF tokens = <<>> THEN DslError("EmptyExpression") ELSE ParseExpr(tokens, 1)

Parse(tokens) ==
  IF tokens = <<>> THEN DslError("EmptyExpression")
  ELSE Then(ParseExpr(tokens, 1),
            LAMBDA result : IF result.pos <= Len(tokens) THEN DslError("ParseError") ELSE result)

Compile(input, words) == Then(Lex(input, words), LAMBDA lexed : Parse(lexed.tokens))

(***************************************************************************)
(* Evaluation against an entry: a function from field names to texts.  A   *)
(* text is read as its comma-separated parts.                              *)
(***************************************************************************)
IsFactor(part, text) ==
  \E i \in 0..Len(text) : i + Len(part) <= Len(text) /\ SubSeq(text, i + 1, i + Len(part)) = part

\* The comma-separated parts of a text.
Parts(text) ==
  LET cuts == {0, Len(text) + 1} \cup {i \in DOMAIN text : text[i] = ","}
  IN  {SubSeq(text, c[1] + 1, c[2] - 1) :
         c \in {p \in cuts \X cuts : p[1] < p[2] /\ \A k \in cuts : k <= p[1] \/ k >= p[2]}}

\* A regex of the models is a literal, searched anywhere.
RegexMatches(pattern, part) == IsFactor(pattern, part)

Matches(matcher, text) ==
  CASE matcher.how = "any" -> text \notin {<<>>, <<"false">>}
    [] matcher.how = "contains" -> \E part \in Parts(text) : IsFactor(matcher.text, part)
    [] matcher.how = "exact" -> matcher.text \in Parts(text)
    [] matcher.how = "regex" -> \E part \in Parts(text) : RegexMatches(matcher.text, part)

RECURSIVE Eval(_, _)
Eval(expr, entry) ==
  CASE expr.op = "and" -> Eval(expr.left, entry) /\ Eval(expr.right, entry)
    [] expr.op = "or" -> Eval(expr.left, entry) \/ Eval(expr.right, entry)
    [] expr.op = "not" -> ~Eval(expr.inner, entry)
    [] expr.op = "pred" -> expr.name \in DOMAIN entry /\ Matches(expr.matcher, entry[expr.name])

ValidPredicates ==
  [tests |-> {"name", "source", "mark", "async", "uses"},
   fixtures |-> {"name", "source", "autouse", "async", "uses"},
   marks |-> {"name", "used_in"},
   plugins |-> {"name", "protocol"}]

RECURSIVE PredicatesOf(_)
PredicatesOf(expr) ==
  CASE expr.op \in {"and", "or"} -> PredicatesOf(expr.left) \cup PredicatesOf(expr.right)
    [] expr.op = "not" -> PredicatesOf(expr.inner)
    [] expr.op = "pred" -> {expr.name}

\* validate_predicates walks the tree and stops at the first foreign name.
ValidFor(expr, resource) == PredicatesOf(expr) \subseteq ValidPredicates[resource]

\* Mutant: `uses` is answered without a session.
ExprNeedsPythonLess(expr) == PredicatesOf(expr) \cap {"autouse", "protocol"} # {}

\* expr_needs_python: the predicates that only the Python session can answer.
ExprNeedsPython(expr) == PredicatesOf(expr) \cap {"autouse", "protocol", "uses"} # {}

\* `given` tells an absent expression from an empty one, which does not parse.
NeedsPython(resource, given, expression, words) ==
  \/ resource \in {"fixtures", "plugins"}
  \/ /\ given
     /\ \E compiled \in {Compile(expression, words)} : Failed(compiled) \/ ExprNeedsPython(compiled.expr)
==============================================================================
