----------------------------- MODULE SourceFile -----------------------------
(***************************************************************************)
(* The parser of whole files: the declarations of a module, its config     *)
(* block and, in a test file, its tests.  A declaration is one line here,  *)
(* with what stands between its braces as inner lines; the bodies of       *)
(* workflows and rules are those of SourceBlocks, and an unclosed          *)
(* declaration is not typed.                                               *)
(***************************************************************************)
EXTENDS SourceBlocks

\* Comments; a bang is one that starts as a shebang does.
Remark == {"comment", "bang"}

\* A part of the syntax tree; notes are the comments above it.
Part(l, val, body) ==
  [t |-> l.t, kw |-> l.kw, guard |-> l.guard, shape |-> l.shape, val |-> val, body |-> body, notes |-> <<>>]

-----------------------------------------------------------------------------
\* Config blocks

KeyTypes ==
  [k \in {"agent.command", "agent.backend", "run.debug", "run.recover_limit", "trusted_envs"} |->
     CASE k = "run.debug" -> {"truth"} [] k = "run.recover_limit" -> {"number"} [] OTHER -> {"literal", "ref"}]

\* No key takes a list.  Strings and names are read as a log's message is, though a
\* keyword that is no truth value is no name.
ConfigValue(v) == IF v.form \in {"truth", "number", "list"} THEN Expr(v.form, v) ELSE Message(v)

\* A backend must be known unless it is computed; what is trusted is written out.
Assigned(k, e) ==
  Or(/\ k \in DOMAIN KeyTypes
     /\ e.form \in KeyTypes[k]
     /\ k = "agent.backend" /\ e.form = "literal" => "unknown" \notin e.has \/ "sole" \in e.has
     /\ k = "trusted_envs" => e.form = "literal" /\ e.has \cap {"sole", "reserved"} = {},
     e)

\* The keys in the order they are typed.  Of a key that is set twice the last value
\* counts, and every line of it is kept.
Config(ls) ==
  LET Lines == SelectSeq(ls, LAMBDA l : l.t # "blank")
      Values == [n \in DOMAIN Lines |-> Assigned(Lines[n].kw, ConfigValue(Lines[n].val))]
      LastOf(k) == CHOOSE n \in DOMAIN Lines : Lines[n].kw = k /\ \A m \in DOMAIN Lines : Lines[m].kw = k => m <= n
      Set(n) == IF Values[n].form = "error" THEN Error ELSE Values[LastOf(Lines[n].kw)]
  IN  [n \in DOMAIN Lines |->
         IF Lines[n].t = "comment" THEN Part(Lines[n], NoText, <<>>)
         ELSE Part(Lines[n], Set(n), <<>>)]

-----------------------------------------------------------------------------
\* Declarations

PathOf(v) == Or(v.form # "single", Expr("path", [v EXCEPT !.has = {}]))

\* A constant keeps its text as it is typed; whatever is no plain word could as well
\* have been quoted.
ConstValue(v) ==
  CASE v.form = "text" -> Or(v.has \cap {"opened", "extra"} = {}, Expr("literal", v))
    [] v.form = "quoted" -> Or(v.has \cap {"open", "extra"} = {}, Expr("literal", v))
    [] v.form = "single" -> Error
    [] v.form = "word" -> Expr("word", v)
    [] OTHER -> Expr("literal", v)

\* A language has its own shebang; only the one-line form is searched for ${name}.
ScriptBody(v) ==
  CASE v.form = "tick" -> Or(v.has \cap {"interpolated", "extra"} = {}, Expr("tick", v))
    [] v.form = "fence" -> Or("extra" \notin v.has /\ ~({"lang", "bang"} \subseteq v.has), Expr("fence", v))
    [] OTHER -> Error

-----------------------------------------------------------------------------
\* Tests

\* A quoted text without the backslashes before its quotes, and with its newlines.
Unquoted(v) == Expr("literal", [v EXCEPT !.esc = 0, !.has = @ \cup IF v.esc > 0 THEN {"quote"} ELSE {}])
Decoded(v) ==
  [Unquoted(v) EXCEPT !.has = IF "newline" \in @ THEN (@ \ {"newline"}) \cup {"break"} ELSE @]

\* A mocked prompt's answer ends at any quote, an expectation at the first that is
\* not escaped, and it must be the last.
Answer(v) ==
  CASE v.form = "match" -> MatchOf(v)
    [] v.form = "name" -> Expr("name", v)
    [] v.form = "quoted" -> Or("break" \notin v.has, Decoded(v))
    [] OTHER -> Error

Expected(v) ==
  CASE v.form = "name" -> Expr("name", v)
    [] v.form = "quoted" -> Or(v.has \cap {"quote", "break"} = {}, Decoded(v))
    [] OTHER -> Error

\* The argument of a workflow that is run, which is a text however it is written.
Argument(v) == IF v.form = "none" THEN Expr("none", v) ELSE Or("break" \notin v.has, Decoded(v))

TestConst(v) == Or(v.form = "quoted" /\ v.has \cap {"quote", "break"} = {}, Decoded(v))

\* The body of a workflow or rule, or of the mock of one; a mocked script's lines are
\* kept as they are.
Bodied(l, home) == Part(l, NoText, <<Parse(home, l.inner)>>)
Mocks == [rule |-> "mock rule", workflow |-> "mock workflow"]

TestStep(l) ==
  CASE l.t \in {"comment", "blank"} -> Part(l, NoText, <<>>)
    [] l.t = "answer" -> Part(l, Answer(l.val), <<>>)
    [] l.t = "mock"   -> IF l.guard = "script" THEN Part(l, NoText, l.inner) ELSE Bodied(l, Mocks[l.guard])
    [] l.t = "expect" -> Part(l, Expected(l.val), <<>>)
    [] l.t = "const"  -> Part(l, TestConst(l.val), <<>>)
    [] l.t = "run"    -> Part(l, Argument(l.val), <<>>)
    [] OTHER -> Part(l, Error, <<>>)

\* Of blank lines in a row, and at the beginning, one or none is kept.
Kept(ls, n) == ls[n].t # "blank" \/ (n > 1 /\ ls[n - 1].t # "blank")
TestSteps(ls) ==
  FlattenSeq([n \in DOMAIN ls |-> IF Kept(ls, n) THEN <<TestStep(ls[n])>> ELSE <<>>])

-----------------------------------------------------------------------------
\* Files

Declare(l) ==
  CASE l.t \in {"scriptimport", "import"} -> Part(l, PathOf(l.val), <<>>)
    [] l.t = "config"  -> Part(l, NoText, Config(l.inner))
    [] l.t = "channel" -> Part(l, NoText, <<>>)
    [] l.t = "const"   -> Part(l, ConstValue(l.val), <<>>)
    [] l.t = "script"  -> Part(l, ScriptBody(l.val), <<>>)
    [] l.t \in {"rule", "workflow"} -> Bodied(l, l.t)
    [] l.t = "test"    -> Part(l, Or("quote" \notin l.val.has, Unquoted(l.val)), TestSteps(l.inner))
    [] OTHER -> Part(l, Error, <<>>)

\* The parser skips a shebang in the first line; a comment waits for what is below.
IsNote(ls, n) == ls[n].t = "comment" \/ (n > 1 /\ ls[n].t = "bang")
IsPart(ls, n) == ls[n].t \notin Remark \cup {"blank"}
Waiting(ls, n) ==
  LET Above == {m \in 1 .. n - 1 : \A k \in m .. n - 1 : ~IsPart(ls, k)}
  IN  FlattenSeq([m \in 1 .. n - 1 |-> IF m \in Above /\ IsNote(ls, m) THEN <<ls[m]>> ELSE <<>>])
Declarations(ls) ==
  FlattenSeq([n \in DOMAIN ls |->
    IF IsPart(ls, n) THEN <<[Declare(ls[n]) EXCEPT !.notes = Waiting(ls, n)]>> ELSE <<>>])

Kinds == <<{"scriptimport"}, {"import"}, {"config"}, {"channel"}, {"const", "rule", "script", "workflow", "test"}>>

\* A declaration is refused for its value or a part of its body.
HasBody(x) == x.t \in {"rule", "workflow"} \/ (x.t = "mock" /\ x.guard # "script")
Sound(x) == x.val.form # "error" /\ (HasBody(x) => x.body[1].is = "ok")
WellFormed(x) == Sound(x) /\ (x.t \in {"config", "test"} => \A n \in DOMAIN x.body : Sound(x.body[n]))

\* There is one config block, and one name space, which the aliases of imported
\* modules are not in.
Named(x) == x.t \in {"scriptimport", "channel", "rule", "script", "workflow", "const"}
Clash(x, y) == {x.t, y.t} = {"config"} \/ (Named(x) /\ Named(y) /\ x.kw = y.kw)
Wrong(all) ==
  SelectSeq(all, LAMBDA x : ~WellFormed(x) \/ Len(SelectSeq(all, LAMBDA y : Clash(x, y))) > 1)

\* The tree keeps each kind of import, the config block, the channels and, in the
\* order they are typed, the rest.
ParseFile(ls) ==
  LET all == Declarations(ls)
      OfKind(kinds) == SelectSeq(all, LAMBDA x : x.t \in kinds)
  IN  [is    |-> IF Wrong(all) = <<>> THEN "ok" ELSE "bad",
       bang  |-> ls # <<>> /\ Head(ls).t = "bang",
       items |-> FlattenSeq([n \in DOMAIN Kinds |-> OfKind(Kinds[n])]),
       notes |-> Waiting(ls, Len(ls) + 1)]

=============================================================================
