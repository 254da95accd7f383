----------------------------- MODULE SourceEmit -----------------------------
(***************************************************************************)
(* The formatter: the lines that are written for the steps of a body, and  *)
(* for the declarations of a file.                                         *)
(***************************************************************************)
EXTENDS SourceFile

-----------------------------------------------------------------------------
\* Steps

\* A mutant: every message is quoted anew, not only a log's.
WrittenAnew(kw, v) ==
  IF v.form = "literal" THEN Typed("quoted", IF v.esc > 0 THEN 2 * v.esc + 1 ELSE 0, v.has) ELSE v

\* A schema is written without its escapes, so that the parser reads a shorter one,
\* and an empty one is not written; after a text it has a line of its own.
WrittenSchema(has) ==
  CASE "empty" \in has -> has \ {"returns", "empty"}
    [] "quote" \in has -> (has \ {"quote"}) \cup {"cut", "rest", "next"}
    [] OTHER -> has \cup IF {"text", "returns"} \subseteq has THEN {"next"} ELSE {}

\* How a value is written.  A script without a language that has one line goes
\* between single backticks; the message of a log is quoted anew.
Written(kw, v) ==
  CASE v.form = "script" -> Typed(IF v.has \cap {"lines", "lang"} = {} THEN "tick" ELSE "fence", v.esc, v.has)
    [] v.form = "literal" -> Typed("quoted", IF kw = "log" /\ v.esc > 0 THEN 2 * v.esc + 1 ELSE v.esc, v.has)
    [] v.form = "ref" -> Typed(IF kw = "log" THEN "name" ELSE "ref", v.esc, v.has)
    [] v.form \in {"call", "ensure", "async"} ->
         Typed(v.form, v.esc, IF "textarg" \in v.has THEN {"split"} ELSE v.has)
    [] v.form = "prompt" -> Typed("prompt", v.esc, WrittenSchema(v.has))
    [] OTHER -> v

RECURSIVE Emit(_), EmitStep(_), EmitArms(_)

Emit(steps) == FlattenSeq([n \in DOMAIN steps |-> EmitStep(steps[n])])

\* An else that holds nothing but an if is written as an else if.
EmitArms(s) ==
  IF ~s.hasElse THEN <<Line("close")>>
  ELSE IF Len(s.els) = 1 /\ s.els[1].t = "if"
       THEN <<Line("elseif")>> \o Emit(s.els[1].body) \o EmitArms(s.els[1])
  ELSE <<Line("else")>> \o Emit(s.els) \o <<Line("close")>>

\* A single statement is written on the line of its clause as far as it has one
\* line.  The clause of an inline script is not written.
EmitGuarded(s, below) ==
  LET Host(shape, inner) == Clause(s.kw, Written(s.kw, s.val), s.guard, shape, inner)
  IN  CASE s.val.form = "script" -> <<Stmt(s.kw, Written(s.kw, s.val))>>
        [] s.single -> <<Host("single", <<Head(below)>>)>> \o Tail(below)
        [] OTHER -> <<Host("block", <<>>)>> \o below \o <<Line("close")>>

EmitStep(s) ==
  CASE s.t = "if"    -> <<Line("if")>> \o Emit(s.body) \o EmitArms(s)
    [] s.t = "for"   -> <<Line("for")>> \o Emit(s.body) \o <<Line("close")>>
    [] s.t = "shell" -> s.body
    [] s.t = "stmt"  -> <<Stmt(s.kw, Written(s.kw, s.val))>>
    [] s.t = "exec"  -> EmitGuarded(s, Emit(s.body))
    [] OTHER         -> <<Line(s.t)>>

EmitBody(p) ==
  (IF p.config THEN <<Line("config"), Line("key"), Line("close")>> ELSE <<>>)
    \o Emit(p.steps) \o <<Line("close")>>

-----------------------------------------------------------------------------
\* Declarations

\* What a line says, with the value or the inner lines it is written with.
Lined(x, v, inner) ==
  [t |-> x.t, kw |-> x.kw, val |-> v, guard |-> x.guard, shape |-> x.shape, inner |-> inner]

\* A name that is all of a string loses its quotes and braces.
WrittenKey(e) ==
  CASE e.form = "ref" -> Typed("name", e.esc, e.has)
    [] e.form = "literal" -> Typed("quoted", e.esc, e.has)
    [] OTHER -> Typed(e.form, e.esc, e.has)

EmitConfig(x) ==
  Lined(x, NoText, [n \in DOMAIN x.body |->
    IF x.body[n].t = "comment" THEN Line("comment") ELSE Lined(x.body[n], WrittenKey(x.body[n].val), <<>>)])

\* A constant is written in quotes as long as nothing in it needs an escape; a tab
\* is escaped all the same, and is a backslash when it is read again.
WrittenConst(e) ==
  CASE e.form = "word" -> Typed("word", 0, {})
    [] e.esc > 0 \/ e.has \cap {"quote", "lines"} # {} -> Typed("text", e.esc, e.has)
    [] "tab" \in e.has -> Typed("quoted", 1, e.has \ {"tab"})
    [] OTHER -> Typed("quoted", 0, e.has)

\* The strings of a test are written as they were decoded, but for its constants.
Raw(e) == IF e.form = "literal" THEN Typed("quoted", 0, e.has) ELSE Typed(e.form, e.esc, e.has)
Escaped(e) ==
  Typed("quoted", IF "quote" \in e.has THEN 1 ELSE 0,
        (e.has \ {"quote", "break"}) \cup IF "break" \in e.has THEN {"newline"} ELSE {})

EmitTestStep(x) ==
  CASE x.t \in {"comment", "blank"} -> Line(x.t)
    [] x.t = "const" -> Lined(x, Escaped(x.val), <<>>)
    [] x.t = "mock"  -> Lined(x, NoText, IF x.guard = "script" THEN x.body ELSE EmitBody(x.body[1]))
    [] OTHER -> Lined(x, Raw(x.val), <<>>)

EmitDeclaration(x) ==
  CASE x.t \in {"scriptimport", "import"} -> Lined(x, Typed("quoted", 0, {}), <<>>)
    [] x.t = "config" -> EmitConfig(x)
    [] x.t = "const"  -> Lined(x, WrittenConst(x.val), <<>>)
    [] x.t = "script" -> Lined(x, Typed(x.val.form, x.val.esc, x.val.has), <<>>)
    [] x.t \in {"rule", "workflow"} -> Lined(x, NoText, EmitBody(x.body[1]))
    [] x.t = "test"   -> Lined(x, Raw(x.val), [n \in DOMAIN x.body |-> EmitTestStep(x.body[n])])
    [] OTHER -> Lined(x, NoText, <<>>)

-----------------------------------------------------------------------------
\* Files

\* The comments above a config block are apart from it.
EmitPart(x) ==
  x.notes \o (IF x.t = "config" /\ x.notes # <<>> THEN <<Line("blank")>> ELSE <<>>) \o <<EmitDeclaration(x)>>

\* Imports, and channels, follow one another without a blank line.
Listed(x, y) == {x.t, y.t} \subseteq {"import", "scriptimport"} \/ {x.t, y.t} = {"channel"}
Apart(p, n) == IF n = 1 \/ Listed(p.items[n - 1], p.items[n]) THEN <<>> ELSE <<Line("blank")>>

EmitFile(p) ==
  (IF p.bang THEN <<Line("bang"), Line("blank")>> ELSE <<>>)
    \o FlattenSeq([n \in DOMAIN p.items |-> Apart(p, n) \o EmitPart(p.items[n])])
    \o (IF p.items = <<>> \/ p.notes = <<>> THEN <<>> ELSE <<Line("blank")>>) \o p.notes

=============================================================================
