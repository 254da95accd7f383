---------------------------- MODULE SourceBlocks ----------------------------
(***************************************************************************)
(* The parser of workflow and rule bodies: from the lines of a body to its *)
(* steps.  A line is a record of what it says, without its wording; a      *)
(* statement that spans lines without a body of steps (a triple-quoted     *)
(* text, a fenced script, a match, a call over several lines) counts as    *)
(* one.  The parser is a recursive descent that looks at one line at a     *)
(* time, with one exception: a catch or recover block is scanned ahead for *)
(* its closing brace.                                                      *)
(***************************************************************************)
EXTENDS Naturals, Integers, Sequences, SequencesExt

-----------------------------------------------------------------------------
\* Lines

\* form is how a value is written, esc the backslashes before a quote in it, has
\* what the rest of the compiler or the formatter looks at.
Typed(form, esc, has) == [form |-> form, esc |-> esc, has |-> has]
NoText == Typed("none", 0, {})

\* t: blank, comment, route, config, key, if, elseif, else, lateelse, for, close,
\* open (a shell line ending in a brace), stmt, or clause: a call with a catch or a
\* recover, whose body is a block on the lines below, a single statement, or an
\* inline block.
Line(t) == [t |-> t, kw |-> "", val |-> NoText, guard |-> "none", shape |-> "", inner |-> <<>>]
Stmt(kw, v) == [Line("stmt") EXCEPT !.kw = kw, !.val = v]
Clause(kw, v, guard, shape, inner) ==
  [Line("clause") EXCEPT !.kw = kw, !.val = v, !.guard = guard, !.shape = shape, !.inner = inner]

Opens(l) == l.t \in {"config", "if", "for", "open"} \/ (l.t = "clause" /\ l.shape = "block")

\* The braces of a line, those its characters come to, quoted text and all, and what
\* the scan for a catch block's end makes of it, to which a closing brace counts only
\* on a line of its own.
Braces(l) == IF Opens(l) THEN 1 ELSE IF l.t = "close" THEN -1 ELSE 0
Nesting(l) == IF l.t = "lateelse" \/ "brace" \in l.val.has THEN 1 ELSE Braces(l)
Scanned(l) == IF l.t \in {"else", "elseif"} THEN 1 ELSE Nesting(l)

-----------------------------------------------------------------------------
\* Values

\* What a statement makes of a value: an expression of the syntax tree, an error,
\* or nothing, and then the line is run by a shell.
Expr(form, v) == [form |-> form, esc |-> v.esc, has |-> v.has]
Error == Expr("error", NoText)
Or(ok, x) == IF ok THEN x ELSE Error

ScriptForms == {"tick", "fence"}
Scripted(v) == Or(v.form = "tick" => "interpolated" \notin v.has, Expr("script", v))

\* A text among the arguments keeps its newlines, a quoted string that runs over
\* several lines loses them.
CallOf(v) == Expr(v.form, [v EXCEPT !.has = IF "split" \in @ THEN {"joined"} ELSE @])

\* The comments of a match are skipped and its patterns unescaped.
MatchOf(v) ==
  Or("quote" \notin v.has,
     [form |-> "match", esc |-> 0, has |-> (v.has \ {"note"}) \cup IF v.esc > 0 THEN {"quote"} ELSE {}])

\* The schema after a prompt's body.  It ends at the first quote that is not escaped
\* and what follows it on the line is dropped, but not behind the text of a
\* triple-quoted body, where the schema must be the last thing on its line; a schema
\* on the line after the text may have anything behind it.
Schema(v) ==
  Or(/\ "extra" \notin v.has
     /\ {"text", "rest"} \subseteq v.has => "next" \in v.has,
     Expr("prompt", [v EXCEPT !.has = @ \cap {"name", "text", "returns", "quote", "empty", "cut"}]))

\* The body is a string on one line, ${name}, which becomes one, a bare name or a
\* triple-quoted text, never a fence.
Prompted(v) == IF v.has \cap {"fence", "open"} # {} THEN Error ELSE Schema(v)

\* A string ends on its line; the quotes of a text stand alone on theirs.
StringOf(v) == Or("open" \notin v.has, Expr("literal", v))
TextOf(v) == Or(v.has \cap {"opened", "extra"} = {}, Expr("text", v))

\* ${name} alone, quoted or not, and a bare name are one message to a log; with a
\* field the name must be braced.
Message(v) ==
  CASE v.form = "quoted" /\ v.has \cap {"sole", "dotted"} # {"sole"} -> StringOf(v)
    [] v.form = "ref" /\ "dotted" \in v.has -> [Expr("literal", v) EXCEPT !.has = {"sole", "dotted"}]
    [] v.form = "name" -> Or(v.has = {}, Expr("ref", v))
    [] v.form \in {"quoted", "ref"} -> [Expr("ref", v) EXCEPT !.has = v.has \cap {"keyword"}]
    [] OTHER -> Error

Said(v) ==
  CASE v.form = "text" -> TextOf(v)
    [] v.form \in ScriptForms -> Scripted(v)
    [] OTHER -> Message(v)

Failure(v) ==
  CASE v.form = "quoted" -> StringOf(v)
    [] v.form = "text" -> TextOf(v)
    [] v.form = "ref" -> Expr("ref", v)
    [] OTHER -> Error

Returned(v) ==
  CASE v.form = "quoted" -> StringOf(v)
    [] v.form = "text" -> TextOf(v)
    [] v.form \in {"ref", "name"} -> Expr(v.form, v)
    [] v.form \in ScriptForms -> Scripted(v)
    [] v.form \in {"call", "ensure"} -> CallOf(v)
    [] v.form = "match" -> MatchOf(v)
    [] v.form = "number" -> Error
    [] OTHER -> Expr("shell", v)

Constant(v) ==
  CASE v.form = "quoted" -> StringOf(v)
    [] v.form = "name" -> [Expr("literal", v) EXCEPT !.has = @ \cup {"sole"}]
    [] v.form = "text" -> TextOf(v)
    [] v.form \in {"ref", "number", "words"} -> Expr(v.form, v)
    [] v.form = "prompt" -> Prompted(v)
    [] v.form \in ScriptForms -> Scripted(v)
    [] v.form \in {"call", "ensure"} -> CallOf(v)
    [] v.form = "async" -> Or(v.has = {}, CallOf(v))
    [] v.form = "match" -> MatchOf(v)
    [] OTHER -> Error

Payload(v) ==
  CASE v.form = "quoted" -> StringOf(v)
    [] v.form = "text" -> TextOf(v)
    [] v.form \in {"ref", "name"} -> Expr(v.form, v)
    [] v.form = "call" /\ v.has = {} -> CallOf(v)
    [] OTHER -> Expr("command", v)

\* What stands on its own: run, ensure, prompt and match.
Executed(v) ==
  CASE v.form \in ScriptForms -> Scripted(v)
    [] v.form \in {"call", "ensure", "async"} -> CallOf(v)
    [] v.form = "match" -> MatchOf(v)
    [] v.form = "prompt" -> Prompted(v)
    [] OTHER -> Expr("shell", v)

Value(kw, v) ==
  CASE kw = "log" -> Said(v)
    [] kw = "fail" -> Failure(v)
    [] kw = "return" -> Returned(v)
    [] kw = "const" -> Constant(v)
    [] kw = "send" -> Payload(v)
    [] OTHER -> Executed(v)

\* In a rule's own lines the parser refuses what the validator refuses elsewhere.
ForRule(kw, v) == kw = "send" \/ v.form = "prompt"

-----------------------------------------------------------------------------
\* Steps

Node(t) == [t |-> t, kw |-> "", val |-> NoText, guard |-> "none", single |-> FALSE,
            body |-> <<>>, hasElse |-> FALSE, els |-> <<>>]
Note(t) == Node(t)
If(then, els, hasElse) == [Node("if") EXCEPT !.body = then, !.els = els, !.hasElse = hasElse]
Command(l) == [Node("shell") EXCEPT !.body = <<l>>]

\* A parse: "ok" with the steps and the next line, "more" when the lines ended
\* first, "bad" for any other error.
Parsed(steps, next, by) == [is |-> "ok", steps |-> steps, next |-> next, by |-> by]
Failed(is) == [is |-> is, steps |-> <<>>, next |-> 0, by |-> "end"]

\* rule: a rule's own lines; blanks: blank lines are kept; config: a config block
\* is taken; arm: an else closes the body.
Plain == [rule |-> FALSE, blanks |-> FALSE, config |-> FALSE, arm |-> FALSE]
OfWorkflowArm == [Plain EXCEPT !.blanks = TRUE, !.config = TRUE, !.arm = TRUE]  \* a mutant
OfWorkflow == [Plain EXCEPT !.blanks = TRUE, !.config = TRUE]
OfArm == [Plain EXCEPT !.arm = TRUE]
OfRule == [Plain EXCEPT !.rule = TRUE]

\* Config blocks are no steps; the workflow takes them out at the end.
Counted(steps) == SelectSeq(steps, LAMBDA s : s.t # "config")
Begun(steps) == \E i \in DOMAIN steps : steps[i].t \notin {"config", "comment", "blank"}
Blank(steps) ==
  IF Counted(steps) # <<>> /\ Last(Counted(steps)).t # "blank" THEN <<Note("blank")>> ELSE <<>>

OpenBlocks(ls) == FoldLeft(LAMBDA n, l : n + Braces(l), 0, ls)

\* Whether the scan from line i on finds the brace that closes the block before it.
Closes(ls, i) ==
  \E n \in i .. Len(ls) :
    /\ ls[n].t = "close"
    /\ FoldLeft(LAMBDA d, l : d + Scanned(l), 1, SubSeq(ls, i, n)) = 0

\* What follows a catch on its line has a recover: the call is then sought in front
\* of that recover, and what is found there is more than a call.
RECURSIVE Recovers(_)
Recovers(l) ==
  \E n \in DOMAIN l.inner :
    l.inner[n].t = "clause" /\ (l.inner[n].guard = "recover" \/ Recovers(l.inner[n]))
Misread(l) == l.guard = "catch" /\ l.val.form \in {"call", "async"} /\ Recovers(l)

RECURSIVE ParseBody(_, _, _, _), ParseStatement(_, _, _), ParseArm(_, _)

\* An else if becomes an if alone in an else, and must not be empty.
Otherwise(then, rest) ==
  IF rest.is = "ok" THEN Parsed(<<If(then.steps, rest.steps, TRUE)>>, rest.next, "line") ELSE rest

ArmOf(ls, i, then) ==
  CASE then.is # "ok" -> then
    [] ls[i].t = "elseif" /\ then.steps = <<>> -> Failed("bad")
    [] then.by = "end" -> Parsed(<<If(then.steps, <<>>, FALSE)>>, then.next, "line")
    [] then.by = "elseif" -> Otherwise(then, ParseArm(ls, then.next))
    [] OTHER -> Otherwise(then, ParseBody(ls, then.next, <<>>, Plain))

ParseArm(ls, i) == ArmOf(ls, i, ParseBody(ls, i + 1, <<>>, OfArm))

\* A clause follows a call on one line or an inline script; ensure has no recover.
Attachable(l) ==
  /\ l.val.form \in ScriptForms \cup {"call", "ensure", "async"}
  /\ l.val.form \notin ScriptForms => l.val.has = {}
  /\ l.guard = "recover" => l.val.form # "ensure"
  /\ Executed(l.val).form # "error"

Guarded(l, body, next) ==
  Parsed(<<[Node("exec") EXCEPT !.kw = l.kw, !.val = Executed(l.val), !.guard = l.guard,
                                !.single = (l.shape = "single"), !.body = body]>>, next, "line")

BlockClause(l, b) ==
  IF b.is # "ok" THEN b ELSE IF b.steps = <<>> THEN Failed("bad") ELSE Guarded(l, b.steps, b.next)

LineClause(l, i, parts) ==
  IF parts = <<>> \/ \E n \in DOMAIN parts : parts[n].is # "ok" THEN Failed("bad")
  ELSE Guarded(l, FlattenSeq([n \in DOMAIN parts |-> parts[n].steps]), i + 1)

\* A statement on the line of its clause: whatever it needs below is not there.
ParseAtHost(l) == ParseStatement(<<l>>, 1, Plain)

ParseClause(ls, i) ==
  CASE ~Attachable(ls[i]) \/ Misread(ls[i]) -> Failed("bad")
    [] ls[i].shape # "block" -> LineClause(ls[i], i, [n \in DOMAIN ls[i].inner |-> ParseAtHost(ls[i].inner[n])])
    [] ~Closes(ls, i + 1) -> Failed("more")
    [] OTHER -> BlockClause(ls[i], ParseBody(ls, i + 1, <<>>, Plain))

Loop(b) == IF b.is = "ok" THEN Parsed(<<[Node("for") EXCEPT !.body = b.steps]>>, b.next, "line") ELSE b

\* A line that is none of the known statements is a shell's.
Statement(l, v, i) ==
  CASE v.form = "error" -> Failed("bad")
    [] v.form = "shell" -> Parsed(<<Command(l)>>, i + 1, "line")
    [] OTHER -> Parsed(<<[Node("stmt") EXCEPT !.kw = l.kw, !.val = v]>>, i + 1, "line")

\* A loop's body is parsed with the options of the lines around it, and whichever
\* way it is closed is taken for its end.
ParseStatement(ls, i, opts) ==
  CASE ls[i].t = "comment" -> Parsed(<<Note("comment")>>, i + 1, "line")
    [] ls[i].t = "if"       -> ParseArm(ls, i)
    [] ls[i].t = "lateelse" -> Failed("bad")
    [] ls[i].t = "for"      -> Loop(ParseBody(ls, i + 1, <<>>, opts))
    [] ls[i].t = "clause"   -> ParseClause(ls, i)
    [] ls[i].t = "stmt" /\ opts.rule /\ ForRule(ls[i].kw, ls[i].val) -> Failed("bad")
    [] ls[i].t = "stmt"     -> Statement(ls[i], Value(ls[i].kw, ls[i].val), i)
    [] OTHER -> Parsed(<<Command(ls[i])>>, i + 1, "line")

ParseConfig(ls, i, steps) ==
  CASE Begun(steps) -> Failed("bad")
    [] i + 2 > Len(ls) -> Failed("more")
    [] ls[i + 1].t = "key" /\ ls[i + 2].t = "close" -> Parsed(<<Note("config")>>, i + 3, "line")
    [] OTHER -> Failed("bad")

ParseLine(ls, i, steps, opts) ==
  CASE ls[i].t = "blank"   -> Parsed(IF opts.blanks THEN Blank(steps) ELSE <<>>, i + 1, "line")
    [] ls[i].t = "elseif" /\ opts.arm -> Parsed(<<>>, i, "elseif")
    [] ls[i].t = "else" /\ opts.arm   -> Parsed(<<>>, i + 1, "else")
    [] ls[i].t = "close"   -> Parsed(<<>>, i + 1, "end")
    [] ls[i].t = "config" /\ opts.config -> ParseConfig(ls, i, steps)
    [] ls[i].t = "route"   -> Failed("bad")
    [] OTHER -> ParseStatement(ls, i, opts)

BodyOf(ls, steps, opts, line) ==
  IF line.is # "ok" THEN line
  ELSE IF line.by = "line" THEN ParseBody(ls, line.next, steps \o line.steps, opts)
  ELSE Parsed(steps, line.next, line.by)

\* The lines from i on, up to the one that ends the body.
ParseBody(ls, i, steps, opts) ==
  IF i > Len(ls) THEN Failed("more") ELSE BodyOf(ls, steps, opts, ParseLine(ls, i, steps, opts))

\* A rule reads its own lines itself: a shell line that leaves a brace open takes
\* the lines up to where the braces match, those in quoted text too.
ShellLines(ls, i) ==
  LET Depth(n) == FoldLeft(LAMBDA d, l : d + Nesting(l), 0, SubSeq(ls, i, n))
      Ends == {n \in i + 1 .. Len(ls) : Depth(n) = 0}
  IN  IF Ends = {} THEN Failed("more")
      ELSE LET n == CHOOSE n \in Ends : \A m \in Ends : n <= m
           IN  Parsed(<<[Node("shell") EXCEPT !.body = SubSeq(ls, i, n)]>>, n + 1, "line")

RuleStatement(ls, i, s) ==
  IF s.is = "ok" /\ s.steps[1].t = "shell" /\ Nesting(ls[i]) > 0 THEN ShellLines(ls, i) ELSE s

RuleLine(ls, i, steps) ==
  CASE ls[i].t = "blank" -> Parsed(Blank(steps), i + 1, "line")
    [] ls[i].t = "close" -> Parsed(<<>>, i + 1, "end")
    [] OTHER -> RuleStatement(ls, i, ParseStatement(ls, i, OfRule))

RECURSIVE ParseRule(_, _, _)

RuleOf(ls, steps, line) ==
  IF line.is # "ok" THEN line
  ELSE IF line.by = "line" THEN ParseRule(ls, line.next, steps \o line.steps)
  ELSE Parsed(steps, line.next, line.by)

ParseRule(ls, i, steps) ==
  IF i > Len(ls) THEN Failed("more") ELSE RuleOf(ls, steps, RuleLine(ls, i, steps))

-----------------------------------------------------------------------------
\* Bodies

\* The config blocks, of the body and of the loops at its top, are taken out.
RECURSIVE Hoisted(_), Configs(_)
Hoisted(steps) ==
  LET Inner(s) == IF s.t = "for" THEN [s EXCEPT !.body = Hoisted(s.body)] ELSE s
  IN  [n \in DOMAIN Counted(steps) |-> Inner(Counted(steps)[n])]
Configs(steps) ==
  FoldLeft(LAMBDA n, s : n + (IF s.t = "config" THEN 1 ELSE IF s.t = "for" THEN Configs(s.body) ELSE 0), 0, steps)

RECURSIVE Trimmed(_)
Trimmed(steps) == IF steps # <<>> /\ Last(steps).t = "blank" THEN Trimmed(Front(steps)) ELSE steps

Whole(ls, p) ==
  IF p.is # "ok" THEN [is |-> p.is, config |-> FALSE, steps |-> <<>>]
  ELSE IF Configs(p.steps) > 1 \/ p.next <= Len(ls) THEN [is |-> "bad", config |-> FALSE, steps |-> <<>>]
  ELSE [is |-> "ok", config |-> Configs(p.steps) = 1, steps |-> Trimmed(Hoisted(p.steps))]

\* Which reader takes a body, and with which options: a rule has its own, the body of
\* a mock in a test is read as a block is.
Options(home) ==
  CASE home = "workflow" -> OfWorkflow
    [] home = "mock rule" -> OfRule
    [] OTHER -> Plain

\* The lines of a whole body, its closing brace the last of them.
Parse(home, ls) ==
  Whole(ls, CASE home = "rule" -> ParseRule(ls, 1, <<>>)
              [] OTHER -> ParseBody(ls, 1, <<>>, Options(home)))

=============================================================================
