----------------------------- MODULE Toolchain -----------------------------
(***************************************************************************)
(* The commands over source files: `jaiph run`, which loads, compiles and  *)
(* runs a program, and `jaiph format`, which rewrites a body.  The         *)
(* programs that are run are listed here.                                  *)
(***************************************************************************)
EXTENDS Dispatch, MCSourceFormat

L(n) == Ref(Here, n)
Lib(n) == Ref("lib", n)

Lit(names)   == [NoValue EXCEPT !.reads = names]
Says(v)      == [NoStep EXCEPT !.op = "say", !.val = v]
Call(r, as)  == [NoValue EXCEPT !.k = "call", !.ref = r, !.args = as]
Ensure(r, as) == [Call(r, as) EXCEPT !.k = "ensure"]
InlineOf(b)  == [NoValue EXCEPT !.k = "script", !.ref = L(b)]
Match(arms)  == [NoValue EXCEPT !.k = "match", !.calls = arms]
Capture(v)   == [NoValue EXCEPT !.calls = <<v>>]
Prompt(fs)   == [NoValue EXCEPT !.k = "prompt", !.fields = fs]
ShellWith(v) == [NoValue EXCEPT !.k = "shell", !.calls = <<v>>]
Shell(word)  == [NoValue EXCEPT !.k = "shell", !.ref = L(word)]
NameArm(n)   == [Lit({n}) EXCEPT !.k = "name"]

Do(v)        == [NoStep EXCEPT !.val = v]
Const(n, v)  == [NoStep EXCEPT !.op = "const", !.name = n, !.val = v]
Send(c, v)   == [NoStep EXCEPT !.op = "send", !.src = c, !.val = v]
Branch(f, b, e)  == [NoStep EXCEPT !.op = "if", !.src = L("r"), !.field = f, !.body = b, !.els = e]
For(i, b)    == [NoStep EXCEPT !.op = "for", !.name = i, !.src = L("N"), !.body = b]
WithHandler(v, g, b) == [Do(v) EXCEPT !.name = "e", !.guard = g, !.body = b]
Returns(v)   == [NoStep EXCEPT !.op = "return", !.val = v]

Name(n)   == Arg("name", {n}, NoValue)
Text      == Arg("text", {}, NoValue)
Nested(v) == Arg("call", {}, v)

\* One statement of every form, and of every mistake the compiler looks for.
Statements == {
  Const("x", Lit({"N"})), Const("r_ok", Lit({})), Const("t", Lit({})),
  Const("x", Call(Lib("work"), <<Name("N")>>)),
  Const("x", Match(<<Call(Lib("work"), <<>>), Call(Lib("hidden"), <<>>), Call(L("gone"), <<>>), NameArm("N")>>)),
  Const("x", Capture(Call(L("helper"), <<>>))),
  Const("r", Prompt({"ok"})), Do(Prompt({})),
  Do(Call(L("helper"), <<Name("x")>>)), Do(Call(L("helper"), <<>>)), Do(Call(L("gate"), <<>>)),
  Do(Call(Lib("hidden"), <<>>)), Do(Call(Lib("s"), <<>>)), Do(Call(L("s"), <<Text>>)),
  Do(Call(L("t"), <<Nested(Call(Lib("hidden"), <<>>))>>)),
  Do(Call(L("t"), <<Nested(Call(L("helper"), <<>>))>>)), Do(Call(L("t"), <<Nested(InlineOf("b2"))>>)), Do(Call(L("default"), <<>>)),
  Do(Ensure(L("gate"), <<>>)), Do(Ensure(Lib("check"), <<>>)), Do(Ensure(L("helper"), <<Text>>)),
  WithHandler(Call(L("helper"), <<Text>>), "catch", <<Const("x", Lit({"e"})), Do(InlineOf("b4"))>>),
  WithHandler(Call(L("helper"), <<Text>>), "recover", <<Says(Lit({"e"})), Const("p", Lit({}))>>),
  WithHandler(Call(L("helper"), <<Text>>), "catch", <<Const("e", Lit({"N"})), Branch("", <<Const("x", Lit({}))>>, <<>>)>>),
  WithHandler(Ensure(L("gate"), <<Nested(Call(L("t"), <<>>))>>), "catch", <<Returns(Lit({"e"}))>>),
  Says(Lit({"x"})), Says(Lit({"e"})), Says(InlineOf("b1")), Says([Lit({}) EXCEPT !.k = "fail"]),
  Send(L("c"), Lit({"x"})), Send(Lib("c"), Call(L("t"), <<>>)), Send(L("d"), Lit({})),
  Send(L("c"), Shell("echo")),
  Do(Shell("echo")), Do(Shell("t")), Do(ShellWith(Call(Lib("hidden"), <<>>))),
  Const("x", Match(<<Capture(Call(L("helper"), <<>>)), Lit({})>>)), Do(InlineOf("b1")),
  Branch("", <<Const("x", Lit({}))>>, <<Do(InlineOf("b3"))>>),
  Branch("ok", <<Returns(Lit({}))>>, <<Const("x", Lit({}))>>),
  For("l", <<Const("y", Lit({"l"})), Says(InlineOf("b5")), Says(Lit({"y"}))>>), Const("y", Lit({})), Const("p", Lit({"N"})),
  Returns(Lit({"x"})) }

Helper == Decl("workflow", "helper", <<"p">>,
               <<Const("x", Lit({"p"})), WithHandler(Call(L("s"), <<Name("x")>>), "catch", <<Const("q", Lit({"e", "x"}))>>)>>)

Gates == {Decl("rule", "gate", <<>>, ss) : ss \in {
  <<Do(Call(L("t"), <<>>)), Says(Lit({"N"}))>>,
  <<Const("z", Match(<<Call(L("helper"), <<Text>>), Lit({})>>))>>,
  <<Do(Call(L("helper"), <<Text>>))>>,
  <<Do(Call(L("t"), <<Nested(Call(L("helper"), <<Text>>))>>))>>,
  <<Do(Ensure(Lib("check"), <<>>)), Const("z", Prompt({}))>>,
  <<Send(L("c"), Lit({}))>>}}

PlainGate == Decl("rule", "gate", <<>>, <<Do(Call(L("t"), <<>>)), Says(Lit({"N"}))>>)

Module(decls, exports, consts, channels) ==
  [decls |-> decls, exports |-> exports, consts |-> consts, channels |-> channels, config |-> <<>>]
Sets(config, x) == [x EXCEPT !.config = config]

Script(n) == Decl("script", n, <<>>, <<>>)

Main(body, gate) ==
  Module({Decl("workflow", "default", <<>>, body), Helper, gate, Script("s"), Decl("imported", "t", <<>>, <<>>)},
         {}, {"N"}, [c \in {"c"} |-> {}])

\* The library next to the program, and the one that was installed.
Near(exports, route) ==
  Module({Decl("workflow", "work", <<"p">>, <<Do(Call(L("s"), <<Name("p")>>)), Const("x", Lit({"p"}))>>),
          Decl("workflow", "hidden", <<>>,
               <<Branch("", <<For("l", <<Returns(Lit({"l"}))>>)>>, <<Do(Ensure(L("check"), <<>>))>>)>>),
          Decl("rule", "check", <<>>, <<Do(Call(L("s"), <<>>))>>),
          Decl("workflow", "sink", <<"message", "from", "via">>, <<>>), Script("s")},
         exports, {"x", "N"}, [c \in {"c"} |-> {L(route)}])

Far == Module({Decl("workflow", "work", <<>>, <<Do(Call(Ref("up", "helper"), <<Text>>))>>),
               Decl("rule", "check", <<"p">>, <<>>), Decl("workflow", "s", <<>>, <<>>)}, {}, {}, [c \in {} |-> {}])

Program(body, gate, exports) ==
  [p \in Path |-> CASE p = "main" -> Main(body, gate)
                    [] p = "near" -> Near(exports, "sink")
                    [] OTHER -> Far]

\* What stands by when a body is formatted.
NoProgram == [p \in Path |-> Module({}, {}, {}, <<>>)]

Programs ==
  {Program(<<s, t>>, PlainGate, {}) : s \in Statements, t \in Statements}
    \cup {Program(<<s>>, g, {"work", "check"}) : s \in Statements, g \in Gates}
    \cup {[p \in Path |-> IF p = "main" THEN Near({}, route) ELSE Module({}, {}, {}, [c \in {} |-> {}])] : route \in {"sink", "work"}}

\* Programs for which files come and go.
Probes ==
  {Program(<<s>>, PlainGate, {}) : s \in {
     Do(Call(Lib("work"), <<Name("N")>>)), Do(Call(Lib("hidden"), <<>>)), Do(Ensure(Lib("check"), <<>>))}}
    \cup {Program(<<Do(Ensure(L("gate"), <<>>))>>, Decl("rule", "gate", <<>>, <<Do(Call(Lib("s"), <<>>))>>), {})}

\* Programs whose modules and workflows set something, and call into one another:
\* the last of the calls leaves out an argument that a block reads.
Flags(names) == [k \in {"flags"} |-> names]
Both(names)  == [k \in {"backend", "flags"} |-> names]

InnerCalls(r) == <<Do(Call(L("inner"), <<>>)), Do(Ensure(r, <<>>))>>
Inner(config) == Sets(config, Decl("workflow", "inner", <<>>, <<Do(Call(L("s"), <<>>))>>))
Check == Decl("rule", "check", <<>>, <<Do(Call(L("s"), <<>>))>>)

ConfigMain(config, body) ==
  Sets(config, Module({Decl("workflow", "default", <<>>, body), Sets(Flags({"p"}), Decl("workflow", "helper", <<"p">>, InnerCalls(Lib("check")))),
                       Inner(<<>>), Check, Script("s")}, {}, {"N"}, [c \in {} |-> {}]))
ConfigNear(param, config, own, more) ==
  Sets(config, Module({Sets(own, Decl("workflow", "work", <<param>>, <<Do(Call(Ref("up", "helper"), <<Name("N")>>))>> \o InnerCalls(L("check")))),
                       Inner(more), Check, Script("s")}, {}, {"N"}, [c \in {} |-> {}]))

ConfigPrograms ==
  {[p \in Path |-> CASE p = "main" -> ConfigMain(c, <<s>>) [] p = "near" -> ConfigNear(q, n, o, m) [] OTHER -> Far] :
     c \in {<<>>, Both({"N"})}, n \in {<<>>, Flags({"N"}), Both({}), Flags({"gone"})},
     q \in {"p", "N"}, o \in {<<>>, Both({"p"})}, m \in {<<>>, Flags({"N"})},
     s \in {Do(Call(Lib("work"), <<Name("N")>>)), Do(Ensure(Lib("check"), <<>>)),
            For("p", <<Const("x", Match(<<Call(Lib("work"), <<>>)>>))>>)}}

Users == {NoUser, [NoUser EXCEPT !.unlocked = TRUE], [NoUser EXCEPT !.set = {"flags"}], [NoUser EXCEPT !.set = Key]}

MCPath == {"main", "near", "far"}
MCAlias == {"lib", "too", "up"}
MCPathOrder == <<"far", "near", "main">>
MCImports ==
  [p \in MCPath |->
     CASE p = "main" -> <<[alias |-> "lib", near |-> "near", far |-> "far"], [alias |-> "too", near |-> "far", far |-> "none"]>>
       [] p = "near" -> <<[alias |-> "up", near |-> "main", far |-> "none"], [alias |-> "too", near |-> "far", far |-> "none"]>>
       [] OTHER -> <<[alias |-> "up", near |-> "main", far |-> "none"]>>]

Init ==
  /\ \/ source \in Programs /\ user = NoUser /\ disk = Path /\ FormatInit({"none"})
     \/ source \in ConfigPrograms /\ user \in Users /\ disk = Path /\ FormatInit({"none"})
     \/ source \in Probes /\ user = NoUser /\ FormatInit({"none"})
     \/ source = NoProgram /\ user = NoUser /\ disk = Path /\ FormatInit({"workflow", "rule", "file"})
  /\ GraphInit
  /\ DispatchInit

Next ==
  \/ /\ home = "none"
     /\ RunNext
     /\ source \in Probes \/ changes' = changes
     /\ UNCHANGED formatVars
  \/ FormatNext /\ UNCHANGED <<graphVars, runVars>>

vars == <<graphVars, runVars, formatVars>>

Spec == Init /\ [][Next]_vars

TypeOK == GraphTypeOK /\ DispatchTypeOK /\ FormatTypeOK

=============================================================================
