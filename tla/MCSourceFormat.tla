--------------------------- MODULE MCSourceFormat ---------------------------
(***************************************************************************)
(* The bodies that are typed: up to MaxText lines that open and close      *)
(* blocks, at most two of them leaves, or one statement of every form, in  *)
(* a body, a loop or a branch; and the files: up to MaxItems declarations, *)
(* comments and blank lines, a declaration of every form among them.       *)
(***************************************************************************)
EXTENDS SourceFormat, FiniteSets

Bare(form) == Typed(form, 0, {})
Quoted == Bare("quoted")

Flow == {Line(t) : t \in {"comment", "if", "elseif", "else", "for", "open", "close"}}
          \cup {Stmt("log", Quoted), Stmt("log", Typed("text", 0, {"brace"})),
                Clause("run", Bare("call"), "catch", "block", <<>>)}

Values ==
  {Typed(f, n, {}) : f \in {"quoted", "match", "prompt"}, n \in {0, 1}}
    \cup {Bare(f) : f \in {"ref", "name", "text", "tick", "fence", "call", "ensure", "async", "number", "words"}}
    \cup {Typed(f, 0, {h}) : f \in {"ref", "name"}, h \in {"dotted", "keyword"}}
    \cup {Typed("quoted", 0, h) : h \in {{"sole"}, {"sole", "dotted"}, {"sole", "keyword"}}}
    \cup {Typed(f, 0, {"interpolated"}) : f \in {"tick", "fence"}}
    \cup {Typed("fence", 0, h) : h \in {{"lines"}, {"lang", "interpolated"}}}
    \cup {Typed(f, 0, {"textarg"}) : f \in {"call", "ensure", "async"}}
    \cup {Typed("match", 0, {"note"}), Typed("quoted", 0, {"open"})}
    \cup {Typed("text", 0, {x}) : x \in {"opened", "extra"}}
    \cup {Typed("prompt", 0, b \cup x) : b \in {{}, {"name"}, {"ref"}, {"text"}},
            x \in {{}, {"returns"}, {"returns", "quote"}, {"returns", "rest"}, {"extra"}}}
    \cup {Typed("prompt", 0, h) : h \in {{"fence"}, {"open"}, {"returns", "empty"}, {"text", "returns", "next", "rest"}}}

Inline == Clause("run", Bare("call"), "recover", "inline", <<Stmt("log", Quoted), Stmt("fail", Quoted)>>)

Shown ==
  ({Stmt(k, v) : k \in {"log", "fail", "return", "const", "send", "run"}, v \in Values} \ Flow)
    \cup {Line("lateelse"), Line("route"), Inline,
          Clause("run", Bare("tick"), "recover", "block", <<>>),
          Clause("run", Bare("call"), "catch", "single", <<Stmt("log", Quoted)>>),
          Clause("run", Bare("call"), "catch", "single", <<Inline>>),
          Clause("ensure", Bare("ensure"), "catch", "single", <<Inline>>),
          Clause("ensure", Bare("ensure"), "recover", "block", <<>>)}

Ends(t) == text # <<>> /\ Last(text).t = t
Alone == \E n \in DOMAIN text : text[n] \in Shown /\ text[n].t = "stmt"
Leaves == {n \in DOMAIN text : text[n].t \in {"comment", "blank", "open", "stmt"}}

Allowed ==
  CASE Ends("config") -> {Line("key")}
    [] Alone -> {Line("close")}
    [] Cardinality(Leaves) < 2 ->
         Flow \cup (IF text = <<>> \/ Ends("blank") THEN {} ELSE {Line("blank"), Line("config")})
              \cup (IF text \in {<<>>, <<Line("for")>>, <<Line("if")>>} THEN Shown ELSE {})
    [] OTHER -> {l \in Flow : Opens(l) /\ l.t # "open"} \cup {Line(t) : t \in {"close", "else", "elseif"}}

-----------------------------------------------------------------------------

Naming(t, n) == [Line(t) EXCEPT !.kw = n]
Holds(t, n, v) == [Naming(t, n) EXCEPT !.val = v]
Around(t, g, n, ls) == [Naming(t, n) EXCEPT !.guard = g, !.inner = ls]
Exported(l) == [l EXCEPT !.shape = "export"]

Escapes == {Quoted, Typed("quoted", 1, {}), Typed("quoted", 0, {"newline"})}
Body == <<Line("comment"), Line("if"), Stmt("run", Bare("call")), Line("close"), Line("close")>>

Keys ==
  {Holds("key", "agent.command", v) : v \in Escapes \cup {Bare("name"), Bare("ref"), Bare("truth"), Bare("list"),
     Typed("quoted", 0, {"sole"}), Typed("quoted", 0, {"sole", "keyword"}), Typed("ref", 0, {"dotted"})}}
    \cup {Holds("key", "agent.backend", Typed("quoted", 0, h)) : h \in {{}, {"unknown"}, {"unknown", "sole", "dotted"}}}
    \cup {Holds("key", k, v) : k \in {"run.debug", "run.recover_limit"}, v \in {Bare("truth"), Bare("number")}}
    \cup {Holds("key", "trusted_envs", v) : v \in {Quoted, Bare("name"), Typed("quoted", 0, {"reserved"})}}
    \cup {Line("comment")}

TestLines ==
  {Holds(t, "x", v) : t \in {"answer", "expect", "run", "const"}, v \in Escapes \cup {Bare("name"), Bare("single")}}
    \cup {Holds("answer", "x", Typed("match", n, h)) : n \in {0, 1}, h \in {{}, {"note"}}}
    \cup {Holds("run", "x", Bare(f)) : f \in {"none", "word"}}
    \cup {Around("mock", g, "w", Body) : g \in {"workflow", "rule", "script"}}
    \cup {Line(t) : t \in {"comment", "blank", "other"}}

\* Typeable that are typed alone or after a comment, and those that meet others.
Single ==
  {Around("config", "", "", <<k, Line("blank"), l>>) : k \in Keys, l \in Keys}
    \cup {[Around("test", "", "", <<Line("blank"), k, Line("blank"), l>>) EXCEPT !.val = Quoted] : k \in TestLines, l \in TestLines}
    \cup {Holds("test", "", Typed("quoted", 1, {}))}
    \cup {Holds("const", "x", Typed("quoted", n, h)) : n \in {0, 1}, h \in {{}, {"tab"}, {"open"}, {"extra"}}}
    \cup {Holds("const", "x", Typed("text", n, h)) : n \in {0, 1}, h \in {{}, {"lines"}, {"quote"}, {"opened"}, {"extra"}}}
    \cup {Holds("const", "x", Bare(f)) : f \in {"word", "words", "single"}}
    \cup {Holds("script", "x", Typed("tick", 0, h)) : h \in {{}, {"interpolated"}, {"extra"}}}
    \cup {Holds("script", "x", Typed("fence", 0, h)) : h \in {{"lines"}, {"interpolated"}, {"lang"}, {"bang"}, {"lang", "bang"}, {"extra"}}}
    \cup {Holds(t, "x", Bare(f)) : t \in {"import", "scriptimport"}, f \in {"word", "single"}}
    \cup {Around(t, "", "x", Body) : t \in {"rule", "workflow"}} \cup {Around("rule", "", "x", <<Line("if"), Line("close")>>)}

Common ==
  {Line(t) : t \in {"comment", "bang", "blank", "other"}}
    \cup {Around("config", "", "", <<Line("comment"), Holds("key", "run.debug", Bare("truth"))>>)}
    \cup {Holds("import", n, Quoted) : n \in {"x", "y"}} \cup {Holds("scriptimport", "x", Quoted), Naming("channel", "x")}
    \cup {Holds("const", n, Bare("word")) : n \in {"x", "y"}} \cup {Exported(Holds("script", "y", Bare("tick")))}
    \cup {Exported(Around("workflow", "", "x", <<Stmt("log", Quoted), Line("close")>>))}
    \cup {[Line("test") EXCEPT !.val = Quoted]}

Typeable ==
  IF \E n \in DOMAIN text : text[n] \in Single \ Common THEN {}
  ELSE Common \cup IF text \in {<<>>, <<Line("comment")>>} THEN Single ELSE {}

FormatNext == Type(IF home = "file" THEN Typeable ELSE Allowed) \/ Format

=============================================================================
