----------------------------- MODULE Validation -----------------------------
(***************************************************************************)
(* What the compiler checks before a program runs: which names a step may  *)
(* read, which it may bind, and what every call refers to.  A program is a *)
(* module per file; a step and a value are records whose fields a form     *)
(* does not use keep their defaults.                                       *)
(*                                                                         *)
(* The checks follow the lines of the source and not its control flow: a   *)
(* name is known to a whole workflow as soon as one of its steps, however  *)
(* deeply nested, binds it.                                                *)
(***************************************************************************)
EXTENDS Naturals, Sequences, FiniteSets, SequencesExt

CONSTANTS
  Here,       \* the alias of a reference to a name of the same module
  NoTarget,   \* where an alias leads that is not imported
  MaxNesting  \* bound: how deep the steps of a body are nested

ASSUME NestingBounded == MaxNesting \in Nat

-----------------------------------------------------------------------------
\* Programs

Ref(a, n) == [at |-> a, name |-> n]

\* k: literal, fail, call, ensure, script (inline), match, prompt, name (an arm that
\* is a bare identifier), bare (an unquoted word that is sent), shell.
\* reads are the names in ${...}, calls the ${run ...} in it or a match's arms,
\* fields a prompt's returns schema.
NoValue == [k |-> "literal", ref |-> Ref(Here, ""), args |-> <<>>, reads |-> {},
            calls |-> <<>>, fields |-> {}, async |-> FALSE]

\* op: const, exec, send, say, return, if, for.  body is a branch, a loop or a
\* handler, guard its kind ("catch", "recover"), src a subject or a channel.
NoStep == [op |-> "exec", name |-> "", src |-> Ref(Here, ""), val |-> NoValue,
           body |-> <<>>, els |-> <<>>, guard |-> "none", field |-> ""]

\* An argument: a bare name, a text, or a call in argument position.
Arg(kind, names, v) == [k |-> kind, reads |-> names, val |-> v]

\* kind: workflow, rule, script, or imported for an `import script`.  config: its
\* config block, which maps keys to the names their values read.
Decl(kind, name, params, steps) ==
  [kind |-> kind, name |-> name, params |-> params, steps |-> steps, config |-> <<>>]

FieldVar(capture, field) == capture \o "_" \o field

-----------------------------------------------------------------------------
\* The one walk over a step tree

\* Of every step the walk knows the failure its handler binds, where it stands
\* (path: its place in the body, within that the place in its branches, and so
\* on), the loops it is in, by their paths, and (written) whether it is outside
\* every else.
Outer(d) ==
  {[step |-> d.steps[i], failure |-> {}, path |-> <<i>>, loops |-> {}, written |-> TRUE] : i \in DOMAIN d.steps}

Inside(e) ==
  {[step |-> e.step.body[i],
    failure |-> IF e.step.guard = "none" THEN e.failure ELSE {e.step.name},
    path |-> Append(e.path, i),
    loops |-> IF e.step.op = "for" THEN e.loops \cup {e.path} ELSE e.loops,
    written |-> e.written] : i \in DOMAIN e.step.body}
  \cup {[step |-> e.step.els[i],
         failure |-> e.failure,
         path |-> Append(e.path, Len(e.step.body) + i),
         loops |-> e.loops,
         written |-> FALSE] : i \in DOMAIN e.step.els}

\* The entries of every step of a body, level by level.
StepsOf(d) ==
  LET level[n \in Nat] == IF n = 0 THEN Outer(d) ELSE UNION {Inside(e) : e \in level[n - 1]}
  IN  Outer(d) \cup UNION {level[n] : n \in 0..MaxNesting}

Steps(d) == {e.step : e \in StepsOf(d)}

Params(d) == Range(d.params)

\* Every name some step of d binds, and the module's constants.
Known(m, d) ==
  m.consts \cup Params(d)
    \cup {s.name : s \in {x \in Steps(d) : x.op \in {"const", "for"}}}

\* The fields of the prompts at the top level of a workflow.
Schemas(d) ==
  IF d.kind = "rule" THEN {}
  ELSE UNION {{<<s.name, f>> : f \in s.val.fields} : s \in {x \in Range(d.steps) : x.op = "const"}}

Scripts(m) == {d.name : d \in {x \in m.decls : x.kind \in {"script", "imported"}}}

\* In the order of the walk p comes before q, and neither is within the other.
Before(p, q) ==
  \E k \in DOMAIN q :
    1..k \subseteq DOMAIN p /\ p[k] \in 1 .. q[k] - 1 /\ \A j \in 1 .. k - 1 : p[j] = q[j]

\* Bindings are immutable: the walk threads the names bound so far through
\* branches and handlers, and a copy of them through a loop's body.  The failure
\* a handler binds is not among them.
BoundBefore(d, e) ==
  Params(d) \cup
    {y.step.name : y \in {x \in StepsOf(d) :
       \/ x.step.op = "const" /\ Before(x.path, e.path) /\ x.loops \subseteq e.loops
       \/ x.path \in e.loops}}

\* A mutant: only the bindings at the top of a body count.
TopBindingsHold(m, d) ==
  LET names == [i \in DOMAIN SelectSeq(d.steps, LAMBDA s : s.op = "const") |->
                  SelectSeq(d.steps, LAMBDA s : s.op = "const")[i].name]
  IN  IsInjective(names) /\ Range(names) \cap (Params(d) \cup Scripts(m)) = {}

BindingsHold(m, d) ==
  \A e \in StepsOf(d) :
    /\ e.step.op = "const" => e.step.name \notin BoundBefore(d, e) \cup Scripts(m)
    /\ e.step.op = "for" => e.step.name \notin BoundBefore(d, e)

-----------------------------------------------------------------------------
\* References

Target(ls, file, alias) ==
  IF \E l \in ls : l[1] = file /\ l[2] = alias
  THEN (CHOOSE l \in ls : l[1] = file /\ l[2] = alias)[3]
  ELSE NoTarget

Declared(m, name, kinds) == {d \in m.decls : d.name = name /\ d.kind \in kinds}

\* A mutant: exports are not looked at.
VisibleAlways(m, name) == TRUE

Visible(m, name) ==
  m.exports = {} \/ name \in m.exports \/ Declared(m, name, {"workflow", "rule", "script"}) = {}

\* What a reference may mean; scripts a module imports are its own business.
Referent(src, ls, file, ref, kinds) ==
  IF ref.at = Here
  THEN Declared(src[file], ref.name, IF "script" \in kinds THEN kinds \cup {"imported"} ELSE kinds)
  ELSE LET t == Target(ls, file, ref.at)
       IN  IF t = NoTarget THEN {}
           ELSE IF ~Visible(src[t], ref.name) THEN {}
           ELSE Declared(src[t], ref.name, kinds)

RunKinds(d) == IF d.kind = "rule" THEN {"script"} ELSE {"workflow", "script"}

CalleeKinds(d, v) == IF v.k = "ensure" THEN {"rule"} ELSE RunKinds(d)

\* Arity is checked for workflows and rules only.
ArityHolds(callee, args) ==
  callee.kind \in {"workflow", "rule"} => Len(callee.params) = Len(args)

RefHolds(src, ls, file, d, v) == Referent(src, ls, file, v.ref, CalleeKinds(d, v)) # {}

\* An argument that is a name must be known.  A text is not looked into, and a
\* call in argument position must only begin with run or ensure.
ArgHolds(m, d, failure, a) == a.k = "name" => a.reads \subseteq Known(m, d) \cup failure

CallHolds(src, ls, file, d, failure, v) ==
  /\ RefHolds(src, ls, file, d, v)
  /\ \A c \in Referent(src, ls, file, v.ref, CalleeKinds(d, v)) : ArityHolds(c, v.args)
  /\ \A i \in DOMAIN v.args : ArgHolds(src[file], d, failure, v.args[i])

\* ${name} and ${run f()} in a string; the arguments of such a call are not checked.
TextHolds(src, ls, file, d, failure, v) ==
  /\ v.reads \subseteq Known(src[file], d) \cup failure
                         \cup {FieldVar(s[1], s[2]) : s \in Schemas(d)}
  /\ \A i \in DOMAIN v.calls : RefHolds(src, ls, file, d, v.calls[i])

\* Of a match only the arms that are bare identifiers are looked at.
ArmsHold(m, d, v) == \A i \in DOMAIN v.calls : v.calls[i].k = "name" => v.calls[i].reads \subseteq Known(m, d)

ValueHolds(src, ls, file, d, failure, v, position) ==
  CASE v.k \in {"call", "ensure"} -> CallHolds(src, ls, file, d, failure, v)
    [] v.k \in {"literal", "fail"} -> TextHolds(src, ls, file, d, failure, v)
    [] v.k = "prompt"  -> /\ d.kind # "rule"
                          /\ position \in {"const", "exec"}
                          /\ TextHolds(src, ls, file, d, failure, v)
    [] v.k = "match"   -> ArmsHold(src[file], d, v)
    [] v.k = "shell"   -> position = "send" /\ Declared(src[file], v.ref.name, {"workflow", "rule", "script", "imported"}) = {}
    [] v.k = "bare"    -> FALSE
    [] OTHER           -> TRUE

\* A line that is no statement is run by a shell, in workflows only; a bare name
\* of a script or a workflow is taken for a forgotten run.
ShellHolds(m, d, v) ==
  d.kind # "rule" /\ Declared(m, v.ref.name, {"workflow", "script", "imported"}) = {}

ChannelHolds(src, ls, file, ref) ==
  LET t == IF ref.at = Here THEN file ELSE Target(ls, file, ref.at)
  IN  t # NoTarget /\ ref.name \in DOMAIN src[t].channels

StepHolds(src, ls, file, d, e) ==
  LET s == e.step
      V(position) == ValueHolds(src, ls, file, d, e.failure, s.val, position)
  IN  CASE s.op = "send" -> d.kind # "rule" /\ ChannelHolds(src, ls, file, s.src) /\ V("send")
        [] s.op = "say"  -> s.val.k \in {"literal", "fail", "script"} /\ V("say")
        [] s.op = "exec" -> IF s.val.k = "shell" THEN ShellHolds(src[file], d, s.val)
                            ELSE /\ s.val.async => d.kind # "rule"
                                 /\ s.val.k = "prompt" => s.val.fields = {}
                                 /\ V("exec")
        [] s.op = "if"   -> s.field # "" => <<s.src.name, s.field>> \in Schemas(d)
        [] s.op = "for"  -> s.src.name \in Known(src[file], d)
        [] OTHER         -> V(s.op)

\* A channel's routes lead to workflows that take the message, the channel and
\* the sender.
RouteHolds(src, ls, file, ref) ==
  /\ Referent(src, ls, file, ref, {"workflow"}) # {}
  /\ \A c \in Referent(src, ls, file, ref, {"workflow"}) : Len(c.params) = 3

\* A module's block reads its constants, a workflow's also its parameters.
ConfigHolds(m) ==
  /\ \A k \in DOMAIN m.config : m.config[k] \subseteq m.consts
  /\ \A d \in m.decls : \A k \in DOMAIN d.config : d.config[k] \subseteq m.consts \cup Params(d)

\* Every error is collected, in whichever order; a module is accepted without any.
ModuleHolds(src, ls, file) ==
  LET m == src[file]
  IN  /\ ConfigHolds(m)
      /\ \A d \in {x \in m.decls : x.kind \in {"workflow", "rule"}} :
           /\ BindingsHold(m, d)
           /\ \A e \in StepsOf(d) : StepHolds(src, ls, file, d, e)
      /\ \A c \in DOMAIN m.channels : \A r \in m.channels[c] : RouteHolds(src, ls, file, r)

Accepted(src, ls, files) == \A f \in files : ModuleHolds(src, ls, f)

=============================================================================
