------------------------------ MODULE Dispatch ------------------------------
(***************************************************************************)
(* `jaiph run` from the source to the last step: the program is validated  *)
(* against the loaded graph, its scripts are written into one directory,   *)
(* and the runner interprets the steps, resolving every call again and by  *)
(* rules of its own: no export is looked at, no argument counted.          *)
(*                                                                         *)
(* One activation at a time; what runs concurrently is in WorkflowRuntime. *)
(* A variable is known by who bound it, since a callee starts with a copy  *)
(* of its caller's variables.                                              *)
(***************************************************************************)
EXTENDS Settings

CONSTANTS
  PathOrder,     \* the files in the order their scripts are written
  RecoverLimit,  \* how often a recover body runs
  MaxFrames,     \* bound: nested calls, branches and handlers
  MaxLines       \* bound: lines a for loop runs over

ASSUME OrderComplete == PathOrder \in Seq(Path) /\ Path = Range(PathOrder)
ASSUME NoTargetIsNoPath == NoTarget \notin Path
ASSUME DispatchBounds == RecoverLimit \in Nat /\ MaxFrames \in Nat /\ MaxLines \in Nat

VARIABLES
  source,   \* the modules in the files
  user,     \* what the user's environment sets
  stage,    \* "load", "compiled", "rejected", "run", "ok" or "fail"
  frames,   \* the activations, and the branches and handlers within them
  outcome,  \* how the call on top ended: "none" while it goes on
  faults,   \* ghost: [what, via, name] for every dispatch that was not as compiled
  rebinds   \* ghost: why a bound name was bound again

runVars == <<source, user, stage, frames, outcome, faults, rebinds>>

\* Where in a step a call stands: it is the step's value, or in a string, in a
\* shell line, in an arm of a match, or among the arguments of another call.
Via == {"step", "capture", "shell", "arm", "nested"}

DispatchTypeOK ==
  /\ stage \in {"load", "compiled", "rejected", "run", "ok", "fail"}
  /\ \A i \in DOMAIN frames : frames[i].sort \in {"workflow", "rule", "branch", "handler"}
  /\ outcome \in {"none", "ok", "fail"}
  /\ \A x \in faults :
       /\ x.what \in {"unknown", "arity", "hidden", "impure", "no file", "other file", "shell sent"}
       /\ x.via \in Via
  /\ rebinds \subseteq {"plain", "loop", "failure", "field"}

-----------------------------------------------------------------------------
\* Scripts

InlineIn(steps) == {s.val.ref.name : s \in {x \in steps : x.val.k = "script"}}

\* A mutant: handlers, branches and loops are not walked.
InlineScriptsTop(d) == InlineIn(Range(d.steps))

\* The inline scripts that are written: the walk takes handlers and the first
\* branch of an if, and neither its else nor any argument.
InlineScripts(d) == InlineIn({e.step : e \in {x \in StepsOf(d) : x.written}})

InlineFiles == UNION {UNION {InlineScripts(d) : d \in source[p].decls} : p \in modules}

\* The ones in an else, which are not.
Overlooked ==
  UNION {UNION {InlineIn({e.step : e \in {x \in StepsOf(d) : ~x.written}}) : d \in source[p].decls} : p \in modules}

\* All scripts are written under their bare names into one directory, so of two
\* modules with a script of the same name the later one's is kept.
WrittenBy(name) ==
  LET Owners == {i \in DOMAIN PathOrder : PathOrder[i] \in modules /\ name \in Scripts(source[PathOrder[i]])}
  IN  IF Owners = {} THEN NoTarget ELSE PathOrder[CHOOSE i \in Owners : \A j \in Owners : j <= i]

-----------------------------------------------------------------------------
\* Calls

\* Where the runner finds a reference: the export list plays no part.
Home(file, ref) ==
  IF ref.at = Here THEN file
  ELSE IF Target(runLinks, file, ref.at) \in modules THEN Target(runLinks, file, ref.at)
  ELSE NoTarget

Callee(file, v) ==
  LET t == Home(file, v.ref)
  IN  IF t = NoTarget THEN {}
      ELSE Declared(source[t], v.ref.name,
                    IF v.k = "ensure" THEN {"rule"} ELSE {"workflow", "script", "imported"})

\* A call still to make, and how many of its arguments are there.
ToMake(v, via) == [call |-> v, via |-> via, done |-> 0]

Captures(v, via) == [i \in DOMAIN v.calls |-> ToMake(v.calls[i], via)]

\* The ways a step's value can be computed: a match takes any arm.
Work(s) ==
  LET v == s.val
  IN  CASE v.k \in {"call", "ensure", "script"} -> {<<ToMake(v, "step")>>}
        [] v.k = "match" -> {IF a.k \in {"call", "ensure"} THEN <<ToMake(a, "arm")>> ELSE Captures(a, "arm") : a \in Range(v.calls)}
        [] v.k = "shell" -> {IF s.op = "send" THEN <<>> ELSE Captures(v, "shell")}
        [] OTHER -> {Captures(v, "capture")}

\* The arguments that are calls and were not yet made.
Unmade(item) == {i \in DOMAIN item.call.args : i > item.done /\ item.call.args[i].k = "call"}

-----------------------------------------------------------------------------
\* Frames

Frame(sort, file, decl, todo, vars, certain, settings) ==
  [sort |-> sort, file |-> file, decl |-> decl, todo |-> todo, begun |-> FALSE,
   work |-> <<>>, tries |-> 0, handling |-> FALSE, vars |-> vars, certain |-> certain,
   settings |-> settings]

Top == Last(frames)
Step == Head(Top.todo)
Replace(fr) == [frames EXCEPT ![Len(frames)] = fr]
Push(fr, below) == Append(Replace(below), fr)

Given(d, args) == {d.params[i] : i \in 1..IF Len(args) < Len(d.params) THEN Len(args) ELSE Len(d.params)}
Own(names) == [n \in names |-> "own"]
Constants(file) == [n \in source[file].consts |-> "const"]
Copied(vars) == [n \in DOMAIN vars |-> "caller"]

\* A mutant: the caller's variables come before the callee's constants.
VariablesOfCaller(file, given, caller) ==
  Upon(Own(given), Upon(Copied(caller.vars), Constants(file)))

\* A callee's variables: its parameters, its module's constants, its caller's.
Variables(file, given, caller) ==
  Upon(Own(given), Upon(Constants(file), Copied(caller.vars)))

\* The parameters are not yet there when a rule's settings are read.
Activation(file, d, args, caller) ==
  LET given == Given(d, args)
      seen  == Variables(file, IF d.kind = "rule" THEN {} ELSE given, caller)
  IN  Frame(d.kind, file, d, d.steps, Variables(file, given, caller), given \cup source[file].consts,
            InForce(caller.settings, user, source[file], d, seen, file, caller.file))

\* The names d binds inside a loop, where the walk used a copy.
LoopNames(d) == {e.step.name : e \in {x \in StepsOf(d) : x.loops # {} \/ x.step.op = "for"}}

\* The names its handlers give to a failure, which the walk does not take for bound.
FailureNames(d) == {s.name : s \in {x \in Steps(d) : x.guard # "none"}}

FieldNames(d) == UNION {{FieldVar(s.name, f) : f \in s.val.fields} : s \in Steps(d)}

Bound(s) == {s.name} \cup {FieldVar(s.name, f) : f \in s.val.fields}

Rebound(fr, names) ==
  {CASE n \in LoopNames(fr.decl) -> "loop"
     [] n \in FailureNames(fr.decl) -> "failure"
     [] n \in FieldNames(fr.decl) -> "field"
     [] OTHER -> "plain" :
     n \in {x \in names \cap DOMAIN fr.vars : fr.vars[x] = "own"}}

Fault(what, item) == [what |-> what, via |-> item.via, name |-> item.call.ref.name]

-----------------------------------------------------------------------------
\* Compiling and starting

\* What the parser hands over: one name space for everything a module declares
\* that can be called, config blocks in workflows only, calls of known forms in
\* strings, handlers on the steps that are run, steps no deeper than the bound.
ParserGives(m) ==
  /\ \A d, e \in m.decls : d.name = e.name => d = e
  /\ \A d \in m.decls :
       /\ d.kind \in {"workflow", "rule", "script", "imported"}
       /\ d.steps \in Seq(Steps(d)) /\ d.params \in Seq(Params(d))
       /\ \A e \in StepsOf(d) : Inside(e) \subseteq StepsOf(d)
       /\ DOMAIN d.config # {} => d.kind = "workflow"
       /\ \A s \in Steps(d) :
            /\ s.body \in Seq(Steps(d)) /\ s.els \in Seq(Steps(d))
            /\ \A v \in {s.val} \cup Range(s.val.calls) : v.calls \in Seq(Range(v.calls))
            /\ \A v \in IF s.val.k = "match" THEN Range(s.val.calls) ELSE {s.val} :
                 \A c \in Range(v.calls) : c.k \in {"call", "ensure"}
            /\ s.guard # "none" => s.op = "exec"
            /\ s.val.calls # <<>> => s.val.k \in {"literal", "fail", "prompt", "match", "shell"}

DispatchInit ==
  /\ \A p \in Path : ParserGives(source[p])
  /\ user.set \subseteq Key /\ user.unlocked \in BOOLEAN
  /\ stage = "load"
  /\ frames = <<>>
  /\ outcome = "none"
  /\ faults = {}
  /\ rebinds = {}

Compile ==
  /\ stage = "load"
  /\ loading = "loaded"
  /\ stage' = IF Accepted(source, links, modules) THEN "compiled" ELSE "rejected"
  /\ UNCHANGED <<source, user, frames, outcome, faults, rebinds, graphVars>>

StartRunner == stage = "compiled" /\ HandOver /\ UNCHANGED runVars

\* Only a workflow of the entry file called default can be run.
RunDefault ==
  /\ stage = "compiled"
  /\ loading = "handed"
  /\ LET d == Declared(source[Entry], "default", {"workflow"})
     IN  IF d = {}
         THEN stage' = "fail" /\ UNCHANGED frames
         ELSE /\ stage' = "run"
              /\ frames' = <<Activation(Entry, CHOOSE x \in d : TRUE, <<>>,
                  [file |-> NoPath, vars |-> <<>>, settings |-> HostSettings(user, source[Entry])])>>
  /\ UNCHANGED <<source, user, outcome, faults, rebinds, graphVars>>

-----------------------------------------------------------------------------
\* Steps

Running == stage = "run" /\ UNCHANGED graphVars
Fresh == outcome = "none" /\ Top.todo # <<>> /\ ~Top.begun

Begin ==
  /\ Running
  /\ Fresh
  /\ Step.op \notin {"if", "for"}
  /\ \E w \in Work(Step) : frames' = Replace([Top EXCEPT !.begun = TRUE, !.work = w])
  /\ UNCHANGED <<source, user, stage, outcome, faults, rebinds>>

Repeated(n, body) == [i \in 1 .. n * Len(body) |-> body[((i - 1) % Len(body)) + 1]]

\* A branch and a loop's body share the variables of the steps around them.
EnterBranch ==
  /\ Running
  /\ Fresh
  /\ \/ /\ Step.op = "if"
        /\ \E b \in {Step.body, Step.els} :
             frames' = Push(Frame("branch", Top.file, Top.decl, b, Top.vars, Top.certain, Top.settings),
                            [Top EXCEPT !.begun = TRUE])
     \/ /\ Step.op = "for"
        /\ \E n \in 1..MaxLines :
             frames' = Push(Frame("branch", Top.file, Top.decl, Repeated(n, Step.body),
                                  Upon(Own({Step.name}), Top.vars), Top.certain \cup {Step.name}, Top.settings),
                            [Top EXCEPT !.begun = TRUE])
  /\ UNCHANGED <<source, user, stage, outcome, faults, rebinds>>

NoLines ==
  /\ Running
  /\ Fresh
  /\ Step.op = "for"
  /\ frames' = Replace([Top EXCEPT !.todo = Tail(@)])
  /\ UNCHANGED <<source, user, stage, outcome, faults, rebinds>>

Working == outcome = "none" /\ Top.begun /\ Top.work # <<>>
Item == Head(Top.work)

\* The calls among its arguments are made before the call itself, in order.
CallArgument ==
  /\ Running
  /\ Working
  /\ \E i \in Unmade(Item) :
       /\ \A j \in Unmade(Item) : i <= j
       /\ frames' = Replace([Top EXCEPT !.work = <<ToMake(Item.call.args[i].val, "nested"), [Item EXCEPT !.done = i]>> \o Tail(@)])
  /\ UNCHANGED <<source, user, stage, outcome, faults, rebinds>>

Calling == Working /\ Unmade(Item) = {}

\* The target is gone, or was never looked for.
CallUnknown ==
  /\ Running
  /\ Calling
  /\ Item.call.k # "script"
  /\ Callee(Top.file, Item.call) = {}
  /\ outcome' = "fail"
  /\ faults' = faults \cup {Fault("unknown", Item)}
  /\ UNCHANGED <<source, user, stage, frames, rebinds>>

\* How a callee that was found differs from what the compiler allows.
Surprises(c) ==
  LET v == Item.call
      t == Home(Top.file, v.ref)
  IN  (IF ArityHolds(c, v.args) THEN {} ELSE {Fault("arity", Item)})
      \cup (IF t = Top.file \/ source[t].exports = {} \/ v.ref.name \in source[t].exports THEN {} ELSE {Fault("hidden", Item)})
      \cup (IF c.kind = "workflow" /\ \E i \in DOMAIN frames : frames[i].sort = "rule"
            THEN {Fault("impure", Item)} ELSE {})

CallModule ==
  /\ Running
  /\ Calling
  /\ \E c \in Callee(Top.file, Item.call) :
       /\ Item.call.k # "script"
       /\ c.kind \in {"workflow", "rule"}
       /\ faults' = faults \cup Surprises(c)
       /\ IF Len(frames) < MaxFrames
          THEN /\ frames' = Append(frames, Activation(Home(Top.file, Item.call.ref), c, Item.call.args, Top))
               /\ UNCHANGED outcome
          ELSE outcome' = "fail" /\ UNCHANGED frames
  /\ UNCHANGED <<source, user, stage, rebinds>>

\* A named script is looked for by its bare name, an inline one by its body.
CallScript ==
  /\ Running
  /\ Calling
  /\ LET v == Item.call
         cs == Callee(Top.file, v)
         there == IF v.k = "script" THEN v.ref.name \in InlineFiles
                  ELSE WrittenBy(v.ref.name) # NoTarget
         own == v.k = "script" \/ WrittenBy(v.ref.name) = Home(Top.file, v.ref)
     IN  /\ v.k = "script" \/ \E c \in cs : c.kind \in {"script", "imported"}
         /\ outcome' \in IF there THEN {"ok", "fail"} ELSE {"fail"}
         /\ faults' = faults
              \cup (IF there THEN {} ELSE {Fault("no file", Item)})
              \cup (IF there /\ ~own THEN {Fault("other file", Item)} ELSE {})
              \cup (IF v.k # "script" THEN UNION {Surprises(c) : c \in cs} ELSE {})
  /\ UNCHANGED <<source, user, stage, frames, rebinds>>

CallSucceeded ==
  /\ Running
  /\ outcome = "ok"
  /\ frames' = Replace([Top EXCEPT !.work = Tail(@)])
  /\ outcome' = "none"
  /\ UNCHANGED <<source, user, stage, faults, rebinds>>

\* A handler takes over when the step it guards failed, but not when an argument
\* of an ensure did.
Handled ==
  /\ Top.todo # <<>> /\ Step.guard # "none" /\ ~Top.handling
  /\ Step.val.k = "ensure" => Len(Top.work) = 1
  /\ Step.guard = "recover" => Top.tries < RecoverLimit

\* It works on a copy of the variables.
Handle ==
  /\ Running
  /\ outcome = "fail"
  /\ Handled
  /\ frames' = Push(Frame("handler", Top.file, Top.decl, Step.body,
                          Upon(Own({Step.name}), Top.vars), Top.certain \cup {Step.name}, Top.settings),
                    [Top EXCEPT !.work = <<>>, !.handling = TRUE, !.tries = @ + 1])
  /\ outcome' = "none"
  /\ UNCHANGED <<source, user, stage, faults, rebinds>>

\* Without one the failure leaves the frame.
Fail ==
  /\ Running
  /\ outcome = "fail"
  /\ ~Handled
  /\ frames' = Front(frames)
  /\ IF Len(frames) = 1
     THEN stage' = "fail" /\ outcome' = "none"
     ELSE UNCHANGED <<stage, outcome>>
  /\ UNCHANGED <<source, user, faults, rebinds>>

Computed == outcome = "none" /\ Top.begun /\ Top.work = <<>>

\* What a step does once its value is there.  After a recover body the step is
\* tried again.
Finish ==
  /\ Running
  /\ Computed
  /\ Step.op # "return"
  /\ Step.val.k # "fail" /\ ~(Step.op = "send" /\ Step.val.k = "shell")
  /\ IF Top.handling /\ Step.guard = "recover"
     THEN frames' = Replace([Top EXCEPT !.begun = FALSE, !.handling = FALSE]) /\ UNCHANGED rebinds
     ELSE LET names == IF Step.op = "const" THEN Bound(Step) ELSE {}
          IN  /\ frames' = Replace([Top EXCEPT !.begun = FALSE, !.handling = FALSE, !.tries = 0,
                                               !.todo = Tail(@),
                                               !.vars = Upon(Own(names), @),
                                               !.certain = @ \cup names])
              /\ rebinds' = rebinds \cup Rebound(Top, names)
  /\ UNCHANGED <<source, user, stage, outcome, faults>>

\* Prompts and shell lines can fail, fail does, and a shell command as the
\* payload of a send is refused.
StepFails ==
  /\ Running
  /\ Computed
  /\ Step.val.k \in {"prompt", "shell", "fail"}
  /\ ~Top.handling
  /\ outcome' = "fail"
  /\ faults' = IF Step.op = "send" THEN faults \cup {Fault("shell sent", [call |-> Step.val, via |-> "step"])} ELSE faults
  /\ UNCHANGED <<source, user, stage, frames, rebinds>>

\* The activation the top frame belongs to.
Current == CHOOSE i \in DOMAIN frames :
  /\ frames[i].sort \in {"workflow", "rule"}
  /\ \A j \in i + 1 .. Len(frames) : frames[j].sort \in {"branch", "handler"}

Leave(depth) ==
  IF depth = 0
  THEN stage' = "ok" /\ frames' = <<>> /\ UNCHANGED outcome
  ELSE frames' = SubSeq(frames, 1, depth) /\ outcome' = "ok" /\ UNCHANGED stage

\* return ends the activation from within any of its branches and handlers.
Return ==
  /\ Running
  /\ Computed
  /\ Step.op = "return"
  /\ Leave(Current - 1)
  /\ UNCHANGED <<source, user, faults, rebinds>>

ActivationEnds ==
  /\ Running
  /\ outcome = "none" /\ Top.todo = <<>>
  /\ Top.sort \in {"workflow", "rule"}
  /\ Leave(Len(frames) - 1)
  /\ UNCHANGED <<source, user, faults, rebinds>>

\* A branch leaves its variables behind, a handler takes them with it.
PartEnds ==
  /\ Running
  /\ outcome = "none" /\ Top.todo = <<>>
  /\ Top.sort \in {"branch", "handler"}
  /\ frames' = [Front(frames) EXCEPT ![Len(frames) - 1].vars =
                  IF Top.sort = "branch" THEN Top.vars ELSE @]
  /\ UNCHANGED <<source, user, stage, outcome, faults, rebinds>>

DispatchNext ==
  \/ Compile \/ StartRunner \/ RunDefault
  \/ Begin \/ EnterBranch \/ NoLines
  \/ CallArgument \/ CallUnknown \/ CallModule \/ CallScript
  \/ CallSucceeded \/ Handle \/ Fail
  \/ Finish \/ StepFails \/ Return \/ ActivationEnds \/ PartEnds

\* The whole command: files may come and go until the runner has the program.
RunNext ==
  \/ (SkipFile \/ ReadFile \/ MissFile \/ GraphLoaded) /\ UNCHANGED runVars
  \/ stage \in {"load", "compiled"} /\ FileChanges /\ UNCHANGED runVars
  \/ DispatchNext

RunSpec == GraphInit /\ DispatchInit /\ [][RunNext]_<<graphVars, runVars>>

-----------------------------------------------------------------------------

\* The calls the validator does not look at; of one in a string it checks the
\* name and not the arguments.
Unchecked == {"arm", "nested", "shell"}

(***************************************************************************)
(* What the compiler accepted, the runner finds: a call resolves, to a     *)
(* name its module exports, with as many arguments as it takes; and since  *)
(* "run inside a rule must target a script", nothing a rule calls, however *)
(* indirectly, starts a workflow, but for what follows from such a call.   *)
(* The exceptions are the calls the validator does not look at, and a file *)
(* that came or went while the command was at work.                        *)
(***************************************************************************)
AcceptedResolves ==
  changes = 0 =>
    \A x \in faults :
      /\ x.what \in {"unknown", "hidden"} => x.via \in Unchecked
      /\ x.what = "arity" => x.via \in Unchecked \cup {"capture"}
      /\ x.what = "impure" => \E y \in faults : y.what = "impure" /\ y.via \in Unchecked

(***************************************************************************)
(* A step that is reached again and again, in branches, loops, handlers    *)
(* and callees, never reads the binding of a caller under a name that was  *)
(* bound on the way to it: branches leave their variables to the steps     *)
(* after them, handlers and callees do not.                                *)
(***************************************************************************)
BindingsReachTheirReaders ==
  \A i \in DOMAIN frames : \A n \in frames[i].certain :
    n \in DOMAIN frames[i].vars /\ frames[i].vars[n] \in {"own", "const"}

(***************************************************************************)
(* "All bindings ... are immutable in their scope" (docs/language.md:241), *)
(* apart from names bound in a loop's body, the name a handler gives to a  *)
(* failure, and the variables of a typed prompt's fields: of those the     *)
(* walk has a copy, or does not see them.                                  *)
(***************************************************************************)
NeverRebound == "plain" \notin rebinds

\* Parameters of one name with a constant that a module-level block might read.
Shadowing(file) == \E d \in source[file].decls : Params(d) \cap source[file].consts # {}

(***************************************************************************)
(* "A module's config describes how that module's workflows run,           *)
(* regardless of who called them" (node-workflow-runtime.ts:536), under    *)
(* the user's environment and with the keys that choose a program left to  *)
(* the module that is run: whichever way calls went in and out of modules, *)
(* what a module or a workflow sets is in force in its own steps, as the   *)
(* block's own names read it, and never with the binding of a caller,      *)
(* unless a call passed fewer arguments than the callee has parameters     *)
(* through a place the compiler does not look at.                          *)
(***************************************************************************)
SettingsFollowModules ==
  \A i \in DOMAIN frames : \A k \in Key :
    LET fr == frames[i]
        s  == fr.settings[k]
    IN  /\ k \in user.set <=> s.by = "user"
        /\ k \in EntryOnly /\ ~user.unlocked => s.by \in {"user", "nobody", Entry}
        /\ k \in Open(user, fr.file, DOMAIN source[fr.file].config) => s.by = fr.file /\ s.level # "host"
        /\ k \in Open(user, fr.file, DOMAIN fr.decl.config) => s.by = fr.file /\ s.level = "workflow"
        /\ "caller" \in s.from => \E x \in faults : x.what = "arity"
        /\ s.level = "module" => s.from \subseteq {"const"} \/ Shadowing(s.by)

(***************************************************************************)
(* A script that is called is the one its module declares.  Both           *)
(* exceptions are of the code: of two modules with a script of the same    *)
(* name one runs the other's, against "the unified per-module namespace    *)
(* covers channels, rules, workflows, scripts" (docs/language.md:47), and  *)
(* an inline script is never written when it is in an else or in argument  *)
(* position.                                                               *)
(***************************************************************************)
ScriptsRunAsWritten ==
  \A x \in faults :
    /\ x.what = "no file" => x.via = "nested" \/ x.name \in Overlooked
    /\ x.what = "other file" =>
         \E p, q \in modules : p # q /\ x.name \in Scripts(source[p]) \cap Scripts(source[q])

=============================================================================
