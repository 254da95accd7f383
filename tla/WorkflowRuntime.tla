-------------------------- MODULE WorkflowRuntime --------------------------
(***************************************************************************)
(* One run of the workflow interpreter (class NodeWorkflowRuntime in       *)
(* src/src/runtime/kernel/node-workflow-runtime.ts): nested `run`, `run    *)
(* async` branches and their implicit join, `catch` and `recover` bodies,  *)
(* channel sends and the drain of the entry workflow's queue, `return` and *)
(* `fail`, and the JAIPH_MAX_STEPS circuit breaker.                        *)
(*                                                                         *)
(* The program is arbitrary: a frame ready for its next step may take any  *)
(* kind of step the language has.  Control changes hands only at an await: *)
(* `turn` names the frame whose synchronous code has not come to its next  *)
(* one, and at an await the frames of different branches interleave.       *)
(*                                                                         *)
(* A frame is one execution of a step list or of an async closure:         *)
(*   "workflow"  executeWorkflow: owns a context on workflowCtxStack       *)
(*   "list"      executeSteps of an if, for, catch or recover body         *)
(*   "branch"    the closure of a `run async`; the frame is its handle,    *)
(*               which handleRegistry keeps when it has settled            *)
(***************************************************************************)
EXTENDS Integers, Sequences, FiniteSets

CONSTANTS
  MaxFrames,      \* bound: frames alive at once
  MaxBranches,    \* bound: `run async` steps of the whole run
  MaxSteps,       \* JAIPH_MAX_STEPS, the circuit breaker
  MaxDepth,       \* MAX_RECURSION_DEPTH
  DispatchLimit,  \* JAIPH_INBOX_MAX_DISPATCH
  Workflows,      \* workflow names
  EntryName,      \* the workflow the run starts
  Script,         \* a script target: one awaited leaf step
  Programs,       \* the programs considered, each by what its steps may be
  Routes,         \* channel -> its route targets, in the order declared
  RecoverLimit    \* workflow -> its run.recover_limit

Channels == DOMAIN Routes
Targets == Workflows \cup {Script}

ASSUME RuntimeAssumption ==
  /\ MaxFrames \in Nat \ {0}
  /\ MaxBranches \in Nat
  /\ MaxSteps \in Nat \ {0}
  /\ MaxDepth \in Nat
  /\ DispatchLimit \in Nat \ {0}
  /\ EntryName \in Workflows
  /\ Script \notin Workflows
  /\ Programs \subseteq
       [language : SUBSET {"fail", "return", "run", "async", "read", "list", "send"},
        handlers : SUBSET {"none", "catch", "recover"},
        callees : SUBSET Targets]
  /\ Channels # {}    \* a program that uses no channel has one it never sends on
  /\ Routes \in [Channels -> Seq(Workflows)]
  /\ RecoverLimit \in [Workflows -> Nat]

VARIABLES
  program,        \* the one that runs: step kinds, handlers on a `run`, targets
  kind,           \* what each frame is, "free" when it is none
  name,           \* workflow whose text the frame executes
  parent,         \* frame awaiting it, or owner of the branch; 0 for none
  depth,          \* managed steps above it on its async frame stack
  pc,             \* where the frame stands
  site,           \* the step it is executing
  res,            \* outcome last handed to it, or a settled branch's outcome
  local,          \* localHandleIds: branches its list created, in order
  scope,          \* the variable Map it reads, named by the frame made with it
  holds,          \* Map -> the handles its variables hold
  queue,          \* inbox queue of the frame's context
  workflowCtxStack, \* contexts pushed by executeWorkflow, shared by branches
  handleIdCounter,
  stepsExecuted,
  cursor,         \* messages the entry's drain has taken
  target,         \* targets of the message at cursor already run
  turn,           \* the frame that runs up to its next await; 0 at an await
  outcome         \* "running", then the status of the run

frameVars == <<kind, name, parent, depth, scope, holds>>
vars == <<kind, name, parent, depth, scope, holds, pc, site, res, local, queue,
          workflowCtxStack, handleIdCounter, stepsExecuted, cursor, target, turn, outcome>>

Language == program.language
Handlers == program.handlers
Callees == program.callees

Entry == 1
Frames == 1 .. MaxFrames
Kinds == {"free", "workflow", "list", "branch"}
PCs == {"ready", "starting", "script", "child", "reading", "returned", "joining",
        "draining", "settled"}
Ops == {"none", "run", "body", "list", "send", "dispatch"}
Outcomes == {"ok", "return", "fail"}

(***************************************************************************)
(* A step in progress: its kind, what it calls, the handler on it with the *)
(* recover attempts left, the context and channel of a send, and the       *)
(* handle its arguments await.                                             *)
(***************************************************************************)
Sites == {s \in [op : Ops, callee : Targets, handler : {"none", "catch", "recover"},
                 left : Nat, ctx : 0 .. MaxFrames, chan : Channels,
                 reads : 0 .. MaxFrames] :
            s.op = "send" => s.ctx # 0}
NoSite == [op |-> "none", callee |-> Script, handler |-> "none", left |-> 0,
           ctx |-> 0, chan |-> CHOOSE ch \in Channels : TRUE, reads |-> 0]

Messages == [chan : Channels, sender : Workflows, by : Workflows]

LiveWorkflows == {f \in Frames : kind[f] = "workflow"}
Branches(f) == {local[f][i] : i \in DOMAIN local[f]}
Settled(f) == {b \in Branches(f) : pc[b] = "settled"}
HasTurn(f) == outcome = "running" /\ turn \in {0, f}
topCtx == workflowCtxStack[Len(workflowCtxStack)]

\* A frame object nothing refers to: a popped context stays while it sits on
\* the stack or a send has captured it, a Map while a closure reads it.
Unused ==
  {f \in Frames : /\ kind[f] = "free"
                  /\ \A i \in DOMAIN workflowCtxStack : workflowCtxStack[i] # f
                  /\ \A g \in Frames : kind[g] # "free" => site[g].ctx # f /\ scope[g] # f}
fresh == CHOOSE f \in Unused : TRUE

TypeOK ==
  /\ program \in Programs
  /\ kind \in [Frames -> Kinds]
  /\ name \in [Frames -> Workflows]
  /\ parent \in [Frames -> 0 .. MaxFrames]
  /\ depth \in [Frames -> Nat]
  /\ pc \in [Frames -> PCs]
  /\ site \in [Frames -> Sites]
  /\ res \in [Frames -> Outcomes]
  /\ local \in [Frames -> Seq(Frames)]
  /\ scope \in [Frames -> Frames]
  /\ holds \in [Frames -> SUBSET Frames]
  /\ queue \in [Frames -> Seq(Messages)]
  /\ workflowCtxStack \in Seq(Frames)
  /\ handleIdCounter \in 0 .. MaxBranches
  /\ stepsExecuted \in 0 .. MaxSteps
  /\ cursor \in Nat
  /\ target \in Nat
  /\ turn \in 0 .. MaxFrames
  /\ outcome \in {"running", "ok", "fail"}

\* runRoot has called executeWorkflow for the entry workflow.
Init ==
  /\ program \in Programs
  /\ kind = [f \in Frames |-> IF f = Entry THEN "workflow" ELSE "free"]
  /\ name = [f \in Frames |-> EntryName]
  /\ parent = [f \in Frames |-> 0]
  /\ depth = [f \in Frames |-> 0]
  /\ pc = [f \in Frames |-> "ready"]
  /\ site = [f \in Frames |-> NoSite]
  /\ res = [f \in Frames |-> "ok"]
  /\ local = [f \in Frames |-> <<>>]
  /\ scope = [f \in Frames |-> f]
  /\ holds = [f \in Frames |-> {}]
  /\ queue = [f \in Frames |-> <<>>]
  /\ workflowCtxStack = <<Entry>>
  /\ handleIdCounter = 0
  /\ stepsExecuted = 0
  /\ cursor = 0
  /\ target = 0
  /\ turn = Entry
  /\ outcome = "running"

-----------------------------------------------------------------------------
(***************************************************************************)
(* Frames begin and end                                                    *)
(***************************************************************************)

(***************************************************************************)
(* A frame of kind k for frame f; where and step become f's own position.  *)
(* A callee and a handler body get a copy of f's variables, handles and    *)
(* all; an `if` or `for` body and a closure read the very same Map.        *)
(***************************************************************************)
Begin(f, k, nm, dep, where, at, step) ==
  LET vars_ == IF k = "workflow" \/ step.op = "body" THEN fresh ELSE scope[f] IN
  /\ Unused # {}
  /\ kind' = [kind EXCEPT ![fresh] = k]
  /\ name' = [name EXCEPT ![fresh] = nm]
  /\ parent' = [parent EXCEPT ![fresh] = f]
  /\ depth' = [depth EXCEPT ![fresh] = dep]
  /\ scope' = [scope EXCEPT ![fresh] = vars_]
  /\ holds' = [holds EXCEPT ![vars_] = holds[scope[f]] \cup
                                         (IF k = "branch" THEN {fresh} ELSE {})]
  /\ pc' = [pc EXCEPT ![fresh] = at, ![f] = where]
  /\ site' = [site EXCEPT ![fresh] = IF k = "branch" THEN step ELSE NoSite,
                          ![f] = IF k = "branch" THEN NoSite ELSE step]
  /\ local' = IF k = "branch"
              THEN [local EXCEPT ![fresh] = <<>>, ![f] = Append(@, fresh)]
              ELSE [local EXCEPT ![fresh] = <<>>]
  /\ queue' = [queue EXCEPT ![fresh] = <<>>]

(***************************************************************************)
(* executeRunRef awaits its arguments first (Starts), and what happens in  *)
(* between is for others to do.  Then a workflow becomes a managed step    *)
(* with a context of its own and comes to its first step in the same turn, *)
(* unless the recursion limit refuses it; a script is one more await.      *)
(***************************************************************************)
Starts(f, step) ==
  /\ pc' = [pc EXCEPT ![f] = "starting"]
  /\ site' = [site EXCEPT ![f] = step]
  /\ turn' = 0
  /\ UNCHANGED <<frameVars, res, local, queue, workflowCtxStack>>

CallWorkflow(f, step) ==
  /\ step.callee \in Workflows
  /\ depth[f] < MaxDepth
  /\ Begin(f, "workflow", step.callee, depth[f] + 1, "child", "ready", step)
  /\ workflowCtxStack' = Append(workflowCtxStack, fresh)
  /\ turn' = fresh
  /\ UNCHANGED res

CallRefused(f, step) ==
  /\ step.callee \in Workflows
  /\ depth[f] >= MaxDepth
  /\ pc' = [pc EXCEPT ![f] = "returned"]
  /\ res' = [res EXCEPT ![f] = "fail"]
  /\ turn' = 0
  /\ UNCHANGED <<frameVars, site, local, queue, workflowCtxStack>>

CallScript(f, step) ==
  /\ step.callee = Script
  /\ pc' = [pc EXCEPT ![f] = "script"]
  /\ turn' = 0
  /\ UNCHANGED <<frameVars, site, res, local, queue, workflowCtxStack>>

Invoke(f, step) ==
  CallWorkflow(f, step) \/ CallRefused(f, step) \/ CallScript(f, step)

\* The nested executeSteps of an if, for, catch or recover body, entered
\* without an await unless the subject of an `if` is resolved first.
RunList(f, step) ==
  /\ Begin(f, "list", name[f], depth[f], "child", "ready", step)
  /\ turn' \in (IF step.op = "list" THEN {0, fresh} ELSE {fresh})
  /\ UNCHANGED <<res, workflowCtxStack>>

\* A pop after the drain instead of in the finally: a failed list skips it.
PopAfterDrain(f) ==
  IF kind[f] = "workflow" /\ pc[f] = "draining"
  THEN SubSeq(workflowCtxStack, 1, Len(workflowCtxStack) - 1)
  ELSE workflowCtxStack

\* The finally of executeWorkflow pops the top, whoever pushed it.
CtxStackAfter(f) ==
  IF kind[f] = "workflow"
  THEN SubSeq(workflowCtxStack, 1, Len(workflowCtxStack) - 1)
  ELSE workflowCtxStack

\* Frame f reads its Map no longer: the last one to do so takes the Map along.
LeavesScope(f) ==
  /\ scope' = [scope EXCEPT ![f] = f]
  /\ holds' = [holds EXCEPT ![scope[f]] =
                 IF \E g \in Frames \ {f} : kind[g] # "free" /\ scope[g] = scope[f]
                 THEN @ ELSE {}]

(***************************************************************************)
(* The frame's promise settles with st.  A branch stays as the settled     *)
(* handle; any other frame hands st to its parent and goes, and branches   *)
(* it did not join run on, detached.  The entry's end is that of the run.  *)
(***************************************************************************)
Settle(b, st) ==
  /\ kind[b] = "branch"
  /\ pc' = [pc EXCEPT ![b] = "settled"]
  /\ res' = [res EXCEPT ![b] = st]
  /\ UNCHANGED <<kind, parent, local, workflowCtxStack, outcome>>

End(f, st) ==
  /\ kind[f] # "branch"
  /\ kind' = [kind EXCEPT ![f] = "free"]
  /\ parent' = [g \in Frames |-> IF g \in Branches(f) THEN 0 ELSE parent[g]]
  /\ pc' = [g \in Frames |-> IF g = parent[f] THEN "returned"
                             ELSE IF g = f THEN "ready" ELSE pc[g]]
  /\ res' = [g \in Frames |-> IF g = parent[f] THEN st
                              ELSE IF g = f THEN "ok" ELSE res[g]]
  /\ local' = [local EXCEPT ![f] = <<>>]
  /\ workflowCtxStack' = CtxStackAfter(f)
  /\ outcome' = IF f # Entry THEN outcome ELSE IF st = "fail" THEN "fail" ELSE "ok"

Ends(f, st) ==
  /\ Settle(f, st) \/ End(f, st)
  /\ site' = [site EXCEPT ![f] = NoSite]
  /\ LeavesScope(f)
  /\ turn' = 0
  /\ UNCHANGED <<name, depth, queue, handleIdCounter, cursor, target>>

Keep == UNCHANGED <<handleIdCounter, cursor, target, outcome>>

\* What a list leaves behind when its workflow goes on to the drain: handles
\* that have settled, and the branches an early return did not join.
Left(f, st) == IF st = "return" THEN Branches(f) ELSE Settled(f)

(***************************************************************************)
(* A step list is over with st: a branch or nested list settles; a failed  *)
(* workflow ends at once; any other workflow drains its queue first.       *)
(***************************************************************************)
ListOver(f, st) ==
  \/ /\ kind[f] # "workflow" \/ st = "fail"
     /\ Ends(f, st)
  \/ /\ kind[f] = "workflow" /\ st # "fail"
     /\ parent' = [g \in Frames |-> IF g \in Left(f, st) THEN 0 ELSE parent[g]]
     /\ pc' = [pc EXCEPT ![f] = "draining"]
     /\ res' = [res EXCEPT ![f] = st]
     /\ site' = [site EXCEPT ![f] = NoSite]
     /\ local' = [local EXCEPT ![f] = <<>>]
     /\ turn' = 0
     /\ UNCHANGED <<kind, name, depth, scope, holds, queue, workflowCtxStack>>
     /\ Keep

\* The step is done; a branch has no other, and a list comes to its next step
\* in the same turn.
NextStep(f, st) ==
  \/ kind[f] = "branch" /\ Ends(f, st)
  \/ /\ kind[f] # "branch"
     /\ pc' = [pc EXCEPT ![f] = "ready"]
     /\ site' = [site EXCEPT ![f] = NoSite]
     /\ turn' = f
     /\ UNCHANGED <<frameVars, res, local, queue, workflowCtxStack>>
     /\ Keep

-----------------------------------------------------------------------------
(***************************************************************************)
(* Steps of a list                                                         *)
(***************************************************************************)

\* A ready list takes its next step, counted by the circuit breaker.
Counted(f, step) ==
  /\ step \in Language
  /\ HasTurn(f)
  /\ pc[f] = "ready"
  /\ kind[f] \in {"workflow", "list"}
  /\ stepsExecuted < MaxSteps
  /\ stepsExecuted' = stepsExecuted + 1

\* The step that exceeds JAIPH_MAX_STEPS fails the list it is in.
TripMaxSteps(f) ==
  /\ HasTurn(f)
  /\ pc[f] = "ready"
  /\ kind[f] \in {"workflow", "list"}
  /\ stepsExecuted = MaxSteps
  /\ Ends(f, "fail")
  /\ UNCHANGED stepsExecuted

FailStep(f) == Counted(f, "fail") /\ Ends(f, "fail")
ReturnStep(f) == Counted(f, "return") /\ ListOver(f, "return")

\* `run ref` with no handler, `catch` or `recover`; the limit of `recover`
\* is that of the workflow on top of the shared context stack.
LimitOf(h) == IF h = "recover" THEN RecoverLimit[name[topCtx]]
              ELSE IF h = "catch" THEN 1 ELSE 0

RunStep(f, callee, h) ==
  /\ Counted(f, "run")
  /\ Starts(f, [NoSite EXCEPT !.op = "run", !.callee = callee, !.handler = h,
                              !.left = LimitOf(h)])
  /\ Keep

\* An `if` or `for` body, with handles of its own.
BodyStep(f) ==
  /\ Counted(f, "list")
  /\ RunList(f, [NoSite EXCEPT !.op = "list"])
  /\ Keep

(***************************************************************************)
(* `run async ref`: the closure runs up to its first await, its handle is  *)
(* registered and its caller goes on to the next step, all in one turn.    *)
(***************************************************************************)
RunAsyncStep(f, callee, h) ==
  /\ Counted(f, "async")
  /\ handleIdCounter < MaxBranches
  /\ Begin(f, "branch", name[f], depth[f], "ready", "starting",
           [NoSite EXCEPT !.op = "run", !.callee = callee, !.handler = h,
                          !.left = LimitOf(h)])
  /\ handleIdCounter' = handleIdCounter + 1
  /\ turn' = f
  /\ UNCHANGED <<res, workflowCtxStack, cursor, target, outcome>>

(***************************************************************************)
(* The arguments of a call are resolved against the caller's Map, so they  *)
(* may await any handle a variable of it holds: a sibling's, one copied    *)
(* from a caller, or, for a closure, its own.  `if` subjects and literals  *)
(* read the same way.                                                      *)
(***************************************************************************)
Starting(f) ==
  /\ HasTurn(f)
  /\ kind[f] # "free" /\ pc[f] = "starting"
  /\ Keep
  /\ UNCHANGED stepsExecuted

Read(f, b) ==
  /\ "read" \in Language
  /\ Starting(f)
  /\ site[f].op \in {"run", "send"}
  /\ b \in holds[scope[f]]
  /\ pc' = [pc EXCEPT ![f] = "reading"]
  /\ site' = [site EXCEPT ![f].reads = b]
  /\ turn' = 0
  /\ UNCHANGED <<frameVars, res, local, queue, workflowCtxStack>>

Enter(f) == Starting(f) /\ Invoke(f, site[f])

\* resolveHandleVar empties the variable; a failed handle fails the call as
\* its target would, so a retry calls on without it.
ReadResolves(f) ==
  LET b == site[f].reads IN
  /\ HasTurn(f)
  /\ pc[f] = "reading" /\ pc[b] = "settled"
  /\ pc' = [pc EXCEPT ![f] = IF res[b] = "fail" THEN "returned" ELSE "starting"]
  /\ res' = [res EXCEPT ![f] = IF res[b] = "fail" THEN "fail" ELSE @]
  /\ site' = [site EXCEPT ![f].reads = 0]
  /\ holds' = [holds EXCEPT ![scope[f]] = @ \ {b}]
  /\ turn' = 0
  /\ UNCHANGED <<kind, name, parent, depth, scope, local, queue, workflowCtxStack>>
  /\ Keep
  /\ UNCHANGED stepsExecuted

\* A message queued on the sender's own context, or sent in the name of the
\* workflow that owns the queue.
EnqueueLocally(f, ctx, ch) ==
  queue' = [queue EXCEPT ![ctx] =
              Append(@, [chan |-> ch, sender |-> name[ctx], by |-> name[f]])]

(***************************************************************************)
(* `channel <- payload`.  The sender's name comes from the context on top  *)
(* of the shared stack when the step starts, before the payload, a literal *)
(* or a call, is awaited; the queue is that of the nearest context with a  *)
(* route, which only the entry workflow has, or else the captured one's.   *)
(* The error on an empty stack is EntryContextAtBottom's impossible case.  *)
(***************************************************************************)
Enqueue(f, ctx, ch) ==
  LET routed == {i \in DOMAIN workflowCtxStack :
                   workflowCtxStack[i] = Entry /\ Routes[ch] # <<>>}
      to == IF routed # {} THEN Entry ELSE ctx
  IN  queue' = [queue EXCEPT ![to] =
                  Append(@, [chan |-> ch, sender |-> name[ctx], by |-> name[f]])]

SendStep(f, ch) ==
  /\ Counted(f, "send")
  /\ Len(workflowCtxStack) > 0
  /\ pc' = [pc EXCEPT ![f] = "returned"]
  /\ res' = [res EXCEPT ![f] = "ok"]
  /\ site' = [site EXCEPT ![f] = [NoSite EXCEPT !.op = "send", !.chan = ch, !.ctx = topCtx]]
  /\ turn' = 0
  /\ UNCHANGED <<frameVars, local, queue, workflowCtxStack>>
  /\ Keep

SendCallStep(f, ch, callee) ==
  /\ Counted(f, "send")
  /\ Len(workflowCtxStack) > 0
  /\ Starts(f, [NoSite EXCEPT !.op = "send", !.callee = callee, !.chan = ch,
                              !.ctx = topCtx])
  /\ Keep

-----------------------------------------------------------------------------
(***************************************************************************)
(* What a step awaits comes back                                           *)
(***************************************************************************)

\* The awaited outcome of the step in progress: what the child frame handed
\* over, or the exit of a leaf script.
Returned(f, op, st) ==
  /\ HasTurn(f)
  /\ kind[f] # "free"
  /\ \/ pc[f] = "returned" /\ st = res[f]
     \/ pc[f] = "script" /\ st \in {"ok", "fail"}
  /\ site[f].op = op
  /\ UNCHANGED stepsExecuted

\* A retry loop that does not count its attempts.
RunReturnedUncounted(f, st) ==
  /\ Returned(f, "run", st)
  /\ \/ st # "fail" /\ NextStep(f, "ok")
     \/ st = "fail" /\ site[f].left = 0 /\ Ends(f, "fail")
     \/ /\ st = "fail" /\ site[f].left > 0
        /\ RunList(f, [site[f] EXCEPT !.op = "body"])
        /\ Keep

\* The target of a `run`, its handler and its retries.
RunReturned(f, st) ==
  /\ Returned(f, "run", st)
  /\ \/ st # "fail" /\ NextStep(f, "ok")
     \/ st = "fail" /\ site[f].left = 0 /\ Ends(f, "fail")
     \/ /\ st = "fail" /\ site[f].left > 0
        /\ RunList(f, [site[f] EXCEPT !.op = "body", !.left = @ - 1])
        /\ Keep

\* A `catch` or `recover` body: its `return` returns from the list around
\* it; in a branch only `catch` passes the value on to the join.
HandlerReturned(f, st) ==
  /\ Returned(f, "body", st)
  /\ \/ st = "fail" /\ Ends(f, "fail")
     \/ st = "return" /\ kind[f] # "branch" /\ ListOver(f, "return")
     \/ /\ st = "return" /\ kind[f] = "branch"
        /\ Ends(f, IF site[f].handler = "catch" THEN "return" ELSE "ok")
     \/ st = "ok" /\ site[f].handler = "catch" /\ NextStep(f, "ok")
     \/ /\ st = "ok" /\ site[f].handler = "recover"
        /\ Starts(f, [site[f] EXCEPT !.op = "run"])
        /\ Keep

BodyReturned(f, st) ==
  /\ Returned(f, "list", st)
  /\ \/ st = "fail" /\ Ends(f, "fail")
     \/ st = "return" /\ ListOver(f, "return")
     \/ st = "ok" /\ NextStep(f, "ok")

\* The payload of a send: enqueued with the context read before the call.
PayloadReturned(f, st) ==
  /\ Returned(f, "send", st)
  /\ \/ st = "fail" /\ Ends(f, "fail")
     \/ /\ st # "fail"
        /\ Enqueue(f, site[f].ctx, site[f].chan)
        /\ pc' = [pc EXCEPT ![f] = "ready"]
        /\ site' = [site EXCEPT ![f] = NoSite]
        /\ turn' = f
        /\ UNCHANGED <<frameVars, res, local, workflowCtxStack>>
        /\ Keep

-----------------------------------------------------------------------------
(***************************************************************************)
(* The end of a list: the implicit join, then the drain of a workflow      *)
(***************************************************************************)

EndOfList(f) ==
  /\ HasTurn(f)
  /\ pc[f] = "ready"
  /\ kind[f] \in {"workflow", "list"}
  /\ UNCHANGED stepsExecuted
  /\ \/ Branches(f) = {} /\ ListOver(f, "ok")
     \/ /\ Branches(f) # {}
        /\ pc' = [pc EXCEPT ![f] = "joining"]
        /\ turn' = 0
        /\ UNCHANGED <<frameVars, site, res, local, queue, workflowCtxStack>>
        /\ Keep

\* A join that fails only when nothing succeeded.
JoinedAny(bs) ==
  IF \A b \in bs : res[b] = "fail" THEN "fail"
  ELSE IF \E b \in bs : res[b] = "return" THEN "return" ELSE "ok"

JoinedResult(bs) ==
  IF \E b \in bs : res[b] = "fail" THEN "fail"
  ELSE IF \E b \in bs : res[b] = "return" THEN "return" ELSE "ok"

\* A join that collects the handles that happen to be resolved.
JoinResolved(f) ==
  /\ HasTurn(f)
  /\ pc[f] = "joining"
  /\ ListOver(f, JoinedResult(Settled(f)))
  /\ UNCHANGED stepsExecuted

\* Every handle of the list is awaited, in creation order, and only then do
\* the failures count: the join ends when the last branch has settled.
Join(f) ==
  /\ HasTurn(f)
  /\ pc[f] = "joining"
  /\ Settled(f) = Branches(f)
  /\ ListOver(f, JoinedResult(Branches(f)))
  /\ UNCHANGED stepsExecuted

\* A nested workflow has no routes: its drain only counts the messages.
DrainNested(f) ==
  /\ HasTurn(f)
  /\ f # Entry /\ kind[f] = "workflow" /\ pc[f] = "draining"
  /\ Ends(f, IF Len(queue[f]) > DispatchLimit THEN "fail" ELSE res[f])
  /\ UNCHANGED stepsExecuted

Draining ==
  /\ HasTurn(Entry)
  /\ pc[Entry] = "draining"
  /\ UNCHANGED stepsExecuted

DrainOver ==
  /\ Draining
  /\ cursor = Len(queue[Entry])
  /\ Ends(Entry, "ok")

DrainLimitHit ==
  /\ Draining
  /\ cursor < Len(queue[Entry]) /\ cursor >= DispatchLimit
  /\ Ends(Entry, "fail")

\* The targets of one message, one at a time in the order declared.
TargetsOf(i) == Routes[queue[Entry][i].chan]

Dispatch ==
  /\ Draining
  /\ cursor < Len(queue[Entry]) /\ cursor < DispatchLimit
  /\ target < Len(TargetsOf(cursor + 1))
  /\ target' = target + 1
  /\ Starts(Entry, [NoSite EXCEPT !.op = "dispatch",
                                  !.callee = TargetsOf(cursor + 1)[target + 1]])
  /\ UNCHANGED <<handleIdCounter, cursor, outcome>>

NextMessage ==
  /\ Draining
  /\ cursor < Len(queue[Entry]) /\ cursor < DispatchLimit
  /\ target = Len(TargetsOf(cursor + 1))
  /\ cursor' = cursor + 1
  /\ target' = 0
  /\ turn' = Entry
  /\ UNCHANGED <<frameVars, pc, site, res, local, queue, workflowCtxStack,
                 handleIdCounter, outcome>>

\* A drain that stops at a failed target but forgets the failure.
DispatchSwallowed(st) ==
  /\ Returned(Entry, "dispatch", st)
  /\ \/ st = "fail" /\ Ends(Entry, "ok")
     \/ /\ st # "fail"
        /\ pc' = [pc EXCEPT ![Entry] = "draining"]
        /\ site' = [site EXCEPT ![Entry] = NoSite]
        /\ turn' = Entry
        /\ UNCHANGED <<frameVars, res, local, queue, workflowCtxStack>>
        /\ Keep

\* The first target that fails ends the drain and the run.
DispatchReturned(st) ==
  /\ Returned(Entry, "dispatch", st)
  /\ \/ st = "fail" /\ Ends(Entry, "fail")
     \/ /\ st # "fail"
        /\ pc' = [pc EXCEPT ![Entry] = "draining"]
        /\ site' = [site EXCEPT ![Entry] = NoSite]
        /\ turn' = Entry
        /\ UNCHANGED <<frameVars, res, local, queue, workflowCtxStack>>
        /\ Keep

-----------------------------------------------------------------------------
(***************************************************************************)
(* A frame waits for its child, for the handle it reads, or for a branch   *)
(* it joins.  Nothing in the code keeps a handle from the closure it       *)
(* belongs to or from the workflows that closure calls, so a set of frames *)
(* can wait for itself, and the run with it when the entry is among them.  *)
(***************************************************************************)
Waits(f, g) ==
  \/ pc[f] = "child" /\ kind[g] \in {"workflow", "list"} /\ parent[g] = f
  \/ pc[f] = "reading" /\ g = site[f].reads /\ pc[g] # "settled"
  \/ pc[f] = "joining" /\ g \in Branches(f) \ Settled(f)

Deadlocked ==
  \E C \in SUBSET {f \in Frames : pc[f] \in {"child", "reading", "joining"}} :
    /\ Entry \in C /\ \E f \in C : pc[f] = "reading"
    /\ \A f \in C : \E g \in C : Waits(f, g)

Hangs == outcome = "running" /\ Deadlocked /\ UNCHANGED vars

\* The run is over and the runner process exits: detached branches with it.
Exited == outcome # "running" /\ UNCHANGED vars

Steps(f) ==
  \/ TripMaxSteps(f) \/ FailStep(f) \/ ReturnStep(f) \/ BodyStep(f)
  \/ \E callee \in Callees, h \in Handlers : RunStep(f, callee, h) \/ RunAsyncStep(f, callee, h)
  \/ \E ch \in Channels : SendStep(f, ch)
  \/ \E ch \in Channels, callee \in Callees : SendCallStep(f, ch, callee)
  \/ EndOfList(f)

Resumes(f) ==
  \/ \E b \in Frames : Read(f, b)
  \/ Enter(f) \/ ReadResolves(f) \/ Join(f) \/ DrainNested(f)
  \/ \E st \in Outcomes : \/ RunReturned(f, st) \/ HandlerReturned(f, st)
                          \/ BodyReturned(f, st) \/ PayloadReturned(f, st)

Drains ==
  \/ DrainOver \/ DrainLimitHit \/ Dispatch \/ NextMessage
  \/ \E st \in Outcomes : DispatchReturned(st)

Continues == (\E f \in Frames : Steps(f) \/ Resumes(f)) \/ Drains

Next == (Continues \/ Hangs \/ Exited) /\ UNCHANGED program

\* Node's event loop runs some continuation while there is one.  No script
\* is bound to exit: one that keeps printing outlives the idle watchdog.
LeafExits == \E f \in Frames : pc[f] = "script" /\ pc'[f] # "script"
Fairness == WF_vars(Continues /\ ~LeafExits)

SafeSpec == Init /\ [][Next]_<<program, vars>>
Spec == SafeSpec /\ Fairness

-----------------------------------------------------------------------------
(***************************************************************************)
(* Properties                                                              *)
(***************************************************************************)

\* Branches push and pop one shared stack in any order, yet while the run
\* lasts it holds one context per running workflow, and the entry's, whose
\* routes every send needs, stays at the bottom.
EntryContextAtBottom ==
  outcome = "running" =>
    /\ Len(workflowCtxStack) = Cardinality(LiveWorkflows)
    /\ workflowCtxStack # <<>> /\ workflowCtxStack[1] = Entry

\* A message on a routed channel is in the entry's queue, whoever sent it
\* and whatever became of its context: no nested drain can drop it
\* (docs/inbox.md, "Routed and unrouted sends").
RoutedReachEntry ==
  \A f \in Frames \ {Entry} : \A i \in DOMAIN queue[f] : Routes[queue[f][i].chan] = <<>>

\* docs/inbox.md: the 3rd parameter is "the name of the workflow that ran
\* the send".  With branches it is not.
SenderRanTheSend ==
  \A i \in DOMAIN queue[Entry] : queue[Entry][i].sender = queue[Entry][i].by

\* A run succeeds only after every message queued for the entry went to all
\* its targets, those sent by the targets themselves included.
SuccessMeansDelivered ==
  outcome = "ok" => cursor = Len(queue[Entry]) /\ target = 0

\* Producers first, one consumer at a time: whenever the entry's drain holds
\* control, nothing else runs except what an early `return` or a failure
\* left detached - no branch of the entry's list or of an earlier target
\* (docs/inbox.md, "When messages are delivered").
Detached == {b \in Frames : kind[b] = "branch" /\ parent[b] = 0 /\ pc[b] # "settled"}

ConsumersRunAlone ==
  pc[Entry] = "draining" /\ Detached = {} =>
    \A f \in Frames \ {Entry} : kind[f] = "free" \/ pc[f] = "settled"

\* A list that ends well has no failed branch behind it: a failure that was
\* read and caught in between still fails the join.
JoinKeepsFailures ==
  [][\A f \in Frames :
       pc[f] = "joining" /\ pc'[f] = "draining" =>
         \A b \in Branches(f) : res[b] # "fail"]_vars

\* With the circuit breaker set and scripts that exit, every run ends, for no
\* chain of sends or retries goes on for ever, unless a handle is read below
\* its own branch: nothing else makes a run wait for itself.
LeavesEnd == \A f \in Frames : []<>(pc[f] # "script")
RunEnds == LeavesEnd => <>(outcome # "running" \/ Deadlocked)

=============================================================================
