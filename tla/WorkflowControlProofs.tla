------------------------ MODULE WorkflowControlProofs ------------------------
(***************************************************************************)
(* Who holds control in the interpreter, for every program and any number  *)
(* of branches: a join forgets no failure, a run that succeeds delivered   *)
(* every message, and a consumer runs alone.                               *)
(*                                                                         *)
(* The first two need only the types of WorkflowRuntimeProofs.  The third  *)
(* rests on the shape of the call tree: a nested frame is awaited by one   *)
(* live frame, a branch is known to its owner or detached, and from the    *)
(* entry and the detached branches the tree reaches every live frame.      *)
(***************************************************************************)
EXTENDS WorkflowRuntimeProofs

(***************************************************************************)
(* The drain.  Its cursor never passes the queue, whose end only moves     *)
(* away, and a message half dispatched is still in front of it; nothing    *)
(* drains once the run is over.                                            *)
(***************************************************************************)
DrainInv ==
  /\ cursor <= Len(queue[Entry])
  /\ target > 0 => cursor < Len(queue[Entry])
  /\ outcome # "running" => pc[Entry] # "draining"
  /\ SuccessMeansDelivered

(***************************************************************************)
(* The call tree, while the run lasts.                                     *)
(***************************************************************************)
Live == {f \in Frames : kind[f] # "free"}
Lists == {"workflow", "list"}

\* A nested frame is the one its parent awaits.
Awaited ==
  /\ \A f \in Frames \ {Entry} : kind[f] \in Lists =>
       parent[f] \in Live /\ pc[parent[f]] = "child"
  /\ \A f, g \in Frames \ {Entry} :
       kind[f] \in Lists /\ kind[g] \in Lists /\ parent[f] = parent[g] => f = g

\* Its owner knows every branch that is not detached, and only lists own any.
Known ==
  /\ \A b \in Frames : kind[b] = "branch" /\ parent[b] # 0 =>
       parent[b] \in Frames /\ b \in Branches(parent[b])
  /\ \A f \in Frames : kind[f] \notin Lists => local[f] = <<>>

\* Where a frame stands while the step it is executing is a dispatch.
Dispatching == {"starting", "child", "script", "returned"}

\* A drain, with its targets, follows the join.
DrainsJoined ==
  \A f \in Frames :
    /\ pc[f] = "draining" \/ site[f].op = "dispatch" => local[f] = <<>>
    /\ site[f].op = "dispatch" => pc[f] \in Dispatching

FreeIdle == \A f \in Frames : kind[f] = "free" => pc[f] = "ready"

\* A set of frames that control cannot leave from the roots of the call tree.
Closed(S) ==
  \A f \in Live : f = Entry \/ parent[f] = 0 \/ parent[f] \in S => f \in S

Reached == \A S \in SUBSET Frames : Closed(S) => Live \subseteq S

Tree ==
  /\ Awaited
  /\ Known
  /\ DrainsJoined
  /\ FreeIdle
  /\ Reached

TreeInv == outcome = "running" => Tree

-----------------------------------------------------------------------------
(***************************************************************************)
(* The drain                                                               *)
(***************************************************************************)

\* What every step but those of the drain itself does to it: messages may be
\* added at the end, the cursor stays, and the run goes on or fails for good.
Quiet ==
  /\ Len(queue'[Entry]) >= Len(queue[Entry])
  /\ UNCHANGED <<cursor, target>>
  /\ outcome' # "ok"
  /\ outcome' # "running" => pc'[Entry] # "draining"

LEMMA EntryQueue == ASSUME FrameTypes PROVE Len(queue[Entry]) \in Nat
<1>1. queue[Entry] \in Seq(Messages)
  BY EntryIsFrame DEF FrameTypes
<1>. QED
  BY <1>1

\* A frame that begins is not the entry, which still runs.
LEMMA BeginQueue ==
  ASSUME Struct, outcome = "running",
         NEW f, NEW k, NEW nm, NEW dep, NEW where, NEW at, NEW step,
         Begin(f, k, nm, dep, where, at, step)
  PROVE  queue'[Entry] = queue[Entry]
<1>1. fresh # Entry
  BY FreshIsFree DEF Begin, Struct, EntryRuns
<1>. QED
  BY <1>1 DEF Begin, Struct, FrameTypes

LEMMA InvokeQueue ==
  ASSUME Struct, outcome = "running", NEW f, NEW step, Invoke(f, step)
  PROVE  queue'[Entry] = queue[Entry]
BY BeginQueue DEF Invoke, CallWorkflow, CallRefused, CallScript

LEMMA CallQuiet ==
  ASSUME Struct, outcome = "running", NEW f, NEW step,
         Starts(f, step) \/ Invoke(f, step) \/ RunList(f, step), Keep
  PROVE  Quiet
<1>1. queue'[Entry] = queue[Entry]
  BY InvokeQueue, BeginQueue DEF RunList, Starts
<1>. QED
  BY <1>1, EntryQueue DEF Keep, Quiet, Struct

\* The end of any frame but the entry is not the end of the run, and the
\* entry's own is no success unless it is told so.
LEMMA EndsQuiet ==
  ASSUME Struct, outcome = "running", NEW f, NEW st, f = Entry => st = "fail", Ends(f, st)
  PROVE  Quiet
<1>1. kind[Entry] = "workflow" /\ Entry \in Frames
  BY EntryIsFrame DEF Struct, EntryRuns
<1>2. CASE Settle(f, st)
  <2>1. outcome' = "running" /\ UNCHANGED <<queue, cursor, target>>
    BY <1>2 DEF Ends, Settle
  <2>. QED
    BY <2>1, EntryQueue DEF Quiet, Struct
<1>3. CASE End(f, st)
  <2>1. /\ outcome' # "ok" /\ UNCHANGED <<queue, cursor, target>>
        /\ outcome' # "running" => f = Entry /\ pc'[Entry] # "draining"
    BY <1>1, <1>3 DEF Ends, End
  <2>. QED
    BY <2>1, EntryQueue DEF Quiet, Struct
<1>. QED
  BY <1>2, <1>3 DEF Ends

LEMMA OverQuiet ==
  ASSUME Struct, outcome = "running", NEW f, NEW st, ListOver(f, st) \/ NextStep(f, st)
  PROVE  Quiet
<1>1. kind[Entry] = "workflow"
  BY DEF Struct, EntryRuns
<1>2. CASE Ends(f, st) /\ (f = Entry => st = "fail")
  BY <1>2, EndsQuiet
<1>3. CASE UNCHANGED queue /\ Keep
  BY <1>3, EntryQueue DEF Keep, Quiet, Struct
<1>. QED
  BY <1>1, <1>2, <1>3 DEF ListOver, NextStep

\* A message goes behind those already queued.
LEMMA EnqueueQuiet ==
  ASSUME Struct, outcome = "running", NEW f, NEW ctx, NEW ch, Enqueue(f, ctx, ch), Keep
  PROVE  Quiet
<1>. DEFINE routed == {i \in DOMAIN workflowCtxStack :
                         workflowCtxStack[i] = Entry /\ Routes[ch] # <<>>}
            to == IF routed # {} THEN Entry ELSE ctx
            msg == [chan |-> ch, sender |-> name[ctx], by |-> name[f]]
<1>1. queue' = [queue EXCEPT ![to] = Append(@, msg)]
  BY DEF Enqueue
<1>. HIDE DEF to, msg
<1>2. queue'[Entry] = queue[Entry] \/ queue'[Entry] = Append(queue[Entry], msg)
  BY <1>1, EntryIsFrame DEF Struct, FrameTypes
<1>3. queue[Entry] \in Seq(Messages)
  BY EntryIsFrame DEF Struct, FrameTypes
<1>4. Len(queue'[Entry]) >= Len(queue[Entry])
  BY <1>2, <1>3
<1>. QED
  BY <1>4 DEF Keep, Quiet

LEMMA StepsQuiet ==
  ASSUME IInv, NEW f \in Frames, Steps(f)
  PROVE  outcome = "running" /\ Quiet
<1>. USE DEF IInv
<1>1. outcome = "running"
  BY DEF Steps, TripMaxSteps, FailStep, ReturnStep, BodyStep, RunStep, RunAsyncStep,
         SendStep, SendCallStep, EndOfList, Counted, HasTurn
<1>2. CASE TripMaxSteps(f) \/ FailStep(f) \/ ReturnStep(f)
  BY <1>1, <1>2, EndsQuiet, OverQuiet DEF TripMaxSteps, FailStep, ReturnStep
<1>3. CASE BodyStep(f)
  BY <1>1, <1>3, CallQuiet DEF BodyStep
<1>4. CASE \E callee \in Callees, h \in Handlers : RunStep(f, callee, h)
  BY <1>1, <1>4, CallQuiet DEF RunStep
<1>5. CASE \E callee \in Callees, h \in Handlers : RunAsyncStep(f, callee, h)
  <2>1. queue'[Entry] = queue[Entry] /\ UNCHANGED <<cursor, target, outcome>>
    BY <1>1, <1>5, BeginQueue DEF RunAsyncStep
  <2>. QED
    BY <1>1, <2>1, EntryQueue DEF Quiet, Struct
<1>6. CASE \E ch \in Channels : SendStep(f, ch)
  BY <1>1, <1>6, EntryQueue DEF SendStep, Keep, Quiet, Struct
<1>7. CASE \E ch \in Channels, callee \in Callees : SendCallStep(f, ch, callee)
  BY <1>1, <1>7, CallQuiet DEF SendCallStep
<1>8. CASE EndOfList(f)
  <2>1. CASE ListOver(f, "ok")
    BY <1>1, <2>1, OverQuiet
  <2>2. CASE ~ListOver(f, "ok")
    BY <1>1, <1>8, <2>2, EntryQueue DEF EndOfList, Keep, Quiet, Struct
  <2>. QED
    BY <2>1, <2>2
<1>. QED
  BY <1>1, <1>2, <1>3, <1>4, <1>5, <1>6, <1>7, <1>8 DEF Steps

LEMMA ResumesQuiet ==
  ASSUME IInv, NEW f \in Frames, Resumes(f)
  PROVE  outcome = "running" /\ Quiet
<1>. USE DEF IInv
<1>1. outcome = "running"
  BY DEF Resumes, Read, Enter, Starting, ReadResolves, Join, DrainNested, RunReturned,
         HandlerReturned, BodyReturned, PayloadReturned, Returned, HasTurn
<1>2. kind[Entry] = "workflow"
  BY <1>1 DEF Struct, EntryRuns
<1>3. CASE Enter(f)
  BY <1>1, <1>3, CallQuiet DEF Enter, Starting
<1>4. CASE ReadResolves(f) \/ \E b \in Frames : Read(f, b)
  <2>1. UNCHANGED <<queue, cursor, target, outcome>>
    BY <1>4 DEF ReadResolves, Read, Starting, Keep
  <2>. QED
    BY <1>1, <2>1, EntryQueue DEF Quiet, Struct
<1>5. CASE Join(f)
  BY <1>1, <1>5, OverQuiet DEF Join
<1>6. CASE DrainNested(f)
  BY <1>1, <1>6, EndsQuiet DEF DrainNested
<1>7. ASSUME NEW st \in Outcomes, RunReturned(f, st) PROVE Quiet
  BY <1>1, <1>7, OverQuiet, EndsQuiet, CallQuiet DEF RunReturned
<1>8. ASSUME NEW st \in Outcomes, HandlerReturned(f, st) PROVE Quiet
  BY <1>1, <1>2, <1>8, OverQuiet, EndsQuiet, CallQuiet DEF HandlerReturned
<1>9. ASSUME NEW st \in Outcomes, BodyReturned(f, st) PROVE Quiet
  BY <1>1, <1>9, OverQuiet, EndsQuiet DEF BodyReturned
<1>10. ASSUME NEW st \in Outcomes, PayloadReturned(f, st) PROVE Quiet
  BY <1>1, <1>10, EndsQuiet, EnqueueQuiet DEF PayloadReturned
<1>. QED
  BY <1>1, <1>3, <1>4, <1>5, <1>6, <1>7, <1>8, <1>9, <1>10 DEF Resumes

LEMMA QuietKeeps ==
  ASSUME IInv, IInv', DrainInv, outcome = "running", Quiet
  PROVE  DrainInv'
<1>1. Len(queue[Entry]) \in Nat /\ Len(queue[Entry])' \in Nat
  BY EntryQueue DEF IInv, Struct
<1>2. cursor \in Nat /\ target \in Nat
  BY DEF IInv, CounterTypes
<1>. QED
  BY <1>1, <1>2 DEF DrainInv, Quiet, SuccessMeansDelivered

LEMMA DrainsKeep ==
  ASSUME IInv, IInv', DrainInv, Drains
  PROVE  DrainInv'
<1>0. outcome = "running" /\ cursor \in Nat /\ target \in Nat
  BY DEF IInv, CounterTypes, Drains, DrainOver, DrainLimitHit, Dispatch, NextMessage, Draining,
         DispatchReturned, Returned, HasTurn
<1>1. Len(queue[Entry]) \in Nat /\ Struct
  BY EntryQueue DEF IInv, Struct
<1>2. CASE DrainOver
  <2>1. UNCHANGED <<queue, cursor, target>> /\ cursor = Len(queue[Entry])
    BY <1>2 DEF DrainOver, Ends
  <2>2. kind[Entry] = "workflow" /\ Entry \in Frames
    BY <1>0, <1>1, EntryIsFrame DEF Struct, EntryRuns
  <2>3. pc'[Entry] # "draining"
    BY <1>2, <2>2 DEF DrainOver, Ends, Settle, End
  <2>. QED
    BY <1>0, <1>1, <2>1, <2>3 DEF DrainInv, SuccessMeansDelivered
<1>3. CASE DrainLimitHit
  BY <1>0, <1>1, <1>3, EndsQuiet, QuietKeeps DEF DrainLimitHit
<1>4. CASE Dispatch
  <2>1. queue'[Entry] = queue[Entry] /\ cursor < Len(queue[Entry])
    BY <1>0, <1>1, <1>4 DEF Dispatch, Starts
  <2>. QED
    BY <1>0, <1>1, <1>4, <2>1 DEF Dispatch, DrainInv, SuccessMeansDelivered
<1>5. CASE NextMessage
  BY <1>0, <1>1, <1>5 DEF NextMessage, DrainInv, SuccessMeansDelivered
<1>6. ASSUME NEW st \in Outcomes, DispatchReturned(st) PROVE DrainInv'
  <2>1. CASE Ends(Entry, "fail")
    BY <1>0, <1>1, <2>1, EndsQuiet, QuietKeeps
  <2>2. CASE ~Ends(Entry, "fail")
    <3>1. Quiet
      BY <1>0, <1>1, <1>6, <2>2 DEF DispatchReturned, Keep, Quiet
    <3>. QED
      BY <1>0, <3>1, QuietKeeps
  <2>. QED
    BY <2>1, <2>2
<1>. QED
  BY <1>2, <1>3, <1>4, <1>5, <1>6 DEF Drains

\* The drain keeps its place, whatever the targets of a message send.
LEMMA DrainKept == SafeSpec => []DrainInv
<1>1. Init => DrainInv
  BY EntryIsFrame DEF Init, DrainInv, SuccessMeansDelivered
<1>2. IInv /\ IInv' /\ DrainInv /\ [Next]_<<program, vars>> => DrainInv'
  <2>1. SUFFICES ASSUME IInv, IInv', DrainInv, [Next]_<<program, vars>> PROVE DrainInv'
    OBVIOUS
  <2>2. CASE \E f \in Frames : Steps(f) \/ Resumes(f)
    BY <2>1, <2>2, StepsQuiet, ResumesQuiet, QuietKeeps
  <2>3. CASE Drains
    BY <2>1, <2>3, DrainsKeep
  <2>4. CASE Hangs \/ Exited \/ UNCHANGED vars
    BY <2>1, <2>4 DEF Hangs, Exited, vars, DrainInv, SuccessMeansDelivered
  <2>. QED
    BY <2>1, <2>2, <2>3, <2>4 DEF Next, Continues
<1>. QED
  BY <1>1, <1>2, Invariance, PTL DEF SafeSpec

\* A run that succeeds delivered every message to every target, those its
\* targets sent included, whatever the program and however it interleaved.
THEOREM Delivered == SafeSpec => []SuccessMeansDelivered
<1>1. DrainInv => SuccessMeansDelivered
  BY DEF DrainInv
<1>. QED
  BY <1>1, DrainKept, PTL

-----------------------------------------------------------------------------
(***************************************************************************)
(* The join                                                                *)
(***************************************************************************)
GoesToDrain(g) == pc[g] = "joining" /\ pc'[g] = "draining"

\* No shape takes a joining frame to its drain but the end of its own list.
LEMMA NoneBegins ==
  ASSUME FrameTypes, NEW g \in Frames, NEW f, NEW k, NEW nm, NEW dep,
         NEW where, where # "draining", NEW at, at # "draining", NEW step,
         Begin(f, k, nm, dep, where, at, step)
  PROVE  ~GoesToDrain(g)
BY DEF Begin, FrameTypes, GoesToDrain

LEMMA NoneCalls ==
  ASSUME FrameTypes, NEW g \in Frames, NEW f, NEW step,
         Starts(f, step) \/ Invoke(f, step) \/ RunList(f, step)
  PROVE  ~GoesToDrain(g)
<1>1. CASE CallWorkflow(f, step) \/ RunList(f, step)
  BY <1>1, NoneBegins DEF CallWorkflow, RunList
<1>2. CASE Starts(f, step) \/ CallRefused(f, step) \/ CallScript(f, step)
  <2>1. \/ pc' = [pc EXCEPT ![f] = "starting"]
        \/ pc' = [pc EXCEPT ![f] = "returned"]
        \/ pc' = [pc EXCEPT ![f] = "script"]
    BY <1>2 DEF Starts, CallRefused, CallScript
  <2>. QED
    BY <2>1 DEF FrameTypes, GoesToDrain
<1>. QED
  BY <1>1, <1>2 DEF Invoke

LEMMA NoneEnds ==
  ASSUME FrameTypes, NEW g \in Frames, NEW f, NEW st, Ends(f, st)
  PROVE  ~GoesToDrain(g)
<1>1. CASE Settle(f, st)
  BY <1>1 DEF Settle, FrameTypes, GoesToDrain
<1>2. CASE End(f, st)
  BY <1>2 DEF End, GoesToDrain
<1>. QED
  BY <1>1, <1>2 DEF Ends

LEMMA NoneOver ==
  ASSUME FrameTypes, NEW g \in Frames, NEW f, pc[f] # "joining", NEW st,
         ListOver(f, st) \/ NextStep(f, st)
  PROVE  ~GoesToDrain(g)
<1>1. CASE Ends(f, st)
  BY <1>1, NoneEnds
<1>2. CASE pc' = [pc EXCEPT ![f] = "draining"] \/ pc' = [pc EXCEPT ![f] = "ready"]
  BY <1>2 DEF FrameTypes, GoesToDrain
<1>. QED
  BY <1>1, <1>2 DEF ListOver, NextStep

\* Its own list ends in Join, and a failed branch ends it otherwise.
LEMMA JoinDrains ==
  ASSUME FrameTypes, NEW g \in Frames, NEW f \in Frames, Join(f), GoesToDrain(g)
  PROVE  \A b \in Branches(g) : res[b] # "fail"
<1>1. ~Ends(f, JoinedResult(Branches(f)))
  BY NoneEnds
<1>2. JoinedResult(Branches(f)) # "fail" /\ g = f
  BY <1>1 DEF Join, ListOver, FrameTypes, GoesToDrain
<1>. QED
  BY <1>2 DEF JoinedResult

LEMMA StepsJoin ==
  ASSUME FrameTypes, NEW g \in Frames, NEW f \in Frames, Steps(f)
  PROVE  ~GoesToDrain(g)
<1>1. pc[f] = "ready"
  BY DEF Steps, TripMaxSteps, FailStep, ReturnStep, BodyStep, RunStep, RunAsyncStep,
         SendStep, SendCallStep, EndOfList, Counted
<1>2. CASE TripMaxSteps(f) \/ FailStep(f) \/ ReturnStep(f)
  BY <1>1, <1>2, NoneEnds, NoneOver DEF TripMaxSteps, FailStep, ReturnStep
<1>3. CASE BodyStep(f)
  BY <1>3, NoneCalls DEF BodyStep
<1>4. CASE \E callee \in Callees, h \in Handlers : RunStep(f, callee, h)
  BY <1>4, NoneCalls DEF RunStep
<1>5. CASE \E callee \in Callees, h \in Handlers : RunAsyncStep(f, callee, h)
  BY <1>5, NoneBegins DEF RunAsyncStep
<1>6. CASE \E ch \in Channels : SendStep(f, ch)
  BY <1>6 DEF SendStep, FrameTypes, GoesToDrain
<1>7. CASE \E ch \in Channels, callee \in Callees : SendCallStep(f, ch, callee)
  BY <1>7, NoneCalls DEF SendCallStep
<1>8. CASE EndOfList(f)
  BY <1>1, <1>8, NoneOver DEF EndOfList, FrameTypes, GoesToDrain
<1>. QED
  BY <1>2, <1>3, <1>4, <1>5, <1>6, <1>7, <1>8 DEF Steps

LEMMA ResumesJoin ==
  ASSUME FrameTypes, NEW g \in Frames, NEW f \in Frames, Resumes(f), GoesToDrain(g)
  PROVE  \A b \in Branches(g) : res[b] # "fail"
<1>1. CASE Enter(f)
  BY <1>1, NoneCalls DEF Enter
<1>2. CASE ReadResolves(f) \/ \E b \in Frames : Read(f, b)
  <2>1. pc'[g] = pc[g] \/ pc'[g] \in {"returned", "starting", "reading"}
    BY <1>2 DEF ReadResolves, Read, FrameTypes
  <2>. QED
    BY <2>1 DEF GoesToDrain
<1>3. CASE Join(f)
  BY <1>3, JoinDrains
<1>4. CASE DrainNested(f)
  BY <1>4, NoneEnds DEF DrainNested
<1>5. ASSUME NEW st \in Outcomes, RunReturned(f, st) PROVE FALSE
  BY <1>5, NoneOver, NoneEnds, NoneCalls DEF RunReturned, Returned
<1>6. ASSUME NEW st \in Outcomes, HandlerReturned(f, st) PROVE FALSE
  BY <1>6, NoneOver, NoneEnds, NoneCalls DEF HandlerReturned, Returned
<1>7. ASSUME NEW st \in Outcomes, BodyReturned(f, st) PROVE FALSE
  BY <1>7, NoneOver, NoneEnds DEF BodyReturned, Returned
<1>8. ASSUME NEW st \in Outcomes, PayloadReturned(f, st) PROVE FALSE
  BY <1>8, NoneEnds DEF PayloadReturned, FrameTypes, GoesToDrain
<1>. QED
  BY <1>1, <1>2, <1>3, <1>4, <1>5, <1>6, <1>7, <1>8 DEF Resumes

LEMMA DrainsJoin ==
  ASSUME FrameTypes, NEW g \in Frames, Drains
  PROVE  ~GoesToDrain(g)
<1>1. ASSUME NEW st \in Outcomes, DispatchReturned(st) PROVE ~GoesToDrain(g)
  <2>1. pc[Entry] # "joining"
    BY <1>1 DEF DispatchReturned, Returned
  <2>. QED
    BY <1>1, <2>1, NoneEnds DEF DispatchReturned, FrameTypes, GoesToDrain
<1>2. CASE NextMessage
  BY <1>2 DEF NextMessage, GoesToDrain
<1>3. CASE Dispatch
  BY <1>3, NoneCalls DEF Dispatch
<1>. QED
  BY <1>1, <1>2, <1>3, NoneEnds DEF Drains, DrainOver, DrainLimitHit

\* A workflow that goes on from its join has no failed branch behind it, in
\* whatever order the branches settled and whoever read them before.
THEOREM FailuresKept == SafeSpec => JoinKeepsFailures
<1>1. IInv /\ [Next]_<<program, vars>> =>
        [\A f \in Frames : pc[f] = "joining" /\ pc'[f] = "draining" =>
           \A b \in Branches(f) : res[b] # "fail"]_vars
  <2>1. SUFFICES ASSUME IInv, Next, NEW g \in Frames, GoesToDrain(g)
                 PROVE  \A b \in Branches(g) : res[b] # "fail"
    BY DEF GoesToDrain, vars
  <2>2. FrameTypes
    BY <2>1 DEF IInv, Struct
  <2>3. ~Hangs /\ ~Exited
    BY <2>1 DEF Hangs, Exited, vars, GoesToDrain
  <2>. QED
    BY <2>1, <2>2, <2>3, StepsJoin, ResumesJoin, DrainsJoin DEF Next, Continues
<1>. QED
  BY <1>1, Invariance, PTL DEF SafeSpec, JoinKeepsFailures

-----------------------------------------------------------------------------
(***************************************************************************)
(* The call tree                                                           *)
(***************************************************************************)

\* The parent of a live frame is live, and it is a list, or awaits the frame.
LEMMA ParentLive ==
  ASSUME FrameTypes, Awaited, Known, NEW g \in Live, g # Entry, parent[g] # 0
  PROVE  /\ parent[g] \in Live
         /\ \/ kind[g] \in Lists /\ pc[parent[g]] = "child"
            \/ kind[g] = "branch" /\ g \in Branches(parent[g]) /\ kind[parent[g]] \in Lists
<1>1. CASE kind[g] \in Lists
  BY <1>1 DEF Awaited, Live
<1>2. CASE kind[g] = "branch"
  <2>1. parent[g] \in Frames /\ g \in Branches(parent[g])
    BY <1>2 DEF Known, Live
  <2>2. local[parent[g]] # <<>>
    BY <2>1 DEF Branches
  <2>3. kind[parent[g]] \in Lists
    BY <2>1, <2>2 DEF Known
  <2>. QED
    BY <1>2, <2>1, <2>3 DEF Live, Lists
<1>. QED
  BY <1>1, <1>2 DEF Live, Lists, FrameTypes, Kinds

\* A frame moves, and nobody begins or ends.
LEMMA TreeMoves ==
  ASSUME FrameTypes, Tree, NEW f \in Live, pc[f] # "child", UNCHANGED <<kind, parent, local>>,
         \A g \in Frames : g # f => pc'[g] = pc[g] /\ site'[g] = site[g],
         pc'[f] = "draining" \/ site'[f].op = "dispatch" => local[f] = <<>>,
         site'[f].op = "dispatch" => pc'[f] \in Dispatching
  PROVE  Tree'
<1>. USE DEF Tree
<1>1. Live' = Live /\ f \in Frames
  BY DEF Live
<1>2. Awaited'
  BY <1>1 DEF Awaited, Live
<1>3. Known'
  BY DEF Known, Branches
<1>4. DrainsJoined' /\ FreeIdle'
  BY <1>1 DEF DrainsJoined, Dispatching, FreeIdle, Live
<1>5. Reached'
  BY <1>1 DEF Reached, Closed
<1>. QED
  BY <1>2, <1>3, <1>4, <1>5

\* A new frame hangs on a live one.
LEMMA ReachedGrows ==
  ASSUME FrameTypes, Tree, NEW f \in Live, NEW k,
         fresh \in Frames, kind[fresh] = "free",
         kind' = [kind EXCEPT ![fresh] = k],
         parent' = [parent EXCEPT ![fresh] = f]
  PROVE  Reached'
<1>. USE DEF Tree
<1>1. SUFFICES ASSUME NEW S \in SUBSET Frames, Closed(S)' PROVE Live' \subseteq S
  BY DEF Reached
<1>2. \A g \in Live : g \in Live' /\ parent'[g] = parent[g]
  BY DEF Live, FrameTypes
<1>3. Closed(S)
  BY <1>1, <1>2 DEF Closed
<1>4. Live \subseteq S
  BY <1>3 DEF Reached
<1>5. Live' \subseteq Live \cup {fresh}
  BY DEF Live, FrameTypes
<1>6. fresh \in Live' => fresh \in S
  BY <1>1, <1>4 DEF Closed, FrameTypes
<1>. QED
  BY <1>4, <1>5, <1>6

\* A call or a body: the frame below awaits the new one.
LEMMA TreeNested ==
  ASSUME FrameTypes, Tree, NEW f \in Live, pc[f] # "child", NEW k \in Lists,
         NEW nm, NEW dep, NEW step, step.op = "dispatch" => local[f] = <<>>,
         Begin(f, k, nm, dep, "child", "ready", step)
  PROVE  Tree'
<1>. USE DEF Tree
<1>0. k # "branch" /\ k # "free"
  BY DEF Lists
<1>1. fresh \in Frames /\ kind[fresh] = "free" /\ f \in Frames /\ f # fresh
  BY FreshIsFree DEF Begin, Live
<1>2. /\ kind' = [kind EXCEPT ![fresh] = k]
      /\ parent' = [parent EXCEPT ![fresh] = f]
      /\ pc' = [pc EXCEPT ![fresh] = "ready", ![f] = "child"]
      /\ site' = [site EXCEPT ![fresh] = NoSite, ![f] = step]
      /\ local' = [local EXCEPT ![fresh] = <<>>]
  BY <1>0 DEF Begin
<1>3. \A g \in Live \ {Entry} : parent[g] # fresh
  <2>1. fresh # 0
    BY <1>1, RuntimeAssumption DEF Frames
  <2>. QED
    BY <1>1, <2>1, ParentLive DEF Live
<1>4. Awaited'
  <2>1. ASSUME NEW g \in Frames \ {Entry, fresh}, kind[g] \in Lists
        PROVE  parent[g] \in Live' /\ pc'[parent[g]] = "child" /\ parent[g] # f
    <3>1. parent[g] \in Live /\ pc[parent[g]] = "child"
      BY <2>1 DEF Awaited
    <3>2. parent[g] # fresh /\ parent[g] # f
      BY <1>1, <3>1 DEF Live
    <3>. QED
      BY <1>2, <3>1, <3>2 DEF Live, FrameTypes
  <2>2. \A g \in Frames \ {fresh} : kind'[g] = kind[g] /\ parent'[g] = parent[g]
    BY <1>2 DEF FrameTypes
  <2>3. kind'[fresh] = k /\ parent'[fresh] = f /\ f \in Live' /\ pc'[f] = "child"
    BY <1>1, <1>2 DEF FrameTypes, Live
  <2>. QED
    BY <2>1, <2>2, <2>3 DEF Awaited
<1>5. Known'
  <2>1. SUFFICES ASSUME NEW b \in Frames
                 PROVE  (/\ kind[b] = "branch" /\ parent[b] # 0 =>
                              parent[b] \in Frames /\ b \in Branches(parent[b])
                         /\ kind[b] \notin Lists => local[b] = <<>>)'
    BY DEF Known
  <2>2. CASE b = fresh
    BY <1>0, <1>1, <1>2, <2>2 DEF FrameTypes
  <2>3. CASE b # fresh
    <3>1. kind'[b] = kind[b] /\ parent'[b] = parent[b] /\ local'[b] = local[b]
      BY <1>2, <2>3 DEF FrameTypes
    <3>2. CASE kind[b] = "branch" /\ parent[b] # 0
      <4>1. parent[b] \in Frames /\ b \in Branches(parent[b])
        BY <3>2 DEF Known
      <4>2. local[parent[b]] # <<>>
        BY <4>1 DEF Branches
      <4>3. parent[b] # fresh
        BY <1>1, <4>1, <4>2 DEF Known, Lists
      <4>. QED
        BY <1>2, <3>1, <4>1, <4>3, <3>2 DEF Branches, FrameTypes, Lists, Known
    <3>3. CASE ~(kind[b] = "branch" /\ parent[b] # 0)
      BY <3>1, <3>3 DEF Known
    <3>. QED
      BY <3>2, <3>3
  <2>. QED
    BY <2>2, <2>3
<1>6. DrainsJoined'
  <2>1. NoSite.op = "none"
    BY DEF NoSite
  <2>. QED
    BY <1>1, <1>2, <2>1 DEF DrainsJoined, Dispatching, FrameTypes
<1>7. FreeIdle'
  BY <1>1, <1>2 DEF FreeIdle, FrameTypes, Live
<1>8. Reached'
  BY <1>1, <1>2, ReachedGrows
<1>. QED
  BY <1>4, <1>5, <1>6, <1>7, <1>8

\* `run async`: the list owns one more branch and goes on.
LEMMA TreeBranches ==
  ASSUME FrameTypes, Tree, NEW f \in Live, kind[f] \in Lists, pc[f] = "ready",
         NEW nm, NEW dep, NEW step, step.op # "dispatch",
         Begin(f, "branch", nm, dep, "ready", "starting", step)
  PROVE  Tree'
<1>. USE DEF Tree
<1>1. fresh \in Frames /\ kind[fresh] = "free" /\ f \in Frames /\ f # fresh
  BY FreshIsFree DEF Begin, Live
<1>2. /\ kind' = [kind EXCEPT ![fresh] = "branch"]
      /\ parent' = [parent EXCEPT ![fresh] = f]
      /\ pc' = [pc EXCEPT ![fresh] = "starting", ![f] = "ready"]
      /\ site' = [site EXCEPT ![fresh] = step, ![f] = NoSite]
      /\ local' = [local EXCEPT ![fresh] = <<>>, ![f] = Append(@, fresh)]
  BY DEF Begin
<1>3. /\ local'[f] = Append(local[f], fresh) /\ local[f] \in Seq(Frames)
      /\ \A g \in Frames \ {f, fresh} : local'[g] = local[g]
      /\ local'[fresh] = <<>>
  BY <1>1, <1>2 DEF FrameTypes
<1>4. Branches(f)' = Branches(f) \cup {fresh}
  <2>1. DOMAIN local'[f] = 1 .. Len(local[f]) + 1 /\ DOMAIN local[f] = 1 .. Len(local[f])
    BY <1>3
  <2>2. /\ \A i \in 1 .. Len(local[f]) : local'[f][i] = local[f][i]
        /\ local'[f][Len(local[f]) + 1] = fresh
    BY <1>3
  <2>3. Len(local[f]) \in Nat
    BY <1>3
  <2>. QED
    BY <2>1, <2>2, <2>3 DEF Branches
<1>5. Awaited'
  <2>1. ASSUME NEW g \in Frames \ {Entry}, kind'[g] \in Lists
        PROVE  /\ kind[g] \in Lists /\ parent'[g] = parent[g]
               /\ parent[g] \in Live' /\ pc'[parent[g]] = "child"
    <3>1. g # fresh
      BY <1>1, <1>2, <2>1 DEF FrameTypes, Lists
    <3>2. kind[g] \in Lists /\ parent'[g] = parent[g]
      BY <1>2, <2>1, <3>1 DEF FrameTypes
    <3>3. parent[g] \in Live /\ pc[parent[g]] = "child"
      BY <3>2 DEF Awaited
    <3>4. parent[g] # fresh /\ parent[g] # f
      BY <1>1, <3>3 DEF Live
    <3>. QED
      BY <1>2, <3>2, <3>3, <3>4 DEF Live, FrameTypes
  <2>. QED
    BY <2>1 DEF Awaited
<1>6. Known'
  <2>1. SUFFICES ASSUME NEW b \in Frames
                 PROVE  (/\ kind[b] = "branch" /\ parent[b] # 0 =>
                              parent[b] \in Frames /\ b \in Branches(parent[b])
                         /\ kind[b] \notin Lists => local[b] = <<>>)'
    BY DEF Known
  <2>2. CASE b = fresh
    BY <1>1, <1>2, <1>3, <1>4, <2>2 DEF FrameTypes
  <2>3. CASE b # fresh
    <3>1. kind'[b] = kind[b] /\ parent'[b] = parent[b]
      BY <1>2, <2>3 DEF FrameTypes
    <3>2. kind[b] \notin Lists => local'[b] = <<>>
      BY <1>3, <2>3 DEF Known
    <3>3. ASSUME kind[b] = "branch", parent[b] # 0
          PROVE  parent[b] \in Frames /\ (b \in Branches(parent[b]))'
      <4>1. parent[b] \in Frames /\ b \in Branches(parent[b])
        BY <3>3 DEF Known
      <4>2. local[parent[b]] # <<>>
        BY <4>1 DEF Branches
      <4>3. parent[b] # fresh
        BY <1>1, <4>1, <4>2 DEF Known, Lists
      <4>4. CASE parent[b] = f
        <5>1. b \in Branches(f)' /\ parent'[b] = f
          BY <1>4, <3>1, <4>1, <4>4
        <5>. QED
          BY <4>1, <5>1 DEF Branches
      <4>5. CASE parent[b] # f
        <5>1. local'[parent[b]] = local[parent[b]]
          BY <1>3, <4>1, <4>3, <4>5
        <5>. QED
          BY <3>1, <4>1, <5>1 DEF Branches
      <4>. QED
        BY <4>4, <4>5
    <3>. QED
      BY <3>1, <3>2, <3>3
  <2>. QED
    BY <2>2, <2>3
<1>7. DrainsJoined'
  <2>1. NoSite.op = "none"
    BY DEF NoSite
  <2>2. SUFFICES ASSUME NEW g \in Frames
                 PROVE  (/\ pc[g] = "draining" \/ site[g].op = "dispatch" => local[g] = <<>>
                         /\ site[g].op = "dispatch" => pc[g] \in Dispatching)'
    BY DEF DrainsJoined
  <2>3. CASE g \in {f, fresh}
    BY <1>1, <1>2, <2>1, <2>3 DEF FrameTypes
  <2>4. CASE g \notin {f, fresh}
    <3>1. pc'[g] = pc[g] /\ site'[g] = site[g] /\ local'[g] = local[g]
      BY <1>1, <1>2, <1>3, <2>4 DEF FrameTypes
    <3>. QED
      BY <3>1 DEF DrainsJoined, Dispatching
  <2>. QED
    BY <2>3, <2>4
<1>8. FreeIdle'
  BY <1>1, <1>2 DEF FreeIdle, FrameTypes, Live
<1>9. Reached'
  BY <1>1, <1>2, ReachedGrows
<1>. QED
  BY <1>5, <1>6, <1>7, <1>8, <1>9

(***************************************************************************)
(* A list is over: its frame goes, or has a drain to do, and the branches  *)
(* it owned are nobody's.  D is the frame that goes, if any.               *)
(***************************************************************************)
LEMMA TreeShrinks ==
  ASSUME FrameTypes, BranchesOwned, Tree, NEW f \in Live, kind[f] \in Lists, pc[f] # "child",
         NEW D \in SUBSET {f}, f \in D => f # Entry,
         \A g \in Frames : kind'[g] = IF g \in D THEN "free" ELSE kind[g],
         \A g \in Frames : parent'[g] = IF g \in Branches(f) THEN 0 ELSE parent[g],
         \A g \in Frames : local'[g] = IF g = f THEN <<>> ELSE local[g],
         \A g \in Frames : site'[g] = IF g = f THEN NoSite ELSE site[g],
         pc'[f] = IF f \in D THEN "ready" ELSE "draining",
         \A g \in Frames \ {f} :
           pc'[g] = pc[g] \/ (f \in D /\ g = parent[f] /\ pc'[g] = "returned")
  PROVE  Tree'
<1>. USE DEF Tree
<1>0. f \in Frames /\ f # 0 /\ kind[f] # "free"
  BY FrameNumbers DEF Live
<1>1. \A g \in Live \ {Entry} : parent[g] = f => kind[g] = "branch" /\ g \in Branches(f)
  BY <1>0, ParentLive
<1>2. f # Entry => parent[f] \in Live /\ pc[parent[f]] = "child"
  BY <1>0 DEF Awaited
<1>3. ASSUME NEW g \in Frames \ {Entry}, kind'[g] \in Lists
      PROVE  /\ kind[g] \in Lists /\ parent'[g] = parent[g]
             /\ parent[g] \in Live' /\ pc'[parent[g]] = "child"
  <2>1. g \notin D /\ kind[g] \in Lists
    BY <1>3 DEF Lists
  <2>2. parent[g] \in Live /\ pc[parent[g]] = "child" /\ parent[g] # f
    BY <2>1 DEF Awaited
  <2>3. g \notin Branches(f)
    BY <1>0, <2>2 DEF BranchesOwned
  <2>4. f \in D => parent[g] # parent[f]
    <3>1. SUFFICES ASSUME f \in D, parent[g] = parent[f] PROVE FALSE
      OBVIOUS
    <3>2. g = f
      BY <1>0, <2>1, <3>1 DEF Awaited
    <3>. QED
      BY <2>1, <3>1, <3>2
  <2>. QED
    BY <2>1, <2>2, <2>3, <2>4 DEF Live
<1>4. Awaited'
  BY <1>3 DEF Awaited
<1>5. Known'
  <2>1. SUFFICES ASSUME NEW b \in Frames
                 PROVE  (/\ kind[b] = "branch" /\ parent[b] # 0 =>
                              parent[b] \in Frames /\ b \in Branches(parent[b])
                         /\ kind[b] \notin Lists => local[b] = <<>>)'
    BY DEF Known
  <2>2. kind'[b] \notin Lists => local'[b] = <<>>
    BY DEF Known
  <2>3. ASSUME kind'[b] = "branch", parent'[b] # 0
        PROVE  parent'[b] \in Frames /\ (b \in Branches(parent[b]))'
    <3>1. kind[b] = "branch" /\ parent'[b] = parent[b] /\ b \notin Branches(f)
      BY <2>3
    <3>2. parent[b] \in Frames /\ b \in Branches(parent[b])
      BY <2>3, <3>1 DEF Known
    <3>3. parent[b] # f
      BY <3>1, <3>2
    <3>. QED
      BY <3>1, <3>2, <3>3 DEF Branches
  <2>. QED
    BY <2>2, <2>3
<1>6. DrainsJoined'
  <2>1. NoSite.op = "none"
    BY DEF NoSite
  <2>2. SUFFICES ASSUME NEW g \in Frames
                 PROVE  (/\ pc[g] = "draining" \/ site[g].op = "dispatch" => local[g] = <<>>
                         /\ site[g].op = "dispatch" => pc[g] \in Dispatching)'
    BY DEF DrainsJoined
  <2>3. CASE g = f
    BY <2>1, <2>3
  <2>4. CASE g # f
    BY <2>4 DEF DrainsJoined, Dispatching
  <2>. QED
    BY <2>3, <2>4
<1>7. FreeIdle'
  BY <1>0, <1>2 DEF FreeIdle, Live
<1>8. Reached'
  <2>1. SUFFICES ASSUME NEW S \in SUBSET Frames, Closed(S)' PROVE Live' \subseteq S
    BY DEF Reached
  <2>2. Live' = Live \ D
    BY DEF Live
  <2>3. Closed(S \cup D)
    <3>1. SUFFICES ASSUME NEW g \in Live, g \notin D,
                          g = Entry \/ parent[g] = 0 \/ parent[g] \in S \cup D
                   PROVE  g \in S
      BY DEF Closed
    <3>2. g \in Live' /\ g \in Frames
      BY <2>2, <3>1 DEF Live
    <3>3. CASE g = Entry
      BY <2>1, <3>2, <3>3 DEF Closed
    <3>4. CASE g # Entry /\ (parent[g] = 0 \/ parent[g] \in S)
      <4>1. parent'[g] = 0 \/ parent'[g] \in S
        BY <3>2, <3>4
      <4>. QED
        BY <2>1, <3>2, <4>1 DEF Closed
    <3>5. CASE g # Entry /\ parent[g] \in D
      <4>1. g \in Branches(f)
        BY <1>1, <3>5
      <4>2. parent'[g] = 0
        BY <3>2, <4>1
      <4>. QED
        BY <2>1, <3>2, <4>2 DEF Closed
    <3>. QED
      BY <3>1, <3>3, <3>4, <3>5
  <2>4. S \cup D \in SUBSET Frames
    BY <1>0
  <2>5. Live \subseteq S \cup D
    BY <2>3, <2>4 DEF Reached
  <2>. QED
    BY <2>2, <2>5
<1>. QED
  BY <1>4, <1>5, <1>6, <1>7, <1>8

\* A settled branch stays where it is; a list that ends goes.
LEMMA TreeEnds ==
  ASSUME Struct, TreeInv, outcome = "running", NEW f \in Live, pc[f] # "child", NEW st,
         Ends(f, st)
  PROVE  TreeInv'
<1>. USE DEF Struct
<1>0. Tree /\ f \in Frames /\ NoSite.op = "none"
  BY DEF TreeInv, Live, NoSite
<1>1. site' = [site EXCEPT ![f] = NoSite]
  BY DEF Ends
<1>2. CASE Settle(f, st)
  <2>1. /\ UNCHANGED <<kind, parent, local>> /\ pc' = [pc EXCEPT ![f] = "settled"]
    BY <1>2 DEF Settle
  <2>2. /\ pc'[f] = "settled" /\ site'[f] = NoSite
        /\ \A g \in Frames : g # f => pc'[g] = pc[g] /\ site'[g] = site[g]
    BY <1>0, <1>1, <2>1 DEF FrameTypes
  <2>3. Tree'
    BY <1>0, <2>1, <2>2, TreeMoves
  <2>. QED
    BY <2>3 DEF TreeInv
<1>3. CASE End(f, st) /\ f = Entry
  BY <1>3 DEF End, TreeInv
<1>4. CASE End(f, st) /\ f # Entry
  <2>1. /\ kind[f] # "branch"
        /\ kind' = [kind EXCEPT ![f] = "free"]
        /\ parent' = [g \in Frames |-> IF g \in Branches(f) THEN 0 ELSE parent[g]]
        /\ pc' = [g \in Frames |-> IF g = parent[f] THEN "returned"
                                   ELSE IF g = f THEN "ready" ELSE pc[g]]
        /\ local' = [local EXCEPT ![f] = <<>>]
    BY <1>4 DEF End
  <2>2. kind[f] \in Lists
    BY <1>0, <2>1 DEF Live, Lists, FrameTypes, Kinds
  <2>3. parent[f] # f
    BY <1>0, <1>4, <2>2 DEF Tree, Awaited
  <2>. DEFINE D == {f}
  <2>4. /\ \A g \in Frames : kind'[g] = IF g \in D THEN "free" ELSE kind[g]
        /\ \A g \in Frames : local'[g] = IF g = f THEN <<>> ELSE local[g]
        /\ \A g \in Frames : site'[g] = IF g = f THEN NoSite ELSE site[g]
    BY <1>1, <2>1 DEF FrameTypes
  <2>5. \A g \in Frames : parent'[g] = IF g \in Branches(f) THEN 0 ELSE parent[g]
    BY <2>1
  <2>6. /\ pc'[f] = IF f \in D THEN "ready" ELSE "draining"
        /\ \A g \in Frames \ {f} :
             pc'[g] = pc[g] \/ (f \in D /\ g = parent[f] /\ pc'[g] = "returned")
    BY <1>0, <2>1, <2>3
  <2>7. D \in SUBSET {f} /\ (f \in D => f # Entry)
    BY <1>4
  <2>. HIDE DEF D
  <2>8. Tree'
    BY <1>0, <2>2, <2>4, <2>5, <2>6, <2>7, TreeShrinks
  <2>. QED
    BY <2>8 DEF TreeInv
<1>. QED
  BY <1>2, <1>3, <1>4 DEF Ends

\* The branches of a list that goes on to its drain are joined, or detached by
\* an early return.
LEMMA TreeOver ==
  ASSUME Struct, TreeInv, outcome = "running", NEW f \in Live, pc[f] # "child", NEW st,
         ListOver(f, st), Left(f, st) = Branches(f)
  PROVE  TreeInv'
<1>. USE DEF Struct
<1>1. CASE Ends(f, st)
  BY <1>1, TreeEnds
<1>2. CASE ~Ends(f, st)
  <2>1. /\ kind[f] = "workflow" /\ kind' = kind
        /\ parent' = [g \in Frames |-> IF g \in Left(f, st) THEN 0 ELSE parent[g]]
        /\ pc' = [pc EXCEPT ![f] = "draining"]
        /\ site' = [site EXCEPT ![f] = NoSite]
        /\ local' = [local EXCEPT ![f] = <<>>]
    BY <1>2 DEF ListOver
  <2>2. Tree /\ f \in Frames /\ kind[f] \in Lists
    BY <2>1 DEF TreeInv, Live, Lists
  <2>. DEFINE D == {}
  <2>3. /\ \A g \in Frames : kind'[g] = IF g \in D THEN "free" ELSE kind[g]
        /\ \A g \in Frames : local'[g] = IF g = f THEN <<>> ELSE local[g]
        /\ \A g \in Frames : site'[g] = IF g = f THEN NoSite ELSE site[g]
    BY <2>1 DEF FrameTypes
  <2>4. \A g \in Frames : parent'[g] = IF g \in Branches(f) THEN 0 ELSE parent[g]
    BY <2>1
  <2>5. /\ pc'[f] = IF f \in D THEN "ready" ELSE "draining"
        /\ \A g \in Frames \ {f} :
             pc'[g] = pc[g] \/ (f \in D /\ g = parent[f] /\ pc'[g] = "returned")
    BY <2>1, <2>2 DEF FrameTypes
  <2>6. D \in SUBSET {f} /\ (f \in D => f # Entry)
    OBVIOUS
  <2>. HIDE DEF D
  <2>7. Tree'
    BY <2>2, <2>3, <2>4, <2>5, <2>6, TreeShrinks
  <2>. QED
    BY <2>7 DEF TreeInv
<1>. QED
  BY <1>1, <1>2

LEMMA TreeNext ==
  ASSUME Struct, TreeInv, outcome = "running", NEW f \in Live, pc[f] # "child", NEW st,
         NextStep(f, st)
  PROVE  TreeInv'
<1>1. CASE Ends(f, st)
  BY <1>1, TreeEnds
<1>2. CASE ~Ends(f, st)
  <2>1. /\ pc' = [pc EXCEPT ![f] = "ready"]
        /\ site' = [site EXCEPT ![f] = NoSite]
        /\ UNCHANGED <<kind, parent, local>>
    BY <1>2 DEF NextStep, frameVars
  <2>2. NoSite.op = "none"
    BY DEF NoSite
  <2>3. FrameTypes /\ Tree /\ f \in Frames
    BY DEF Struct, TreeInv, Live
  <2>4. Tree'
    BY <2>1, <2>2, <2>3, TreeMoves DEF FrameTypes
  <2>. QED
    BY <2>4 DEF TreeInv
<1>. QED
  BY <1>1, <1>2

\* A call whose arguments are awaited, the call itself or a body; a dispatch
\* is made by a frame that has joined its branches.
LEMMA TreeCalls ==
  ASSUME Struct, TreeInv, outcome = "running", NEW f \in Live, pc[f] # "child", NEW step,
         step.op = "dispatch" => local[f] = <<>>,
         \/ Starts(f, step) \/ RunList(f, step)
         \/ Invoke(f, step) /\ step = site[f]
  PROVE  TreeInv'
<1>0. FrameTypes /\ Tree /\ f \in Frames
  BY DEF Struct, TreeInv, Live
<1>1. CASE CallWorkflow(f, step) \/ RunList(f, step)
  <2>1. Tree'
    BY <1>0, <1>1, TreeNested DEF CallWorkflow, RunList, Lists
  <2>. QED
    BY <2>1 DEF TreeInv
<1>2. CASE Starts(f, step) \/ (step = site[f] /\ (CallRefused(f, step) \/ CallScript(f, step)))
  <2>1. /\ UNCHANGED <<kind, parent, local>>
        /\ \/ pc' = [pc EXCEPT ![f] = "starting"]
           \/ pc' = [pc EXCEPT ![f] = "returned"]
           \/ pc' = [pc EXCEPT ![f] = "script"]
    BY <1>2 DEF Starts, CallRefused, CallScript, frameVars
  <2>2. site' = [site EXCEPT ![f] = step] \/ (site' = site /\ step = site[f])
    BY <1>2 DEF Starts, CallRefused, CallScript
  <2>3. /\ pc'[f] \in Dispatching \ {"draining"}
        /\ \A g \in Frames : g # f => pc'[g] = pc[g]
    BY <1>0, <2>1 DEF FrameTypes, Dispatching
  <2>4. site'[f] = step /\ \A g \in Frames : g # f => site'[g] = site[g]
    BY <1>0, <2>2 DEF FrameTypes
  <2>5. Tree'
    BY <1>0, <2>1, <2>3, <2>4, TreeMoves
  <2>. QED
    BY <2>5 DEF TreeInv
<1>. QED
  BY <1>1, <1>2 DEF Invoke

\* Only a frame that begins a step or gets one back acts.
LEMMA ActorLives ==
  ASSUME TreeInv, outcome = "running", NEW f \in Frames, pc[f] # "ready"
  PROVE  f \in Live
BY DEF TreeInv, Tree, FreeIdle, Live

\* The frame moves on by itself.
LEMMA TreePosition ==
  ASSUME Struct, TreeInv, outcome = "running", NEW f \in Live, pc[f] # "child",
         UNCHANGED <<kind, parent, local>>,
         NEW at, NEW step, at = "draining" => local[f] = <<>>, step.op # "dispatch",
         pc' = [pc EXCEPT ![f] = at], site' = [site EXCEPT ![f] = step]
  PROVE  TreeInv'
<1>1. FrameTypes /\ Tree /\ f \in Frames
  BY DEF Struct, TreeInv, Live
<1>2. /\ pc'[f] = at /\ site'[f] = step
      /\ \A g \in Frames : g # f => pc'[g] = pc[g] /\ site'[g] = site[g]
  BY <1>1 DEF FrameTypes
<1>3. Tree'
  BY <1>1, <1>2, TreeMoves
<1>. QED
  BY <1>3 DEF TreeInv

LEMMA StepsTree ==
  ASSUME IInv, TreeInv, NEW f \in Frames, Steps(f)
  PROVE  TreeInv'
<1>. USE DEF IInv
<1>1. outcome = "running" /\ pc[f] = "ready" /\ kind[f] \in Lists /\ f \in Live
  BY DEF Steps, TripMaxSteps, FailStep, ReturnStep, BodyStep, RunStep, RunAsyncStep,
         SendStep, SendCallStep, EndOfList, Counted, HasTurn, Live, Lists
<1>2. CASE TripMaxSteps(f) \/ FailStep(f) \/ ReturnStep(f)
  BY <1>1, <1>2, TreeEnds, TreeOver DEF TripMaxSteps, FailStep, ReturnStep, Left
<1>3. CASE BodyStep(f)
  <2>1. [NoSite EXCEPT !.op = "list"].op = "list"
    BY DEF NoSite
  <2>. QED
    BY <1>1, <1>3, <2>1, TreeCalls DEF BodyStep
<1>4. ASSUME NEW callee, NEW h, RunStep(f, callee, h) PROVE TreeInv'
  <2>1. [NoSite EXCEPT !.op = "run", !.callee = callee, !.handler = h,
                       !.left = LimitOf(h)].op = "run"
    BY DEF NoSite
  <2>. QED
    BY <1>1, <1>4, <2>1, TreeCalls DEF RunStep
<1>5. ASSUME NEW callee, NEW h, RunAsyncStep(f, callee, h) PROVE TreeInv'
  <2>1. [NoSite EXCEPT !.op = "run", !.callee = callee, !.handler = h,
                       !.left = LimitOf(h)].op = "run"
    BY DEF NoSite
  <2>2. FrameTypes /\ Tree
    BY <1>1 DEF Struct, TreeInv
  <2>3. Tree'
    BY <1>1, <1>5, <2>1, <2>2, TreeBranches DEF RunAsyncStep
  <2>. QED
    BY <2>3 DEF TreeInv
<1>6. ASSUME NEW ch, SendStep(f, ch) PROVE TreeInv'
  <2>1. [NoSite EXCEPT !.op = "send", !.chan = ch, !.ctx = topCtx].op = "send"
    BY DEF NoSite
  <2>. QED
    BY <1>1, <1>6, <2>1, TreePosition DEF SendStep, frameVars
<1>7. ASSUME NEW ch, NEW callee, SendCallStep(f, ch, callee) PROVE TreeInv'
  <2>1. [NoSite EXCEPT !.op = "send", !.callee = callee, !.chan = ch, !.ctx = topCtx].op = "send"
    BY DEF NoSite
  <2>. QED
    BY <1>1, <1>7, <2>1, TreeCalls DEF SendCallStep
<1>8. CASE EndOfList(f) /\ Branches(f) # {}
  <2>1. pc' = [pc EXCEPT ![f] = "joining"] /\ UNCHANGED <<kind, parent, local, site>>
    BY <1>8 DEF EndOfList, frameVars
  <2>2. FrameTypes /\ Tree
    BY <1>1 DEF Struct, TreeInv
  <2>3. /\ \A g \in Frames : g # f => pc'[g] = pc[g] /\ site'[g] = site[g]
        /\ pc'[f] # "draining" /\ site'[f] = site[f]
    BY <1>1, <2>1, <2>2 DEF FrameTypes
  <2>4. site[f].op # "dispatch"
    BY <1>1, <2>2 DEF Tree, DrainsJoined, Dispatching
  <2>5. Tree'
    BY <1>1, <2>1, <2>2, <2>3, <2>4, TreeMoves
  <2>. QED
    BY <2>5 DEF TreeInv
<1>9. CASE EndOfList(f) /\ Branches(f) = {}
  <2>1. Left(f, "ok") = Branches(f)
    BY <1>9 DEF Left, Settled
  <2>. QED
    BY <1>1, <1>9, <2>1, TreeOver DEF EndOfList
<1>. QED
  BY <1>2, <1>3, <1>4, <1>5, <1>6, <1>7, <1>8, <1>9 DEF Steps

LEMMA ResumesTree ==
  ASSUME IInv, TreeInv, NEW f \in Frames, Resumes(f)
  PROVE  TreeInv'
<1>. USE DEF IInv
<1>1. outcome = "running" /\ pc[f] \notin {"ready", "child"}
  BY DEF Resumes, Read, Enter, Starting, ReadResolves, Join, DrainNested, RunReturned,
         HandlerReturned, BodyReturned, PayloadReturned, Returned, HasTurn
<1>2. f \in Live /\ FrameTypes /\ Tree
  BY <1>1, ActorLives DEF Struct, TreeInv
<1>3. CASE Enter(f)
  <2>1. site[f].op = "dispatch" => local[f] = <<>>
    BY <1>2 DEF Tree, DrainsJoined
  <2>. QED
    BY <1>1, <1>2, <1>3, <2>1, TreeCalls DEF Enter
<1>4. CASE ReadResolves(f) \/ \E b \in Frames : Read(f, b)
  <2>1. ASSUME NEW at, NEW b, at # "draining", site[f].op # "dispatch",
               pc' = [pc EXCEPT ![f] = at], site' = [site EXCEPT ![f].reads = b],
               UNCHANGED <<kind, parent, local>>
        PROVE  TreeInv'
    <3>. DEFINE step == [site[f] EXCEPT !.reads = b]
    <3>1. site' = [site EXCEPT ![f] = step] /\ step.op = site[f].op
      BY <1>2, <2>1 DEF FrameTypes, Sites
    <3>. HIDE DEF step
    <3>. QED
      BY <1>1, <1>2, <2>1, <3>1, TreePosition
  <2>2. CASE ReadResolves(f)
    <3>1. pc[f] = "reading"
      BY <2>2 DEF ReadResolves
    <3>2. site[f].op # "dispatch"
      BY <1>2, <3>1 DEF Tree, DrainsJoined, Dispatching
    <3>. QED
      BY <2>1, <2>2, <3>2 DEF ReadResolves
  <2>3. CASE \E b \in Frames : Read(f, b)
    BY <2>1, <2>3 DEF Read, frameVars
  <2>. QED
    BY <1>4, <2>2, <2>3
<1>5. CASE Join(f)
  <2>1. Left(f, JoinedResult(Branches(f))) = Branches(f)
    BY <1>5 DEF Join, Left
  <2>. QED
    BY <1>1, <1>2, <1>5, <2>1, TreeOver DEF Join
<1>6. CASE DrainNested(f)
  BY <1>1, <1>2, <1>6, TreeEnds DEF DrainNested
<1>7. ASSUME NEW st, RunReturned(f, st) PROVE TreeInv'
  <2>1. [site[f] EXCEPT !.op = "body", !.left = @ - 1].op # "dispatch"
    BY <1>2 DEF FrameTypes, Sites
  <2>. QED
    BY <1>1, <1>2, <1>7, <2>1, TreeNext, TreeEnds, TreeCalls DEF RunReturned
<1>8. ASSUME NEW st, HandlerReturned(f, st) PROVE TreeInv'
  <2>1. [site[f] EXCEPT !.op = "run"].op # "dispatch"
    BY <1>2 DEF FrameTypes, Sites
  <2>. QED
    BY <1>1, <1>2, <1>8, <2>1, TreeNext, TreeEnds, TreeOver, TreeCalls DEF HandlerReturned, Left
<1>9. ASSUME NEW st, BodyReturned(f, st) PROVE TreeInv'
  BY <1>1, <1>2, <1>9, TreeNext, TreeEnds, TreeOver DEF BodyReturned, Left
<1>10. ASSUME NEW st, PayloadReturned(f, st) PROVE TreeInv'
  <2>1. NoSite.op = "none"
    BY DEF NoSite
  <2>. QED
    BY <1>1, <1>2, <1>10, <2>1, TreeEnds, TreePosition DEF PayloadReturned, frameVars
<1>. QED
  BY <1>3, <1>4, <1>5, <1>6, <1>7, <1>8, <1>9, <1>10 DEF Resumes

LEMMA DrainsTree ==
  ASSUME IInv, TreeInv, Drains
  PROVE  TreeInv'
<1>. USE DEF IInv
<1>1. outcome = "running" /\ pc[Entry] \notin {"ready", "child"}
  BY DEF Drains, DrainOver, DrainLimitHit, Dispatch, NextMessage, Draining, DispatchReturned,
         Returned, HasTurn
<1>2. Entry \in Live /\ FrameTypes /\ Tree
  BY <1>1, EntryIsFrame, ActorLives DEF Struct, TreeInv
<1>3. CASE DrainOver \/ DrainLimitHit
  BY <1>1, <1>2, <1>3, TreeEnds DEF DrainOver, DrainLimitHit
<1>4. CASE Dispatch
  <2>1. local[Entry] = <<>>
    BY <1>2, <1>4, EntryIsFrame DEF Dispatch, Draining, Tree, DrainsJoined
  <2>. QED
    BY <1>1, <1>2, <1>4, <2>1, TreeCalls DEF Dispatch
<1>5. CASE NextMessage
  <2>1. UNCHANGED <<kind, parent, pc, site, local, outcome>>
    BY <1>5 DEF NextMessage, frameVars
  <2>2. Tree'
    BY <1>2, <2>1 DEF Tree, Awaited, Known, DrainsJoined, FreeIdle, Reached, Closed, Live, Branches
  <2>. QED
    BY <2>2 DEF TreeInv
<1>6. ASSUME NEW st, DispatchReturned(st) PROVE TreeInv'
  <2>1. CASE Ends(Entry, "fail")
    BY <1>1, <1>2, <2>1, TreeEnds
  <2>2. CASE ~Ends(Entry, "fail")
    <3>1. site[Entry].op = "dispatch" /\ local[Entry] = <<>>
      BY <1>2, <1>6, EntryIsFrame DEF DispatchReturned, Returned, Tree, DrainsJoined
    <3>2. NoSite.op = "none"
      BY DEF NoSite
    <3>3. /\ pc' = [pc EXCEPT ![Entry] = "draining"] /\ site' = [site EXCEPT ![Entry] = NoSite]
          /\ UNCHANGED <<kind, parent, local>>
      BY <1>6, <2>2 DEF DispatchReturned, frameVars
    <3>. QED
      BY <1>1, <1>2, <3>1, <3>2, <3>3, TreePosition
  <2>. QED
    BY <2>1, <2>2
<1>. QED
  BY <1>3, <1>4, <1>5, <1>6 DEF Drains

LEMMA InitTree == Init => TreeInv
<1>1. SUFFICES ASSUME Init PROVE Tree
  BY DEF TreeInv
<1>2. Live = {Entry} /\ NoSite.op = "none"
  BY <1>1, EntryIsFrame DEF Init, Live, NoSite
<1>3. Awaited /\ Known /\ FreeIdle
  BY <1>1, EntryIsFrame DEF Init, Awaited, Known, FreeIdle, Lists
<1>4. DrainsJoined
  BY <1>1, <1>2 DEF Init, DrainsJoined
<1>5. Reached
  BY <1>2 DEF Reached, Closed
<1>. QED
  BY <1>3, <1>4, <1>5 DEF Tree

\* Control reaches every live frame from the entry and the detached branches,
\* whatever the program starts, joins, abandons or retries.
THEOREM ControlTree == SafeSpec => []TreeInv
<1>1. IInv /\ TreeInv /\ [Next]_<<program, vars>> => TreeInv'
  <2>1. SUFFICES ASSUME IInv, TreeInv, [Next]_<<program, vars>> PROVE TreeInv'
    OBVIOUS
  <2>2. CASE \E f \in Frames : Steps(f) \/ Resumes(f)
    BY <2>1, <2>2, StepsTree, ResumesTree
  <2>3. CASE Drains
    BY <2>1, <2>3, DrainsTree
  <2>4. CASE Hangs \/ Exited \/ UNCHANGED vars
    <3>1. UNCHANGED <<kind, parent, pc, site, local, outcome>>
      BY <2>4 DEF Hangs, Exited, vars
    <3>. QED
      BY <2>1, <3>1 DEF TreeInv, Tree, Awaited, Known, DrainsJoined, FreeIdle, Reached, Closed,
                        Live, Branches
  <2>. QED
    BY <2>1, <2>2, <2>3, <2>4 DEF Next, Continues
<1>. QED
  BY <1>1, InitTree, Invariance, PTL DEF SafeSpec

\* Producers first: whenever the entry drains, and no branch was left behind
\* by an early return or a failure, no other frame of the run is at work: what
\* is there still are handles that have settled.
THEOREM RunsAlone == SafeSpec => []ConsumersRunAlone
<1>. DEFINE Handles == {b \in Live : kind[b] = "branch" /\ pc[b] = "settled"}
<1>1. IInv /\ DrainInv /\ TreeInv => ConsumersRunAlone
  <2>1. SUFFICES ASSUME IInv, Tree, pc[Entry] = "draining", Detached = {}
                 PROVE  Live \subseteq Handles \cup {Entry}
    BY DEF DrainInv, TreeInv, ConsumersRunAlone, Live
  <2>2. FrameTypes /\ local[Entry] = <<>>
    BY <2>1, EntryIsFrame DEF IInv, Struct, Tree, DrainsJoined
  <2>3. ASSUME NEW g \in Live, g # Entry, parent[g] = 0 PROVE g \in Handles
    <3>1. g \in Frames /\ kind[g] \in Lists \cup {"branch"}
      BY <2>2 DEF Live, Lists, FrameTypes, Kinds
    <3>2. kind[g] \notin Lists
      <4>1. 0 \notin Live
        BY FrameNumbers DEF Live
      <4>. QED
        BY <2>1, <2>3, <3>1, <4>1 DEF Tree, Awaited
    <3>. QED
      BY <2>1, <2>3, <3>1, <3>2 DEF Detached
  <2>4. ASSUME NEW g \in Live, g # Entry, parent[g] \in Handles \cup {Entry} PROVE FALSE
    <3>1. parent[g] # 0 /\ parent[g] \in Frames
      BY <2>4, EntryIsFrame, FrameNumbers DEF Live
    <3>2. pc[parent[g]] # "child" /\ (kind[parent[g]] \in Lists => parent[g] = Entry)
      BY <2>1, <2>4 DEF Lists
    <3>3. g \in Branches(Entry)
      BY <2>1, <2>2, <2>4, <3>1, <3>2, ParentLive DEF Tree
    <3>. QED
      BY <2>2, <3>3 DEF Branches
  <2>5. Closed(Handles \cup {Entry})
    BY <2>3, <2>4 DEF Closed
  <2>6. Handles \cup {Entry} \in SUBSET Frames
    BY EntryIsFrame DEF Live
  <2>. QED
    BY <2>1, <2>5, <2>6 DEF Tree, Reached
<1>. QED
  BY <1>1, ControlTree, DrainKept, Invariance, PTL

=============================================================================
