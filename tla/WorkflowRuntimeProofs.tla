----------------------- MODULE WorkflowRuntimeProofs -----------------------
(***************************************************************************)
(* Safety of the interpreter for every program, any number of branches and *)
(* any interleaving of them: the context stack all branches share always   *)
(* holds one context per running workflow with the entry's at the bottom,  *)
(* and so no message on a routed channel is ever queued where nobody       *)
(* drains it.                                                              *)
(*                                                                         *)
(* The actions are built from a few shapes - a frame begins, a frame ends, *)
(* a list is over, a step is done - and each shape has one lemma.          *)
(***************************************************************************)
EXTENDS WorkflowRuntime, FiniteSetTheorems, TLAPS

(***************************************************************************)
(* The inductive invariant.  A popped stack keeps the entry's context only *)
(* because pops and ended workflows are counted one for one, and a frame   *)
(* that ends detaches the branches it owns and nobody else's.              *)
(***************************************************************************)
FrameTypes ==
  /\ kind \in [Frames -> Kinds]
  /\ name \in [Frames -> Workflows]
  /\ parent \in [Frames -> 0 .. MaxFrames]
  /\ depth \in [Frames -> Nat]
  /\ pc \in [Frames -> PCs]
  /\ site \in [Frames -> Sites]
  /\ res \in [Frames -> Outcomes]
  /\ local \in [Frames -> Seq(Frames)]
  /\ queue \in [Frames -> Seq(Messages)]
  /\ workflowCtxStack \in Seq(Frames)
  /\ scope \in [Frames -> Frames]
  /\ holds \in [Frames -> SUBSET Frames]
  /\ turn \in 0 .. MaxFrames

OutcomeType == outcome \in {"running", "ok", "fail"}

CounterTypes ==
  /\ handleIdCounter \in 0 .. MaxBranches
  /\ stepsExecuted \in 0 .. MaxSteps
  /\ cursor \in Nat
  /\ target \in Nat
  /\ OutcomeType

BranchesOwned ==
  \A f \in Frames : \A b \in Branches(f) : kind[b] = "branch" /\ parent[b] = f

EntryRuns == outcome = "running" => kind[Entry] = "workflow"

Struct ==
  /\ FrameTypes
  /\ BranchesOwned
  /\ EntryRuns
  /\ EntryContextAtBottom
  /\ RoutedReachEntry

IInv == Struct /\ CounterTypes

\* The program is fixed when the run starts.
ProgramType == program \in Programs

-----------------------------------------------------------------------------
LEMMA EntryIsFrame == Entry \in Frames /\ IsFiniteSet(Frames)
<1>1. MaxFrames \in Nat \ {0}
  BY RuntimeAssumption
<1>2. IsFiniteSet(1 .. MaxFrames)
  BY <1>1, FS_Interval
<1>. QED
  BY <1>1, <1>2 DEF Entry, Frames

LEMMA LiveFinite == IsFiniteSet(LiveWorkflows) /\ Cardinality(LiveWorkflows) \in Nat
<1>1. LiveWorkflows \subseteq Frames
  BY DEF LiveWorkflows
<1>. QED
  BY <1>1, EntryIsFrame, FS_Subset, FS_CardinalityType

\* Any frame may hold control.
LEMMA FrameNumbers == \A f \in Frames : f \in 0 .. MaxFrames /\ f # 0
BY RuntimeAssumption DEF Frames

\* The empty step is well formed.
LEMMA NoSiteType == NoSite \in Sites
<1>1. (CHOOSE ch \in Channels : TRUE) \in Channels
  BY RuntimeAssumption
<1>2. 0 \in 0 .. MaxFrames
  BY RuntimeAssumption
<1>. QED
  BY <1>1, <1>2 DEF NoSite, Sites, Ops, Targets

\* The frame taken for a new one is free, and so neither the entry nor
\* anybody's branch.
LEMMA FreshIsFree ==
  ASSUME FrameTypes, Unused # {}
  PROVE  fresh \in Frames /\ kind[fresh] = "free"
<1>1. fresh \in Unused
  BY DEF fresh
<1>. QED
  BY <1>1 DEF Unused

(***************************************************************************)
(* A frame begins.                                                         *)
(***************************************************************************)
LEMMA BeginTypes ==
  ASSUME FrameTypes,
         NEW f \in Frames, NEW k \in Kinds, NEW nm \in Workflows, NEW dep \in Nat,
         NEW where \in PCs, NEW at \in PCs, NEW step \in Sites,
         Begin(f, k, nm, dep, where, at, step)
  PROVE  /\ kind' \in [Frames -> Kinds]
         /\ name' \in [Frames -> Workflows]
         /\ parent' \in [Frames -> 0 .. MaxFrames]
         /\ depth' \in [Frames -> Nat]
         /\ pc' \in [Frames -> PCs]
         /\ site' \in [Frames -> Sites]
         /\ local' \in [Frames -> Seq(Frames)]
         /\ queue' \in [Frames -> Seq(Messages)]
         /\ scope' \in [Frames -> Frames]
         /\ holds' \in [Frames -> SUBSET Frames]
<1>1. fresh \in Frames
  BY FreshIsFree DEF Begin
<1>2. f \in 0 .. MaxFrames
  BY RuntimeAssumption DEF Frames
<1>3. <<>> \in Seq(Frames) /\ <<>> \in Seq(Messages)
  OBVIOUS
<1>4. Append(local[f], fresh) \in Seq(Frames)
  BY <1>1 DEF FrameTypes
<1>5. local' \in [Frames -> Seq(Frames)]
  <2>1. CASE k = "branch"
    BY <1>1, <1>3, <1>4, <2>1 DEF Begin, FrameTypes
  <2>2. CASE k # "branch"
    BY <1>1, <1>3, <2>2 DEF Begin, FrameTypes
  <2>. QED
    BY <2>1, <2>2
<1>6. site' \in [Frames -> Sites]
  BY NoSiteType DEF Begin, FrameTypes
<1>7. parent' \in [Frames -> 0 .. MaxFrames]
  BY <1>2 DEF Begin, FrameTypes
<1>8. queue' \in [Frames -> Seq(Messages)]
  BY <1>3 DEF Begin, FrameTypes
<1>9. scope' \in [Frames -> Frames]
  BY <1>1 DEF Begin, FrameTypes
<1>10. holds' \in [Frames -> SUBSET Frames]
  <2>1. holds[scope[f]] \cup (IF k = "branch" THEN {fresh} ELSE {}) \in SUBSET Frames
    BY <1>1 DEF FrameTypes
  <2>. QED
    BY <2>1 DEF Begin, FrameTypes
<1>. QED
  BY <1>5, <1>6, <1>7, <1>8, <1>9, <1>10 DEF Begin, FrameTypes

\* A new branch is its owner's; nobody else gains or loses one.
LEMMA BeginOwned ==
  ASSUME FrameTypes, BranchesOwned,
         NEW f \in Frames, NEW k \in Kinds, NEW nm \in Workflows, NEW dep \in Nat,
         NEW where \in PCs, NEW at \in PCs, NEW step \in Sites,
         Begin(f, k, nm, dep, where, at, step)
  PROVE  BranchesOwned'
<1>1. fresh \in Frames /\ kind[fresh] = "free"
  BY FreshIsFree DEF Begin
<1>2. SUFFICES ASSUME NEW g \in Frames, NEW i \in DOMAIN local'[g]
               PROVE  kind'[local'[g][i]] = "branch" /\ parent'[local'[g][i]] = g
  BY DEF BranchesOwned, Branches
<1>3. \A h \in Frames : \A j \in DOMAIN local[h] :
        /\ local[h][j] \in Frames
        /\ kind[local[h][j]] = "branch" /\ parent[local[h][j]] = h
        /\ local[h][j] # fresh
  <2>1. TAKE h \in Frames
  <2>2. TAKE j \in DOMAIN local[h]
  <2>3. local[h] \in Seq(Frames)
    BY DEF FrameTypes
  <2>4. local[h][j] \in Frames /\ local[h][j] \in Branches(h)
    BY <2>3 DEF Branches
  <2>. QED
    BY <1>1, <2>4 DEF BranchesOwned
<1>4. \A h \in Frames \ {fresh} :
         /\ kind'[h] = kind[h]
         /\ parent'[h] = parent[h]
  BY DEF Begin, FrameTypes
<1>5. kind'[fresh] = k /\ parent'[fresh] = f
  BY <1>1 DEF Begin, FrameTypes
<1>6. CASE g = fresh /\ g # f
  <2>1. local'[g] = <<>>
    BY <1>1, <1>6 DEF Begin, FrameTypes
  <2>. QED
    BY <2>1
<1>7. CASE g = f /\ k = "branch"
  <2>. DEFINE old == IF f = fresh THEN <<>> ELSE local[f]
  <2>1. local'[g] = Append(old, fresh)
    <3>1. local' = [local EXCEPT ![fresh] = <<>>, ![f] = Append(@, fresh)]
      BY <1>7 DEF Begin
    <3>. QED
      BY <1>1, <1>7, <3>1 DEF FrameTypes
  <2>2. old \in Seq(Frames)
    BY DEF FrameTypes
  <2>. HIDE DEF old
  <2>3. CASE i = Len(old) + 1
    <3>1. local'[g][i] = fresh
      BY <1>1, <2>1, <2>2, <2>3
    <3>. QED
      BY <1>5, <1>7, <3>1
  <2>4. CASE i # Len(old) + 1
    <3>1. i \in DOMAIN old /\ local'[g][i] = old[i]
      BY <1>1, <1>2, <2>1, <2>2, <2>4
    <3>2. f # fresh /\ old = local[f]
      BY <3>1 DEF old
    <3>. QED
      BY <1>3, <1>4, <1>7, <3>1, <3>2
  <2>. QED
    BY <2>3, <2>4
<1>8. CASE g # fresh /\ ~(g = f /\ k = "branch")
  <2>1. local'[g] = local[g]
    BY <1>1, <1>8 DEF Begin, FrameTypes
  <2>. QED
    BY <1>2, <1>3, <1>4, <2>1
<1>9. CASE g = fresh /\ g = f /\ k # "branch"
  <2>1. local'[g] = <<>>
    BY <1>1, <1>9 DEF Begin, FrameTypes
  <2>. QED
    BY <2>1
<1>. QED
  BY <1>6, <1>7, <1>8, <1>9

(***************************************************************************)
(* Contexts and queues                                                     *)
(***************************************************************************)

\* A step that begins or ends no workflow leaves the contexts as they are.
LEMMA ContextsKept ==
  ASSUME EntryRuns, EntryContextAtBottom,
         LiveWorkflows' = LiveWorkflows,
         kind'[Entry] = kind[Entry],
         UNCHANGED <<workflowCtxStack, outcome>>
  PROVE  EntryRuns' /\ EntryContextAtBottom'
BY DEF EntryRuns, EntryContextAtBottom

\* A workflow that begins pushes its context.
LEMMA ContextPushed ==
  ASSUME FrameTypes, EntryRuns, EntryContextAtBottom,
         fresh \in Frames, kind[fresh] = "free",
         kind' = [kind EXCEPT ![fresh] = "workflow"],
         workflowCtxStack' = Append(workflowCtxStack, fresh),
         UNCHANGED outcome
  PROVE  EntryRuns' /\ EntryContextAtBottom'
<1>1. LiveWorkflows' = LiveWorkflows \cup {fresh} /\ fresh \notin LiveWorkflows
  BY DEF LiveWorkflows, FrameTypes
<1>2. Cardinality(LiveWorkflows') = Cardinality(LiveWorkflows) + 1
  BY <1>1, LiveFinite, FS_AddElement
<1>3. workflowCtxStack \in Seq(Frames)
  BY DEF FrameTypes
<1>4. Len(workflowCtxStack') = Len(workflowCtxStack) + 1
  BY <1>3
<1>5. workflowCtxStack # <<>> => workflowCtxStack' # <<>> /\ workflowCtxStack'[1] = workflowCtxStack[1]
  BY <1>3
<1>6. EntryRuns'
  BY DEF EntryRuns, FrameTypes
<1>. QED
  BY <1>2, <1>4, <1>5, <1>6 DEF EntryContextAtBottom

\* A workflow that ends pops one context, whoever owns it; the entry's own
\* stays because the entry still runs.
LEMMA ContextPopped ==
  ASSUME FrameTypes, EntryRuns, EntryContextAtBottom,
         NEW f \in Frames, f # Entry, kind[f] = "workflow",
         LiveWorkflows' = LiveWorkflows \ {f},
         kind'[Entry] = kind[Entry],
         workflowCtxStack' = SubSeq(workflowCtxStack, 1, Len(workflowCtxStack) - 1),
         UNCHANGED outcome
  PROVE  EntryRuns' /\ EntryContextAtBottom'
<1>1. EntryRuns'
  BY DEF EntryRuns
<1>2. SUFFICES ASSUME outcome = "running"
               PROVE  /\ Len(workflowCtxStack') = Cardinality(LiveWorkflows')
                      /\ workflowCtxStack' # <<>> /\ workflowCtxStack'[1] = Entry
  BY <1>1 DEF EntryContextAtBottom
<1>3. f \in LiveWorkflows
  BY DEF LiveWorkflows
<1>4. Cardinality(LiveWorkflows') = Cardinality(LiveWorkflows) - 1
  BY <1>3, LiveFinite, FS_RemoveElement
<1>5. Entry \in LiveWorkflows'
  BY <1>2, EntryIsFrame DEF LiveWorkflows, EntryRuns
<1>6. Cardinality(LiveWorkflows') \in Nat /\ Cardinality(LiveWorkflows') # 0
  <2>1. IsFiniteSet(LiveWorkflows')
    BY LiveFinite, FS_RemoveElement
  <2>. QED
    BY <1>5, <2>1, FS_CardinalityType, FS_EmptySet
<1>7. workflowCtxStack \in Seq(Frames) /\ Len(workflowCtxStack) = Cardinality(LiveWorkflows)
  BY <1>2 DEF FrameTypes, EntryContextAtBottom
<1>8. Len(workflowCtxStack) \in Nat /\ Len(workflowCtxStack) >= 2
  BY <1>4, <1>6, <1>7, LiveFinite
<1>9. /\ Len(workflowCtxStack') = Len(workflowCtxStack) - 1
      /\ workflowCtxStack'[1] = workflowCtxStack[1]
  BY <1>7, <1>8
<1>. QED
  BY <1>2, <1>4, <1>7, <1>8, <1>9 DEF EntryContextAtBottom

\* Queues that stay, or are those of a new frame, hold no routed message.
LEMMA QueuesKept ==
  ASSUME RoutedReachEntry,
         \A g \in Frames : queue'[g] = queue[g] \/ queue'[g] = <<>>
  PROVE  RoutedReachEntry'
BY DEF RoutedReachEntry

-----------------------------------------------------------------------------
(***************************************************************************)
(* The shapes                                                              *)
(***************************************************************************)
LEMMA BeginQueues ==
  ASSUME FrameTypes,
         NEW f \in Frames, NEW k \in Kinds, NEW nm \in Workflows, NEW dep \in Nat,
         NEW where \in PCs, NEW at \in PCs, NEW step \in Sites,
         Begin(f, k, nm, dep, where, at, step)
  PROVE  \A g \in Frames : queue'[g] = queue[g] \/ queue'[g] = <<>>
BY DEF Begin, FrameTypes

\* A step that calls its target keeps the structure: a workflow pushes its
\* context, a refused one and a script leave all contexts alone.
LEMMA InvokeKeeps ==
  ASSUME Struct, UNCHANGED outcome,
         NEW f \in Frames, NEW step \in Sites,
         Invoke(f, step)
  PROVE  Struct'
<1>. USE DEF Struct
<1>1. CASE CallWorkflow(f, step)
  <2>1. /\ step.callee \in Workflows
        /\ Begin(f, "workflow", step.callee, depth[f] + 1, "child", "ready", step)
        /\ workflowCtxStack' = Append(workflowCtxStack, fresh)
        /\ turn' = fresh
        /\ UNCHANGED res
    BY <1>1 DEF CallWorkflow
  <2>2. /\ "workflow" \in Kinds /\ "child" \in PCs /\ "ready" \in PCs
        /\ depth[f] + 1 \in Nat
    BY DEF Kinds, PCs, FrameTypes
  <2>3. fresh \in Frames /\ kind[fresh] = "free"
    BY <2>1, FreshIsFree DEF Begin
  <2>4. workflowCtxStack' \in Seq(Frames)
    BY <2>1, <2>3 DEF FrameTypes
  <2>5. FrameTypes'
    <3>1. turn' \in 0 .. MaxFrames
      BY <2>1, <2>3, FrameNumbers
    <3>. QED
      BY <2>1, <2>2, <2>4, <3>1, BeginTypes DEF FrameTypes
  <2>6. BranchesOwned'
    BY <2>1, <2>2, BeginOwned
  <2>7. kind' = [kind EXCEPT ![fresh] = "workflow"]
    BY <2>1 DEF Begin
  <2>8. EntryRuns' /\ EntryContextAtBottom'
    BY <2>1, <2>3, <2>7, ContextPushed
  <2>9. RoutedReachEntry'
    BY <2>1, <2>2, BeginQueues, QueuesKept
  <2>. QED
    BY <2>5, <2>6, <2>8, <2>9
<1>2. CASE CallRefused(f, step)
  <2>1. UNCHANGED <<kind, name, parent, depth, scope, holds, site, local, queue, workflowCtxStack>>
    BY <1>2 DEF CallRefused, frameVars
  <2>2. FrameTypes'
    BY <1>2, <2>1, RuntimeAssumption DEF CallRefused, FrameTypes, PCs, Outcomes
  <2>3. BranchesOwned' /\ RoutedReachEntry'
    BY <2>1 DEF BranchesOwned, Branches, RoutedReachEntry
  <2>4. EntryRuns' /\ EntryContextAtBottom'
    BY <2>1, ContextsKept DEF LiveWorkflows
  <2>. QED
    BY <2>2, <2>3, <2>4
<1>3. CASE CallScript(f, step)
  <2>1. UNCHANGED <<kind, name, parent, depth, scope, holds, site, res, local, queue,
                    workflowCtxStack>>
    BY <1>3 DEF CallScript, frameVars
  <2>2. FrameTypes'
    BY <1>3, <2>1, RuntimeAssumption DEF CallScript, FrameTypes, PCs
  <2>3. BranchesOwned' /\ RoutedReachEntry'
    BY <2>1 DEF BranchesOwned, Branches, RoutedReachEntry
  <2>4. EntryRuns' /\ EntryContextAtBottom'
    BY <2>1, ContextsKept DEF LiveWorkflows
  <2>. QED
    BY <2>2, <2>3, <2>4
<1>. QED
  BY <1>1, <1>2, <1>3 DEF Invoke

\* A list or a branch that begins pushes no context.
LEMMA BeginKeeps ==
  ASSUME Struct, UNCHANGED <<outcome, res, workflowCtxStack>>,
         NEW f \in Frames, NEW k \in {"list", "branch"}, NEW where \in PCs,
         NEW at \in PCs, NEW step \in Sites, turn' \in {0, f, fresh},
         Begin(f, k, name[f], depth[f], where, at, step)
  PROVE  Struct'
<1>. USE DEF Struct
<1>1. k \in Kinds /\ name[f] \in Workflows /\ depth[f] \in Nat
  BY DEF Kinds, FrameTypes
<1>2. fresh \in Frames /\ kind[fresh] = "free"
  BY FreshIsFree DEF Begin
<1>3. FrameTypes'
  <2>1. turn' \in 0 .. MaxFrames
    BY <1>2, FrameNumbers, RuntimeAssumption
  <2>. QED
    BY <1>1, <2>1, BeginTypes DEF FrameTypes
<1>4. BranchesOwned'
  BY <1>1, BeginOwned
<1>5. kind' = [kind EXCEPT ![fresh] = k]
  BY DEF Begin
<1>6. LiveWorkflows' = LiveWorkflows
  BY <1>2, <1>5 DEF LiveWorkflows, FrameTypes
<1>7. EntryRuns' /\ EntryContextAtBottom'
  <2>1. CASE fresh = Entry
    <3>1. outcome # "running"
      BY <1>2, <2>1 DEF EntryRuns
    <3>. QED
      BY <3>1 DEF EntryRuns, EntryContextAtBottom
  <2>2. CASE fresh # Entry
    <3>1. kind'[Entry] = kind[Entry]
      BY <1>5, <2>2 DEF FrameTypes
    <3>. QED
      BY <1>6, <3>1, ContextsKept
  <2>. QED
    BY <2>1, <2>2
<1>8. RoutedReachEntry'
  BY <1>1, BeginQueues, QueuesKept
<1>. QED
  BY <1>3, <1>4, <1>7, <1>8

LEMMA RunListKeeps ==
  ASSUME Struct, UNCHANGED outcome, NEW f \in Frames, NEW step \in Sites, RunList(f, step)
  PROVE  Struct'
<1>1. /\ Begin(f, "list", name[f], depth[f], "child", "ready", step)
      /\ UNCHANGED <<outcome, res, workflowCtxStack>>
      /\ turn' \in {0, f, fresh}
  BY DEF RunList
<1>. QED
  BY <1>1, BeginKeeps DEF PCs

\* A frame that stops reading its Map.
LEMMA ScopeTypes ==
  ASSUME FrameTypes, NEW f \in Frames, LeavesScope(f)
  PROVE  scope' \in [Frames -> Frames] /\ holds' \in [Frames -> SUBSET Frames]
BY DEF LeavesScope, FrameTypes

\* A frame ends: types first.
LEMMA EndTypes ==
  ASSUME FrameTypes, NEW f \in Frames, NEW st \in Outcomes, Ends(f, st)
  PROVE  FrameTypes'
<1>1. /\ scope' \in [Frames -> Frames] /\ holds' \in [Frames -> SUBSET Frames]
      /\ turn' \in 0 .. MaxFrames
  BY ScopeTypes, RuntimeAssumption DEF Ends
<1>2. site' \in [Frames -> Sites]
  BY NoSiteType DEF Ends, FrameTypes
<1>3. UNCHANGED <<name, depth, queue>>
  BY DEF Ends
<1>4. CASE Settle(f, st)
  <2>1. pc' \in [Frames -> PCs] /\ res' \in [Frames -> Outcomes]
    BY <1>4 DEF Settle, FrameTypes, PCs
  <2>2. UNCHANGED <<kind, parent, local, workflowCtxStack>>
    BY <1>4 DEF Settle
  <2>. QED
    BY <1>1, <1>2, <1>3, <2>1, <2>2 DEF FrameTypes
<1>5. CASE End(f, st)
  <2>1. kind' \in [Frames -> Kinds]
    BY <1>5 DEF End, FrameTypes, Kinds
  <2>2. parent' \in [Frames -> 0 .. MaxFrames]
    BY <1>5, RuntimeAssumption DEF End, FrameTypes
  <2>3. pc' \in [Frames -> PCs]
    BY <1>5 DEF End, FrameTypes, PCs
  <2>4. res' \in [Frames -> Outcomes]
    BY <1>5 DEF End, FrameTypes, Outcomes
  <2>5. local' \in [Frames -> Seq(Frames)]
    BY <1>5 DEF End, FrameTypes
  <2>6. workflowCtxStack' \in Seq(Frames)
    <3>1. workflowCtxStack \in Seq(Frames)
      BY DEF FrameTypes
    <3>2. SubSeq(workflowCtxStack, 1, Len(workflowCtxStack) - 1) \in Seq(Frames)
      BY <3>1
    <3>. QED
      BY <1>5, <3>1, <3>2 DEF End, CtxStackAfter
  <2>. QED
    BY <1>1, <1>2, <1>3, <2>1, <2>2, <2>3, <2>4, <2>5, <2>6 DEF FrameTypes
<1>. QED
  BY <1>4, <1>5 DEF Ends

\* It detaches the branches it owns: a branch somebody else owns is not
\* touched.
LEMMA EndOwned ==
  ASSUME FrameTypes, BranchesOwned,
         NEW f \in Frames, NEW st \in Outcomes, Ends(f, st)
  PROVE  BranchesOwned'
<1>1. CASE Settle(f, st)
  BY <1>1 DEF Settle, BranchesOwned, Branches
<1>2. CASE End(f, st)
  <2>1. SUFFICES ASSUME NEW g \in Frames, NEW i \in DOMAIN local'[g]
                 PROVE  kind'[local'[g][i]] = "branch" /\ parent'[local'[g][i]] = g
    BY DEF BranchesOwned, Branches
  <2>2. g # f /\ local'[g] = local[g]
    <3>1. local'[f] = <<>>
      BY <1>2 DEF End, FrameTypes
    <3>2. g # f
      BY <2>1, <3>1
    <3>. QED
      BY <1>2, <3>2 DEF End, FrameTypes
  <2>. DEFINE b == local[g][i]
  <2>3. b \in Frames /\ b \in Branches(g)
    BY <2>1, <2>2 DEF Branches, FrameTypes
  <2>4. kind[b] = "branch" /\ parent[b] = g
    BY <2>3 DEF BranchesOwned
  <2>5. b \notin Branches(f)
    BY <2>2, <2>4 DEF BranchesOwned
  <2>6. b # f
    BY <1>2, <2>4 DEF End
  <2>7. kind'[b] = kind[b]
    BY <1>2, <2>3, <2>6 DEF End, FrameTypes
  <2>8. parent'[b] = parent[b]
    BY <1>2, <2>3, <2>5 DEF End
  <2>. QED
    BY <2>2, <2>4, <2>7, <2>8
<1>. QED
  BY <1>1, <1>2 DEF Ends

LEMMA EndContexts ==
  ASSUME FrameTypes, EntryRuns, EntryContextAtBottom,
         NEW f \in Frames, NEW st \in Outcomes, Ends(f, st)
  PROVE  EntryRuns' /\ EntryContextAtBottom'
<1>1. CASE Settle(f, st)
  <2>1. UNCHANGED <<kind, workflowCtxStack, outcome>>
    BY <1>1 DEF Settle
  <2>. QED
    BY <2>1, ContextsKept DEF LiveWorkflows
<1>2. CASE End(f, st) /\ (f = Entry \/ outcome # "running")
  <2>1. outcome' # "running"
    BY <1>2 DEF End
  <2>. QED
    BY <2>1 DEF EntryRuns, EntryContextAtBottom
<1>3. CASE End(f, st) /\ f # Entry /\ outcome = "running"
  <2>1. outcome' = outcome /\ kind' = [kind EXCEPT ![f] = "free"]
    BY <1>3 DEF End
  <2>2. kind'[Entry] = kind[Entry]
    BY <1>3, <2>1 DEF FrameTypes
  <2>3. CASE kind[f] = "workflow"
    <3>1. LiveWorkflows' = LiveWorkflows \ {f}
      BY <2>1 DEF LiveWorkflows, FrameTypes
    <3>2. workflowCtxStack' = SubSeq(workflowCtxStack, 1, Len(workflowCtxStack) - 1)
      BY <1>3, <2>3 DEF End, CtxStackAfter
    <3>. QED
      BY <1>3, <2>1, <2>2, <2>3, <3>1, <3>2, ContextPopped
  <2>4. CASE kind[f] # "workflow"
    <3>1. LiveWorkflows' = LiveWorkflows
      BY <2>1, <2>4 DEF LiveWorkflows, FrameTypes
    <3>2. workflowCtxStack' = workflowCtxStack
      BY <1>3, <2>4 DEF End, CtxStackAfter
    <3>. QED
      BY <2>1, <2>2, <3>1, <3>2, ContextsKept
  <2>. QED
    BY <2>3, <2>4
<1>. QED
  BY <1>1, <1>2, <1>3 DEF Ends

(***************************************************************************)
(* What the actions are made of, with the counters they leave alone.       *)
(***************************************************************************)
Counters == <<handleIdCounter, cursor, target>>

LEMMA EndsKeeps ==
  ASSUME Struct, OutcomeType, NEW f \in Frames, NEW st \in Outcomes, Ends(f, st)
  PROVE  Struct' /\ OutcomeType' /\ UNCHANGED Counters
<1>1. queue' = queue /\ UNCHANGED Counters
  BY DEF Ends, Counters
<1>2. OutcomeType'
  BY DEF Ends, Settle, End, OutcomeType
<1>3. RoutedReachEntry'
  BY <1>1 DEF Struct, RoutedReachEntry
<1>. QED
  BY <1>1, <1>2, <1>3, EndTypes, EndOwned, EndContexts DEF Struct

\* A finished workflow that goes on to its drain keeps its context.
LEMMA ListOverKeeps ==
  ASSUME Struct, OutcomeType, NEW f \in Frames, NEW st \in Outcomes, ListOver(f, st)
  PROVE  Struct' /\ OutcomeType' /\ UNCHANGED Counters
<1>1. CASE Ends(f, st)
  BY <1>1, EndsKeeps
<1>2. CASE ~Ends(f, st)
  <2>. USE DEF Struct
  <2>1. /\ parent' = [g \in Frames |-> IF g \in Left(f, st) THEN 0 ELSE parent[g]]
        /\ pc' = [pc EXCEPT ![f] = "draining"]
        /\ res' = [res EXCEPT ![f] = st]
        /\ site' = [site EXCEPT ![f] = NoSite]
        /\ local' = [local EXCEPT ![f] = <<>>]
        /\ turn' = 0
        /\ UNCHANGED <<kind, name, depth, scope, holds, queue, workflowCtxStack, outcome>>
        /\ UNCHANGED Counters
    BY <1>2 DEF ListOver, Keep, Counters
  <2>2. FrameTypes'
    <3>1. pc' \in [Frames -> PCs] /\ res' \in [Frames -> Outcomes]
      BY <2>1 DEF FrameTypes, PCs
    <3>2. parent' \in [Frames -> 0 .. MaxFrames] /\ turn' \in 0 .. MaxFrames
      BY <2>1, RuntimeAssumption DEF FrameTypes
    <3>3. site' \in [Frames -> Sites] /\ local' \in [Frames -> Seq(Frames)]
      BY <2>1, NoSiteType DEF FrameTypes
    <3>. QED
      BY <2>1, <3>1, <3>2, <3>3 DEF FrameTypes
  <2>3. BranchesOwned'
    <3>1. SUFFICES ASSUME NEW g \in Frames, NEW i \in DOMAIN local'[g]
                   PROVE  kind'[local'[g][i]] = "branch" /\ parent'[local'[g][i]] = g
      BY DEF BranchesOwned, Branches
    <3>2. g # f /\ local'[g] = local[g]
      BY <2>1, <3>1 DEF FrameTypes
    <3>. DEFINE b == local[g][i]
    <3>3. b \in Frames /\ b \in Branches(g)
      BY <3>1, <3>2 DEF Branches, FrameTypes
    <3>4. kind[b] = "branch" /\ parent[b] = g /\ b \notin Branches(f)
      BY <3>2, <3>3 DEF BranchesOwned
    <3>5. b \notin Left(f, st)
      BY <3>4 DEF Left, Settled
    <3>. QED
      BY <2>1, <3>2, <3>3, <3>4, <3>5
  <2>4. EntryRuns' /\ EntryContextAtBottom'
    BY <2>1, ContextsKept DEF LiveWorkflows
  <2>5. RoutedReachEntry'
    BY <2>1 DEF RoutedReachEntry
  <2>. QED
    BY <2>1, <2>2, <2>3, <2>4, <2>5 DEF OutcomeType
<1>. QED
  BY <1>1, <1>2

\* A step that only moves a frame's position.
LEMMA PositionKeeps ==
  ASSUME Struct, UNCHANGED <<frameVars, local, queue, workflowCtxStack, outcome>>,
         pc' \in [Frames -> PCs], site' \in [Frames -> Sites], res' \in [Frames -> Outcomes],
         turn' \in 0 .. MaxFrames
  PROVE  Struct'
<1>. USE DEF Struct, frameVars
<1>1. FrameTypes'
  BY DEF FrameTypes
<1>2. BranchesOwned' /\ RoutedReachEntry'
  BY DEF BranchesOwned, Branches, RoutedReachEntry
<1>3. EntryRuns' /\ EntryContextAtBottom'
  BY ContextsKept DEF LiveWorkflows
<1>. QED
  BY <1>1, <1>2, <1>3

\* Its arguments are awaited.
LEMMA StartsKeeps ==
  ASSUME Struct, UNCHANGED outcome, NEW f \in Frames, NEW step \in Sites, Starts(f, step)
  PROVE  Struct'
<1>1. UNCHANGED <<frameVars, local, queue, workflowCtxStack, outcome>>
  BY DEF Starts
<1>2. /\ pc' \in [Frames -> PCs] /\ site' \in [Frames -> Sites]
      /\ res' \in [Frames -> Outcomes] /\ turn' \in 0 .. MaxFrames
  BY RuntimeAssumption DEF Starts, Struct, FrameTypes, PCs
<1>. QED
  BY <1>1, <1>2, PositionKeeps

LEMMA NextStepKeeps ==
  ASSUME Struct, OutcomeType, NEW f \in Frames, NEW st \in Outcomes, NextStep(f, st)
  PROVE  Struct' /\ OutcomeType' /\ UNCHANGED Counters
<1>1. CASE Ends(f, st)
  BY <1>1, EndsKeeps
<1>2. CASE ~Ends(f, st)
  <2>1. /\ pc' = [pc EXCEPT ![f] = "ready"]
        /\ site' = [site EXCEPT ![f] = NoSite]
        /\ turn' = f
        /\ UNCHANGED <<frameVars, res, local, queue, workflowCtxStack, outcome>>
        /\ UNCHANGED Counters
    BY <1>2 DEF NextStep, Keep, Counters
  <2>2. /\ pc' \in [Frames -> PCs] /\ site' \in [Frames -> Sites]
        /\ res' \in [Frames -> Outcomes] /\ turn' \in 0 .. MaxFrames
    BY <2>1, NoSiteType, FrameNumbers DEF Struct, FrameTypes, PCs
  <2>3. Struct'
    BY <2>1, <2>2, PositionKeeps
  <2>. QED
    BY <2>1, <2>3 DEF OutcomeType
<1>. QED
  BY <1>1, <1>2

\* No counter but stepsExecuted moves in such a step.
LEMMA CountersFollow ==
  ASSUME CounterTypes, UNCHANGED Counters, OutcomeType', stepsExecuted' \in 0 .. MaxSteps
  PROVE  CounterTypes'
BY DEF CounterTypes, Counters

\* While the run lasts the top of the stack is a frame, and so the recover
\* limit and the sender's name it gives are those of some workflow.
LEMMA TopIsFrame ==
  ASSUME Struct, outcome = "running"
  PROVE  /\ topCtx \in Frames
         /\ \A h : LimitOf(h) \in Nat
<1>1. workflowCtxStack \in Seq(Frames) /\ Len(workflowCtxStack) # 0
  BY DEF Struct, FrameTypes, EntryContextAtBottom
<1>2. topCtx \in Frames
  BY <1>1 DEF topCtx
<1>3. RecoverLimit[name[topCtx]] \in Nat
  BY <1>2, RuntimeAssumption DEF Struct, FrameTypes
<1>. QED
  BY <1>2, <1>3 DEF LimitOf

\* The step of a list is counted within the limit.
LEMMA CountedSteps ==
  ASSUME CounterTypes, NEW f \in Frames, NEW step, Counted(f, step)
  PROVE  stepsExecuted' \in 0 .. MaxSteps /\ outcome = "running"
BY RuntimeAssumption DEF CounterTypes, Counted, HasTurn

\* A message goes to the entry's queue or names a channel without routes.
LEMMA EnqueueRouted ==
  ASSUME Struct, outcome = "running",
         NEW f \in Frames, NEW ctx \in Frames, NEW ch \in Channels,
         Enqueue(f, ctx, ch)
  PROVE  queue' \in [Frames -> Seq(Messages)] /\ RoutedReachEntry'
<1>. DEFINE routed == {i \in DOMAIN workflowCtxStack :
                         workflowCtxStack[i] = Entry /\ Routes[ch] # <<>>}
            to == IF routed # {} THEN Entry ELSE ctx
            msg == [chan |-> ch, sender |-> name[ctx], by |-> name[f]]
<1>1. queue' = [queue EXCEPT ![to] = Append(@, msg)]
  BY DEF Enqueue
<1>2. msg \in Messages
  BY DEF Struct, FrameTypes, Messages
<1>3. to \in Frames
  BY EntryIsFrame
<1>4. queue \in [Frames -> Seq(Messages)]
  BY DEF Struct, FrameTypes
<1>5. Routes[ch] # <<>> => to = Entry
  <2>1. workflowCtxStack \in Seq(Frames) /\ workflowCtxStack # <<>> /\ workflowCtxStack[1] = Entry
    BY DEF Struct, FrameTypes, EntryContextAtBottom
  <2>2. 1 \in DOMAIN workflowCtxStack
    BY <2>1
  <2>. QED
    BY <2>1, <2>2
<1>. HIDE DEF to, routed
<1>6. queue' \in [Frames -> Seq(Messages)]
  <2>1. Append(queue[to], msg) \in Seq(Messages)
    BY <1>2, <1>3, <1>4
  <2>. QED
    BY <1>1, <1>3, <1>4, <2>1
<1>7. RoutedReachEntry'
  <2>1. SUFFICES ASSUME NEW g \in Frames \ {Entry}, NEW i \in DOMAIN queue'[g]
                 PROVE  Routes[queue'[g][i].chan] = <<>>
    BY DEF RoutedReachEntry
  <2>2. CASE g # to
    <3>1. queue'[g] = queue[g]
      BY <1>1, <1>4, <2>2
    <3>. QED
      BY <2>1, <3>1 DEF Struct, RoutedReachEntry
  <2>3. CASE g = to
    <3>1. queue'[g] = Append(queue[g], msg) /\ Routes[ch] = <<>>
      BY <1>1, <1>3, <1>4, <1>5, <2>3
    <3>2. queue[g] \in Seq(Messages)
      BY <1>4
    <3>3. CASE i = Len(queue[g]) + 1
      <4>1. queue'[g][i].chan = ch
        BY <1>2, <3>1, <3>2, <3>3
      <4>. QED
        BY <3>1, <4>1
    <3>4. CASE i # Len(queue[g]) + 1
      <4>1. i \in DOMAIN queue[g] /\ queue'[g][i] = queue[g][i]
        BY <1>2, <2>1, <3>1, <3>2, <3>4
      <4>. QED
        BY <4>1 DEF Struct, RoutedReachEntry
    <3>. QED
      BY <3>3, <3>4
  <2>. QED
    BY <2>2, <2>3
<1>. QED
  BY <1>6, <1>7

-----------------------------------------------------------------------------
(***************************************************************************)
(* The actions                                                             *)
(***************************************************************************)
LEMMA FailPreserves ==
  ASSUME IInv, NEW f \in Frames, FailStep(f) \/ TripMaxSteps(f)
  PROVE  IInv'
<1>1. "fail" \in Outcomes
  BY DEF Outcomes
<1>2. Ends(f, "fail") /\ stepsExecuted' \in 0 .. MaxSteps
  <2>1. CASE FailStep(f)
    BY <2>1, CountedSteps DEF FailStep, IInv
  <2>2. CASE TripMaxSteps(f)
    BY <2>2 DEF TripMaxSteps, IInv, CounterTypes
  <2>. QED
    BY <2>1, <2>2
<1>3. Struct' /\ OutcomeType' /\ UNCHANGED Counters
  BY <1>1, <1>2, EndsKeeps DEF IInv, CounterTypes
<1>. QED
  BY <1>2, <1>3, CountersFollow DEF IInv

LEMMA ReturnPreserves ==
  ASSUME IInv, NEW f \in Frames, ReturnStep(f)
  PROVE  IInv'
<1>1. "return" \in Outcomes
  BY DEF Outcomes
<1>2. ListOver(f, "return") /\ stepsExecuted' \in 0 .. MaxSteps
  BY CountedSteps DEF ReturnStep, IInv
<1>3. Struct' /\ OutcomeType' /\ UNCHANGED Counters
  BY <1>1, <1>2, ListOverKeeps DEF IInv, CounterTypes
<1>. QED
  BY <1>2, <1>3, CountersFollow DEF IInv

\* A step that leaves the counters but stepsExecuted to Keep.
LEMMA KeepFollows ==
  ASSUME IInv, Struct', Keep, stepsExecuted' \in 0 .. MaxSteps
  PROVE  IInv'
<1>1. OutcomeType' /\ UNCHANGED Counters
  BY DEF Keep, Counters, IInv, CounterTypes, OutcomeType
<1>. QED
  BY <1>1, CountersFollow DEF IInv

\* The step a call begins with is well formed.
LEMMA CallSite ==
  ASSUME NEW op \in Ops, op # "send", NEW callee \in Targets,
         NEW h \in {"none", "catch", "recover"}, NEW n \in Nat
  PROVE  [NoSite EXCEPT !.op = op, !.callee = callee, !.handler = h, !.left = n] \in Sites
BY NoSiteType DEF Sites

LEMMA BodyPreserves ==
  ASSUME IInv, NEW f \in Frames, BodyStep(f)
  PROVE  IInv'
<1>. DEFINE step == [NoSite EXCEPT !.op = "list"]
<1>1. step \in Sites
  BY NoSiteType DEF Sites, Ops
<1>2. /\ RunList(f, step) /\ Keep /\ UNCHANGED outcome
      /\ stepsExecuted' \in 0 .. MaxSteps
  BY CountedSteps DEF BodyStep, Keep, IInv
<1>3. Struct'
  BY <1>1, <1>2, RunListKeeps DEF IInv
<1>. QED
  BY <1>2, <1>3, KeepFollows

LEMMA RunPreserves ==
  ASSUME IInv, NEW f \in Frames, NEW callee \in Targets, NEW h \in {"none", "catch", "recover"},
         RunStep(f, callee, h)
  PROVE  IInv'
<1>. DEFINE step == [NoSite EXCEPT !.op = "run", !.callee = callee, !.handler = h,
                                   !.left = LimitOf(h)]
<1>1. stepsExecuted' \in 0 .. MaxSteps /\ outcome = "running"
  BY CountedSteps DEF RunStep, IInv
<1>2. LimitOf(h) \in Nat
  BY <1>1, TopIsFrame DEF IInv
<1>3. step \in Sites
  BY <1>2, CallSite, RuntimeAssumption DEF Ops
<1>4. Starts(f, step) /\ Keep /\ UNCHANGED outcome
  BY DEF RunStep, Keep
<1>5. Struct'
  BY <1>3, <1>4, StartsKeeps DEF IInv
<1>. QED
  BY <1>1, <1>4, <1>5, KeepFollows

LEMMA RunAsyncPreserves ==
  ASSUME IInv, NEW f \in Frames, NEW callee \in Targets, NEW h \in {"none", "catch", "recover"},
         RunAsyncStep(f, callee, h)
  PROVE  IInv'
<1>. DEFINE step == [NoSite EXCEPT !.op = "run", !.callee = callee, !.handler = h,
                                   !.left = LimitOf(h)]
<1>1. stepsExecuted' \in 0 .. MaxSteps /\ outcome = "running"
  BY CountedSteps DEF RunAsyncStep, IInv
<1>2. LimitOf(h) \in Nat
  BY <1>1, TopIsFrame DEF IInv
<1>3. step \in Sites
  BY <1>2, CallSite, RuntimeAssumption DEF Ops
<1>4. /\ Begin(f, "branch", name[f], depth[f], "ready", "starting", step)
      /\ UNCHANGED <<outcome, res, workflowCtxStack>> /\ turn' \in {0, f, fresh}
  BY DEF RunAsyncStep
<1>5. Struct'
  BY <1>3, <1>4, BeginKeeps DEF IInv, PCs
<1>6. CounterTypes'
  BY <1>1, RuntimeAssumption DEF RunAsyncStep, IInv, CounterTypes, OutcomeType
<1>. QED
  BY <1>5, <1>6 DEF IInv

\* The step in progress with a handle that its arguments await, or none.
LEMMA SiteReads ==
  ASSUME NEW s \in Sites, NEW b \in 0 .. MaxFrames
  PROVE  [s EXCEPT !.reads = b] \in Sites
<1>1. [s EXCEPT !.reads = b] =
        [op |-> s.op, callee |-> s.callee, handler |-> s.handler, left |-> s.left,
         ctx |-> s.ctx, chan |-> s.chan, reads |-> b]
  BY DEF Sites
<1>. QED
  BY <1>1 DEF Sites

LEMMA ReadPreserves ==
  ASSUME IInv, NEW f \in Frames, NEW b \in Frames, Read(f, b)
  PROVE  IInv'
<1>1. /\ pc' = [pc EXCEPT ![f] = "reading"]
      /\ site' = [site EXCEPT ![f] = [site[f] EXCEPT !.reads = b]]
      /\ turn' = 0
      /\ UNCHANGED <<frameVars, res, local, queue, workflowCtxStack, outcome, stepsExecuted>>
      /\ Keep
  BY DEF Read, Starting, Keep
<1>2. [site[f] EXCEPT !.reads = b] \in Sites
  <2>1. site[f] \in Sites /\ b \in 0 .. MaxFrames
    BY FrameNumbers DEF IInv, Struct, FrameTypes
  <2>. QED
    BY <2>1, SiteReads
<1>3. pc' \in [Frames -> PCs] /\ site' \in [Frames -> Sites]
  BY <1>1, <1>2 DEF IInv, Struct, FrameTypes, PCs
<1>4. res' \in [Frames -> Outcomes] /\ turn' \in 0 .. MaxFrames
  BY <1>1, RuntimeAssumption DEF IInv, Struct, FrameTypes
<1>5. Struct'
  BY <1>1, <1>3, <1>4, PositionKeeps DEF IInv
<1>. QED
  BY <1>1, <1>5, KeepFollows DEF IInv, CounterTypes

\* Enqueueing beside a move of the sender's own position.
LEMMA EnqueueKeeps ==
  ASSUME Struct, outcome = "running", UNCHANGED outcome,
         NEW f \in Frames, NEW ctx \in Frames, NEW ch \in Channels,
         Enqueue(f, ctx, ch),
         UNCHANGED <<frameVars, res, local, workflowCtxStack>>,
         pc' \in [Frames -> PCs], site' \in [Frames -> Sites], turn' \in 0 .. MaxFrames
  PROVE  Struct'
<1>1. queue' \in [Frames -> Seq(Messages)] /\ RoutedReachEntry'
  BY EnqueueRouted
<1>. USE DEF Struct, frameVars
<1>2. FrameTypes'
  BY <1>1 DEF FrameTypes
<1>3. BranchesOwned'
  BY DEF BranchesOwned, Branches
<1>4. EntryRuns' /\ EntryContextAtBottom'
  BY ContextsKept DEF LiveWorkflows
<1>. QED
  BY <1>1, <1>2, <1>3, <1>4

\* The step of a send, its context captured.
LEMMA SendSite ==
  ASSUME IInv, outcome = "running", NEW ch \in Channels, NEW callee \in Targets
  PROVE  /\ [NoSite EXCEPT !.op = "send", !.callee = callee, !.chan = ch, !.ctx = topCtx] \in Sites
         /\ [NoSite EXCEPT !.op = "send", !.chan = ch, !.ctx = topCtx] \in Sites
<1>1. topCtx \in 0 .. MaxFrames /\ topCtx # 0
  BY TopIsFrame, FrameNumbers DEF IInv
<1>. QED
  BY <1>1, NoSiteType, RuntimeAssumption DEF Sites, Ops

LEMMA SendPreserves ==
  ASSUME IInv, NEW f \in Frames, NEW ch \in Channels, SendStep(f, ch)
  PROVE  IInv'
<1>. DEFINE step == [NoSite EXCEPT !.op = "send", !.chan = ch, !.ctx = topCtx]
<1>1. stepsExecuted' \in 0 .. MaxSteps /\ outcome = "running"
  BY CountedSteps DEF SendStep, IInv
<1>2. step \in Sites
  BY <1>1, SendSite DEF Targets
<1>3. /\ pc' = [pc EXCEPT ![f] = "returned"] /\ res' = [res EXCEPT ![f] = "ok"]
      /\ site' = [site EXCEPT ![f] = step] /\ turn' = 0
      /\ UNCHANGED <<frameVars, local, queue, workflowCtxStack, outcome>> /\ Keep
  BY DEF SendStep, Keep
<1>4. /\ pc' \in [Frames -> PCs] /\ site' \in [Frames -> Sites]
      /\ res' \in [Frames -> Outcomes] /\ turn' \in 0 .. MaxFrames
  BY <1>2, <1>3, RuntimeAssumption DEF IInv, Struct, FrameTypes, PCs, Outcomes
<1>5. Struct'
  BY <1>3, <1>4, PositionKeeps DEF IInv
<1>. QED
  BY <1>1, <1>3, <1>5, KeepFollows

LEMMA SendCallPreserves ==
  ASSUME IInv, NEW f \in Frames, NEW ch \in Channels, NEW callee \in Targets,
         SendCallStep(f, ch, callee)
  PROVE  IInv'
<1>. DEFINE step == [NoSite EXCEPT !.op = "send", !.callee = callee, !.chan = ch,
                                   !.ctx = topCtx]
<1>1. stepsExecuted' \in 0 .. MaxSteps /\ outcome = "running"
  BY CountedSteps DEF SendCallStep, IInv
<1>3. step \in Sites
  BY <1>1, SendSite
<1>4. Starts(f, step) /\ Keep /\ UNCHANGED outcome
  BY DEF SendCallStep, Keep
<1>5. Struct'
  BY <1>3, <1>4, StartsKeeps DEF IInv
<1>. QED
  BY <1>1, <1>4, <1>5, KeepFollows

\* The end of a list and the join come down to ListOver.
LEMMA EndOfListPreserves ==
  ASSUME IInv, NEW f \in Frames, EndOfList(f) \/ Join(f)
  PROVE  IInv'
<1>1. stepsExecuted' \in 0 .. MaxSteps
  BY DEF EndOfList, Join, IInv, CounterTypes
<1>2. JoinedResult(Branches(f)) \in Outcomes /\ "ok" \in Outcomes
  BY DEF JoinedResult, Outcomes
<1>3. CASE \E st \in Outcomes : ListOver(f, st)
  <2>1. Struct' /\ OutcomeType' /\ UNCHANGED Counters
    BY <1>3, ListOverKeeps DEF IInv, CounterTypes
  <2>. QED
    BY <1>1, <2>1, CountersFollow DEF IInv
<1>4. CASE ~\E st \in Outcomes : ListOver(f, st)
  <2>1. /\ pc' = [pc EXCEPT ![f] = "joining"] /\ turn' = 0
        /\ UNCHANGED <<frameVars, site, res, local, queue, workflowCtxStack, outcome>> /\ Keep
    BY <1>2, <1>4 DEF EndOfList, Join, Keep
  <2>2. /\ pc' \in [Frames -> PCs] /\ site' \in [Frames -> Sites]
        /\ res' \in [Frames -> Outcomes] /\ turn' \in 0 .. MaxFrames
    BY <2>1, RuntimeAssumption DEF IInv, Struct, FrameTypes, PCs
  <2>3. Struct'
    BY <2>1, <2>2, PositionKeeps DEF IInv
  <2>. QED
    BY <1>1, <2>1, <2>3, KeepFollows
<1>. QED
  BY <1>3, <1>4

LEMMA EnterPreserves ==
  ASSUME IInv, NEW f \in Frames, Enter(f)
  PROVE  IInv'
<1>1. site[f] \in Sites
  BY DEF IInv, Struct, FrameTypes
<1>2. Invoke(f, site[f]) /\ Keep /\ UNCHANGED <<outcome, stepsExecuted>>
  BY DEF Enter, Starting, Keep
<1>3. Struct'
  BY <1>1, <1>2, InvokeKeeps DEF IInv
<1>. QED
  BY <1>2, <1>3, KeepFollows DEF IInv, CounterTypes

LEMMA ReadResolvesPreserves ==
  ASSUME IInv, NEW f \in Frames, ReadResolves(f)
  PROVE  IInv'
<1>. DEFINE b == site[f].reads
<1>1. /\ pc' = [pc EXCEPT ![f] = IF res[b] = "fail" THEN "returned" ELSE "starting"]
      /\ res' = [res EXCEPT ![f] = IF res[b] = "fail" THEN "fail" ELSE @]
      /\ site' = [site EXCEPT ![f] = [site[f] EXCEPT !.reads = 0]]
      /\ holds' = [holds EXCEPT ![scope[f]] = @ \ {b}]
      /\ turn' = 0 /\ Keep
      /\ UNCHANGED <<kind, name, parent, depth, scope, local, queue, workflowCtxStack, outcome,
                     stepsExecuted>>
  BY DEF ReadResolves, Keep
<1>. USE DEF IInv, Struct
<1>2. FrameTypes'
  <2>1. [site[f] EXCEPT !.reads = 0] \in Sites /\ 0 \in 0 .. MaxFrames
    <3>1. site[f] \in Sites /\ 0 \in 0 .. MaxFrames
      BY RuntimeAssumption DEF FrameTypes
    <3>. QED
      BY <3>1, SiteReads
  <2>2. site' \in [Frames -> Sites] /\ turn' \in 0 .. MaxFrames
    BY <1>1, <2>1 DEF FrameTypes
  <2>3. pc' \in [Frames -> PCs] /\ res' \in [Frames -> Outcomes]
    BY <1>1 DEF FrameTypes, PCs, Outcomes
  <2>4. holds' \in [Frames -> SUBSET Frames]
    BY <1>1 DEF FrameTypes
  <2>. QED
    BY <1>1, <2>2, <2>3, <2>4 DEF FrameTypes
<1>3. BranchesOwned' /\ RoutedReachEntry'
  BY <1>1 DEF BranchesOwned, Branches, RoutedReachEntry
<1>4. EntryRuns' /\ EntryContextAtBottom'
  BY <1>1, ContextsKept DEF LiveWorkflows
<1>5. Struct'
  BY <1>2, <1>3, <1>4
<1>. QED
  BY <1>1, <1>5, KeepFollows DEF CounterTypes

\* The step in progress with another op and fewer attempts left.
LEMMA SiteGoesOn ==
  ASSUME NEW s \in Sites, NEW op \in Ops, op # "send", NEW n \in Nat
  PROVE  [s EXCEPT !.op = op, !.left = n] \in Sites /\ [s EXCEPT !.op = op] \in Sites
<1>0. s \in [op : Ops, callee : Targets, handler : {"none", "catch", "recover"},
             left : Nat, ctx : 0 .. MaxFrames, chan : Channels, reads : 0 .. MaxFrames]
  BY DEF Sites
<1>4. [s EXCEPT !.op = op] =
        [op |-> op, callee |-> s.callee, handler |-> s.handler, left |-> s.left,
         ctx |-> s.ctx, chan |-> s.chan, reads |-> s.reads]
  BY <1>0
<1>2. /\ s.callee \in Targets /\ s.handler \in {"none", "catch", "recover"}
      /\ s.left \in Nat /\ s.ctx \in 0 .. MaxFrames /\ s.chan \in Channels
      /\ s.reads \in 0 .. MaxFrames
  BY DEF Sites
<1>3. \A m \in Nat :
        [op |-> op, callee |-> s.callee, handler |-> s.handler, left |-> m,
         ctx |-> s.ctx, chan |-> s.chan, reads |-> s.reads] \in Sites
  BY <1>2 DEF Sites
<1>5. ASSUME NEW t, t = [op |-> op, callee |-> s.callee, handler |-> s.handler,
                         left |-> s.left, ctx |-> s.ctx, chan |-> s.chan, reads |-> s.reads]
      PROVE  [t EXCEPT !.left = n] =
               [op |-> op, callee |-> s.callee, handler |-> s.handler, left |-> n,
                ctx |-> s.ctx, chan |-> s.chan, reads |-> s.reads]
  BY <1>5
<1>6. [s EXCEPT !.op = op, !.left = n] = [[s EXCEPT !.op = op] EXCEPT !.left = n]
  BY Zenon
<1>. QED
  BY <1>2, <1>3, <1>4, <1>5, <1>6

\* What a frame awaited comes back and it ends, ends its list or goes on.
LEMMA MovesOn ==
  ASSUME IInv, NEW f \in Frames, NEW st \in Outcomes, UNCHANGED stepsExecuted,
         Ends(f, st) \/ ListOver(f, st) \/ NextStep(f, st)
  PROVE  IInv'
<1>1. Struct' /\ OutcomeType' /\ UNCHANGED Counters
  BY EndsKeeps, ListOverKeeps, NextStepKeeps DEF IInv, CounterTypes
<1>. QED
  BY <1>1, CountersFollow DEF IInv, CounterTypes

LEMMA RunReturnedPreserves ==
  ASSUME IInv, NEW f \in Frames, NEW st \in Outcomes, RunReturned(f, st)
  PROVE  IInv'
<1>. DEFINE step == [site[f] EXCEPT !.op = "body", !.left = @ - 1]
<1>0. "ok" \in Outcomes /\ "fail" \in Outcomes /\ UNCHANGED stepsExecuted
  BY DEF Outcomes, RunReturned, Returned
<1>1. CASE NextStep(f, "ok") \/ Ends(f, "fail")
  BY <1>0, <1>1, MovesOn
<1>2. CASE site[f].left > 0 /\ RunList(f, step) /\ Keep
  <2>1. site[f] \in Sites /\ site[f].left - 1 \in Nat
    <3>1. site[f] \in Sites
      BY DEF IInv, Struct, FrameTypes
    <3>. QED
      BY <1>2, <3>1 DEF Sites
  <2>2. step \in Sites
    BY <2>1, SiteGoesOn DEF Ops
  <2>3. UNCHANGED outcome
    BY <1>2 DEF Keep
  <2>4. Struct'
    BY <1>2, <2>2, <2>3, RunListKeeps DEF IInv
  <2>. QED
    BY <1>0, <1>2, <2>4, KeepFollows DEF IInv, CounterTypes
<1>. QED
  BY <1>1, <1>2 DEF RunReturned

LEMMA HandlerReturnedPreserves ==
  ASSUME IInv, NEW f \in Frames, NEW st \in Outcomes, HandlerReturned(f, st)
  PROVE  IInv'
<1>. DEFINE step == [site[f] EXCEPT !.op = "run"]
<1>0. /\ "ok" \in Outcomes /\ "fail" \in Outcomes /\ "return" \in Outcomes
      /\ UNCHANGED stepsExecuted
  BY DEF Outcomes, HandlerReturned, Returned
<1>1. CASE \E end \in Outcomes : Ends(f, end) \/ ListOver(f, end) \/ NextStep(f, end)
  BY <1>0, <1>1, MovesOn
<1>2. CASE Starts(f, step) /\ Keep
  <2>1. step \in Sites
    BY SiteGoesOn DEF Ops, IInv, Struct, FrameTypes
  <2>2. UNCHANGED outcome
    BY <1>2 DEF Keep
  <2>3. Struct'
    BY <1>2, <2>1, <2>2, StartsKeeps DEF IInv
  <2>. QED
    BY <1>0, <1>2, <2>3, KeepFollows DEF IInv, CounterTypes
<1>. QED
  BY <1>0, <1>1, <1>2 DEF HandlerReturned

LEMMA BodyReturnedPreserves ==
  ASSUME IInv, NEW f \in Frames, NEW st \in Outcomes, BodyReturned(f, st)
  PROVE  IInv'
<1>0. /\ "ok" \in Outcomes /\ "fail" \in Outcomes /\ "return" \in Outcomes
      /\ UNCHANGED stepsExecuted
  BY DEF Outcomes, BodyReturned, Returned
<1>. QED
  BY <1>0, MovesOn DEF BodyReturned

LEMMA PayloadReturnedPreserves ==
  ASSUME IInv, NEW f \in Frames, NEW st \in Outcomes, PayloadReturned(f, st)
  PROVE  IInv'
<1>0. "fail" \in Outcomes /\ UNCHANGED stepsExecuted
  BY DEF Outcomes, PayloadReturned, Returned
<1>1. CASE Ends(f, "fail")
  BY <1>0, <1>1, MovesOn
<1>2. CASE ~Ends(f, "fail")
  <2>1. /\ Enqueue(f, site[f].ctx, site[f].chan)
        /\ pc' = [pc EXCEPT ![f] = "ready"]
        /\ site' = [site EXCEPT ![f] = NoSite] /\ turn' = f
        /\ UNCHANGED <<frameVars, res, local, workflowCtxStack, outcome>> /\ Keep
    BY <1>2 DEF PayloadReturned, Keep
  <2>2. site[f].ctx \in Frames /\ site[f].chan \in Channels
    <3>1. site[f] \in Sites /\ site[f].op = "send"
      BY DEF PayloadReturned, Returned, IInv, Struct, FrameTypes
    <3>. QED
      BY <3>1, RuntimeAssumption DEF Sites, Frames
  <2>3. outcome = "running"
    BY DEF PayloadReturned, Returned, HasTurn
  <2>4. /\ pc' \in [Frames -> PCs] /\ site' \in [Frames -> Sites]
        /\ turn' \in 0 .. MaxFrames
    BY <2>1, NoSiteType, FrameNumbers DEF IInv, Struct, FrameTypes, PCs
  <2>5. Struct'
    BY <2>1, <2>2, <2>3, <2>4, EnqueueKeeps DEF IInv
  <2>. QED
    BY <1>0, <2>1, <2>5, KeepFollows DEF IInv, CounterTypes
<1>. QED
  BY <1>1, <1>2

LEMMA DrainEndPreserves ==
  ASSUME IInv, NEW f \in Frames, DrainNested(f) \/ DrainOver \/ DrainLimitHit
  PROVE  IInv'
<1>1. "ok" \in Outcomes /\ "fail" \in Outcomes /\ res[f] \in Outcomes
  BY DEF Outcomes, IInv, Struct, FrameTypes
<1>2. UNCHANGED stepsExecuted
  BY DEF DrainNested, DrainOver, DrainLimitHit, Draining
<1>3. \E g \in Frames, st \in Outcomes : Ends(g, st)
  BY <1>1, EntryIsFrame DEF DrainNested, DrainOver, DrainLimitHit
<1>. QED
  BY <1>2, <1>3, MovesOn

LEMMA DispatchPreserves ==
  ASSUME IInv, Dispatch
  PROVE  IInv'
<1>. DEFINE callee == TargetsOf(cursor + 1)[target + 1]
            step == [NoSite EXCEPT !.op = "dispatch", !.callee = callee]
<1>1. callee \in Workflows
  <2>1. queue[Entry] \in Seq(Messages)
    BY EntryIsFrame DEF IInv, Struct, FrameTypes
  <2>2. cursor \in Nat /\ cursor < Len(queue[Entry])
    BY DEF Dispatch, IInv, CounterTypes
  <2>3. queue[Entry][cursor + 1] \in Messages
    BY <2>1, <2>2
  <2>4. TargetsOf(cursor + 1) \in Seq(Workflows)
    BY <2>3, RuntimeAssumption DEF TargetsOf, Messages
  <2>5. target \in Nat /\ target < Len(TargetsOf(cursor + 1))
    BY DEF Dispatch, IInv, CounterTypes
  <2>. QED
    BY <2>4, <2>5
<1>. HIDE DEF callee
<1>2. step \in Sites
  BY <1>1, NoSiteType DEF Sites, Ops, Targets
<1>3. Starts(Entry, step) /\ UNCHANGED <<outcome, stepsExecuted>>
  BY DEF Dispatch, Draining, callee
<1>4. Struct'
  BY <1>2, <1>3, StartsKeeps, EntryIsFrame DEF IInv
<1>5. CounterTypes'
  BY <1>3 DEF Dispatch, IInv, CounterTypes, OutcomeType
<1>. QED
  BY <1>4, <1>5 DEF IInv

LEMMA NextMessagePreserves ==
  ASSUME IInv, NextMessage
  PROVE  IInv'
<1>1. /\ turn' = Entry
      /\ UNCHANGED <<frameVars, pc, site, res, local, queue, workflowCtxStack, outcome>>
  BY DEF NextMessage
<1>2. /\ pc' \in [Frames -> PCs] /\ site' \in [Frames -> Sites]
      /\ res' \in [Frames -> Outcomes] /\ turn' \in 0 .. MaxFrames
  BY <1>1, EntryIsFrame, FrameNumbers DEF IInv, Struct, FrameTypes
<1>3. Struct'
  BY <1>1, <1>2, PositionKeeps DEF IInv
<1>4. CounterTypes'
  BY DEF NextMessage, Draining, IInv, CounterTypes, OutcomeType
<1>. QED
  BY <1>3, <1>4 DEF IInv

LEMMA DispatchReturnedPreserves ==
  ASSUME IInv, NEW st \in Outcomes, DispatchReturned(st)
  PROVE  IInv'
<1>0. "fail" \in Outcomes /\ UNCHANGED stepsExecuted
  BY DEF Outcomes, DispatchReturned, Returned
<1>1. CASE Ends(Entry, "fail")
  BY <1>0, <1>1, MovesOn, EntryIsFrame
<1>2. CASE ~Ends(Entry, "fail")
  <2>1. /\ pc' = [pc EXCEPT ![Entry] = "draining"]
        /\ site' = [site EXCEPT ![Entry] = NoSite] /\ turn' = Entry
        /\ UNCHANGED <<frameVars, res, local, queue, workflowCtxStack, outcome>> /\ Keep
    BY <1>2 DEF DispatchReturned, Keep
  <2>2. /\ pc' \in [Frames -> PCs] /\ site' \in [Frames -> Sites]
        /\ res' \in [Frames -> Outcomes] /\ turn' \in 0 .. MaxFrames
    BY <2>1, NoSiteType, EntryIsFrame, FrameNumbers DEF IInv, Struct, FrameTypes, PCs
  <2>3. Struct'
    BY <2>1, <2>2, PositionKeeps DEF IInv
  <2>. QED
    BY <1>0, <2>1, <2>3, KeepFollows DEF IInv, CounterTypes
<1>. QED
  BY <1>1, <1>2

\* Steps that change nothing.
LEMMA StutterPreserves ==
  ASSUME IInv, UNCHANGED vars
  PROVE  IInv'
<1>1. FrameTypes'
  BY DEF vars, IInv, Struct, FrameTypes
<1>2. CounterTypes'
  BY DEF vars, IInv, CounterTypes, OutcomeType
<1>3. BranchesOwned' /\ EntryRuns'
  BY DEF vars, IInv, Struct, BranchesOwned, Branches, EntryRuns
<1>4. EntryContextAtBottom' /\ RoutedReachEntry'
  BY DEF vars, IInv, Struct, EntryContextAtBottom, LiveWorkflows, RoutedReachEntry
<1>. QED
  BY <1>1, <1>2, <1>3, <1>4 DEF IInv, Struct

-----------------------------------------------------------------------------
\* The run starts in executeWorkflow of the entry, its context pushed.
LEMMA InitInvariant == Init => IInv
<1>1. SUFFICES ASSUME Init PROVE IInv
  OBVIOUS
<1>2. FrameTypes
  <2>1. 0 \in 0 .. MaxFrames /\ EntryName \in Workflows /\ Entry \in 0 .. MaxFrames
    BY RuntimeAssumption, EntryIsFrame, FrameNumbers
  <2>2. workflowCtxStack \in Seq(Frames)
    BY <1>1, EntryIsFrame DEF Init
  <2>3. <<>> \in Seq(Frames) /\ <<>> \in Seq(Messages)
    OBVIOUS
  <2>. QED
    BY <1>1, <2>1, <2>2, <2>3, NoSiteType DEF Init, FrameTypes, Kinds, PCs, Outcomes
<1>3. CounterTypes
  BY <1>1, RuntimeAssumption DEF Init, CounterTypes, OutcomeType
<1>4. BranchesOwned /\ RoutedReachEntry
  BY <1>1 DEF Init, BranchesOwned, Branches, RoutedReachEntry
<1>5. EntryRuns
  BY <1>1, EntryIsFrame DEF Init, EntryRuns
<1>6. EntryContextAtBottom
  <2>1. LiveWorkflows = {Entry}
    BY <1>1, EntryIsFrame DEF Init, LiveWorkflows
  <2>2. Cardinality(LiveWorkflows) = 1
    BY <2>1, FS_Singleton
  <2>. QED
    BY <1>1, <2>2 DEF Init, EntryContextAtBottom
<1>. QED
  BY <1>2, <1>3, <1>4, <1>5, <1>6 DEF IInv, Struct

\* Every step of every program keeps the invariant.
LEMMA NextPreserves ==
  ASSUME IInv, ProgramType, [Next]_<<program, vars>>
  PROVE  IInv'
<1>0. Callees \subseteq Targets /\ Handlers \subseteq {"none", "catch", "recover"}
  BY RuntimeAssumption DEF ProgramType, Callees, Handlers
<1>1. ASSUME NEW f \in Frames, Steps(f) PROVE IInv'
  <2>1. CASE \E callee \in Callees, h \in Handlers :
               RunStep(f, callee, h) \/ RunAsyncStep(f, callee, h)
    BY <1>0, <2>1, RunPreserves, RunAsyncPreserves
  <2>3. CASE \E ch \in Channels, callee \in Callees : SendCallStep(f, ch, callee)
    BY <1>0, <2>3, SendCallPreserves
  <2>. QED
    BY <1>1, <2>1, <2>3, FailPreserves, ReturnPreserves, BodyPreserves, SendPreserves,
       EndOfListPreserves DEF Steps
<1>2. ASSUME NEW f \in Frames, Resumes(f) PROVE IInv'
  BY <1>2, ReadPreserves, EnterPreserves, ReadResolvesPreserves, EndOfListPreserves, DrainEndPreserves,
     RunReturnedPreserves, HandlerReturnedPreserves, BodyReturnedPreserves,
     PayloadReturnedPreserves DEF Resumes
<1>3. CASE Drains
  BY <1>3, EntryIsFrame, DrainEndPreserves, DispatchPreserves, NextMessagePreserves,
     DispatchReturnedPreserves DEF Drains
<1>4. CASE Hangs \/ Exited \/ UNCHANGED vars
  BY <1>4, StutterPreserves DEF Hangs, Exited
<1>. QED
  BY <1>1, <1>2, <1>3, <1>4 DEF Next, Continues

\* The inductive invariant holds throughout every run.
THEOREM Invariance == SafeSpec => [](IInv /\ ProgramType)
<1>1. Init => IInv /\ ProgramType
  BY InitInvariant DEF Init, ProgramType
<1>2. IInv /\ ProgramType /\ [Next]_<<program, vars>> => (IInv /\ ProgramType)'
  BY NextPreserves DEF Next, ProgramType
<1>. QED
  BY <1>1, <1>2, PTL DEF SafeSpec

\* Frames, steps in progress, queues and counters keep their types, and the
\* step counter never passes the limit of the circuit breaker, for every
\* program and any number of branches sharing it.
THEOREM TypeCorrect == SafeSpec => []TypeOK
<1>1. IInv /\ ProgramType => TypeOK
  BY DEF ProgramType, IInv, Struct, FrameTypes, CounterTypes, OutcomeType, TypeOK
<1>. QED
  BY <1>1, Invariance, PTL

\* Whatever order async branches push and pop the shared context stack in,
\* it holds one context per running workflow and the entry's at the bottom.
THEOREM ContextsBalanced == SafeSpec => []EntryContextAtBottom
<1>1. IInv => EntryContextAtBottom
  BY DEF IInv, Struct
<1>. QED
  BY <1>1, Invariance, PTL

\* A message on a routed channel is always queued at the entry, however the
\* branches of the run interleave and whichever context its sender read.
THEOREM RoutedDelivered == SafeSpec => []RoutedReachEntry
<1>1. IInv => RoutedReachEntry
  BY DEF IInv, Struct
<1>. QED
  BY <1>1, Invariance, PTL

=============================================================================
