------------------------ MODULE WorkflowServerProofs ------------------------
(***************************************************************************)
(* Safety of the workflow servers' generations, for any number of calls,   *)
(* reloads and signals: the refcounts are exact, a running call never      *)
(* loses its scripts before the server finishes (for stdio: never), and a  *)
(* superseded generation stays on disk only while it is leased.            *)
(***************************************************************************)
EXTENDS WorkflowServer, FiniteSetTheorems, TLAPS

(***************************************************************************)
(* The inductive invariant.  Generations are handed out in increasing      *)
(* order, so the next reload's dir is fresh; the live generation is never  *)
(* superseded and stays on disk until cleanup; a draining stdio server     *)
(* awaits every call that still runs, and a drain that has not finished    *)
(* has somebody left to await.                                             *)
(***************************************************************************)
GenerationsOrdered ==
  /\ current <= generation
  /\ \A g \in superseded \cup dirs : g <= generation

CurrentIsLive ==
  /\ current \notin superseded
  /\ ~finished => current \in dirs

DrainAwaits ==
  /\ finished => awaited = {} /\ draining /\ dirs = {}
  /\ draining /\ ~finished => awaited # {}
  /\ transport = "stdio" /\ draining => Running \subseteq awaited

LeasedDirsExist ==
  ~finished => \A c \in Running : lease[c] \in dirs

IInv ==
  /\ TypeOK
  /\ RefsCountLeases
  /\ GenerationsOrdered
  /\ CurrentIsLive
  /\ DrainAwaits
  /\ LeasedDirsExist
  /\ SupersededDirsAreLeased

-----------------------------------------------------------------------------
\* The calls in flight under one generation are finitely many.
LEMMA HoldersFinite ==
  ASSUME NEW g
  PROVE  /\ IsFiniteSet(Holders(g))
         /\ Cardinality(Holders(g)) \in Nat
         /\ Cardinality(Holders(g)) = 0 <=> Holders(g) = {}
<1>1. Holders(g) \in SUBSET Calls
  BY DEF Holders, Running
<1>2. IsFiniteSet(Holders(g))
  BY <1>1, FS_Subset, ServerAssumption
<1>. QED
  BY <1>2, FS_CardinalityType, FS_EmptySet

\* Startup serves generation 0 with nothing leased.
LEMMA InitInvariant == Init => IInv
<1>1. SUFFICES ASSUME Init PROVE IInv
  OBVIOUS
<1>2. Running = {} /\ \A g : Holders(g) = {}
  BY <1>1 DEF Init, Running, Holders
<1>0. 0 \in Gens
  BY ServerAssumption DEF Gens
<1>3. TypeOK
  <2>1. refs \in [Gens -> Nat] /\ lease \in [Calls -> Gens] /\ phase \in [Calls -> Phases]
    BY <1>0, <1>1 DEF Init, Phases
  <2>2. signals \in 0 .. 2
    BY <1>1 DEF Init
  <2>. QED
    BY <1>0, <1>1, <2>1, <2>2 DEF Init, TypeOK
<1>4. RefsCountLeases
  BY <1>1, <1>2, FS_EmptySet DEF Init, RefsCountLeases, Gens
<1>5. GenerationsOrdered /\ CurrentIsLive
  BY <1>1 DEF Init, GenerationsOrdered, CurrentIsLive
<1>6. DrainAwaits /\ LeasedDirsExist /\ SupersededDirsAreLeased
  BY <1>1, <1>2 DEF Init, DrainAwaits, LeasedDirsExist, SupersededDirsAreLeased, draining
<1>. QED
  BY <1>3, <1>4, <1>5, <1>6 DEF IInv

\* A request being read changes nothing the invariant speaks of.
LEMMA AcceptPreserves ==
  ASSUME IInv, NEW c \in Calls, AcceptHttp(c)
  PROVE  IInv'
<1>. USE DEF IInv, AcceptHttp, genVars, shutdownVars
<1>1. TypeOK'
  BY DEF TypeOK, Phases
<1>2. Running' = Running /\ \A g : Holders(g)' = Holders(g)
  BY DEF Running, Holders, TypeOK
<1>3. RefsCountLeases' /\ GenerationsOrdered' /\ CurrentIsLive'
  BY <1>2 DEF RefsCountLeases, GenerationsOrdered, CurrentIsLive, Gens
<1>4. DrainAwaits' /\ LeasedDirsExist' /\ SupersededDirsAreLeased'
  BY <1>2 DEF DrainAwaits, LeasedDirsExist, SupersededDirsAreLeased, draining
<1>. QED
  BY <1>1, <1>3, <1>4

\* acquire(): the new call is one more holder of the live generation.
LEMMA StartPreserves ==
  ASSUME IInv, NEW c \in Calls, StartCall(c)
  PROVE  IInv'
<1>. USE DEF IInv, StartCall, genVars, shutdownVars
<1>1. TypeOK'
  BY DEF TypeOK, Phases
<1>2. /\ c \notin Running
      /\ Running' = Running \cup {c}
      /\ \A g \in Gens :
           Holders(g)' = IF g = current THEN Holders(g) \cup {c} ELSE Holders(g)
      /\ \A g \in Gens : c \notin Holders(g)
  BY DEF Running, Holders, TypeOK, Phases
<1>3. RefsCountLeases'
  <2>1. SUFFICES ASSUME NEW g \in Gens
                 PROVE  refs'[g] = Cardinality(Holders(g)')
    BY DEF RefsCountLeases, Gens
  <2>2. refs[g] = Cardinality(Holders(g))
    BY DEF RefsCountLeases
  <2>3. CASE g = current
    <3>1. Cardinality(Holders(g) \cup {c}) = Cardinality(Holders(g)) + 1
      BY <1>2, HoldersFinite, FS_AddElement
    <3>. QED
      BY <2>2, <2>3, <3>1, <1>2 DEF TypeOK
  <2>4. CASE g # current
    BY <2>2, <2>4, <1>2 DEF TypeOK
  <2>. QED
    BY <2>3, <2>4
<1>4. GenerationsOrdered' /\ CurrentIsLive'
  BY DEF GenerationsOrdered, CurrentIsLive
<1>5. DrainAwaits'
  BY <1>2 DEF DrainAwaits, draining
<1>6. LeasedDirsExist'
  BY <1>2 DEF LeasedDirsExist, CurrentIsLive, TypeOK
<1>7. SupersededDirsAreLeased'
  BY <1>2 DEF SupersededDirsAreLeased, TypeOK
<1>. QED
  BY <1>1, <1>3, <1>4, <1>5, <1>6, <1>7

\* release(): the settled call leaves its generation; a dir is deleted only
\* when that was the last holder of a superseded generation.
LEMMA SettlePreserves ==
  ASSUME IInv, NEW c \in Calls, SettleCall(c)
  PROVE  IInv'
<1>. USE DEF IInv, SettleCall, genVars
<1>1. /\ c \in Running
      /\ Running' = Running \ {c}
      /\ c \in Holders(lease[c])
      /\ \A g \in Gens :
           Holders(g)' = IF g = lease[c] THEN Holders(g) \ {c} ELSE Holders(g)
  BY DEF Running, Holders, TypeOK, Phases
<1>2. lease[c] \in Gens /\ refs[lease[c]] \in Nat \ {0}
  <2>1. lease[c] \in Gens
    BY DEF TypeOK
  <2>2. refs[lease[c]] = Cardinality(Holders(lease[c]))
    BY <2>1 DEF RefsCountLeases
  <2>. QED
    BY <1>1, <2>1, <2>2, HoldersFinite
<1>0. /\ dirs' = {} \/ dirs' = DirsAfter(lease[c], refs')
      /\ ~finished' => dirs' = DirsAfter(lease[c], refs')
      /\ finished' => draining /\ awaited' = {} /\ dirs' = {}
      /\ draining /\ ~finished' => awaited' # {}
      /\ finished' \in BOOLEAN
  BY DEF Finish, TypeOK
<1>3. TypeOK'
  <2>1. dirs' \subseteq Gens
    BY <1>0 DEF DirsAfter, TypeOK
  <2>2. phase' \in [Calls -> Phases] /\ refs' \in [Gens -> Nat]
    BY <1>2 DEF TypeOK, Phases
  <2>. QED
    BY <1>0, <2>1, <2>2 DEF TypeOK
<1>4. \A g \in Gens : refs'[g] = Cardinality(Holders(g)')
  <2>1. TAKE g \in Gens
  <2>2. refs[g] = Cardinality(Holders(g))
    BY DEF RefsCountLeases
  <2>3. CASE g = lease[c]
    <3>1. Cardinality(Holders(g) \ {c}) = Cardinality(Holders(g)) - 1
      BY <1>1, <2>3, HoldersFinite, FS_RemoveElement
    <3>. QED
      BY <2>2, <2>3, <3>1, <1>1 DEF TypeOK
  <2>4. CASE g # lease[c]
    BY <2>2, <2>4, <1>1 DEF TypeOK
  <2>. QED
    BY <2>3, <2>4
<1>5. RefsCountLeases'
  BY <1>4 DEF RefsCountLeases, Gens
<1>6. \A g \in Gens : (refs'[g] = 0) <=> (Holders(g)' = {})
  <2>1. TAKE g \in Gens
  <2>2. \/ Holders(g)' = Holders(g)
        \/ Holders(g)' = Holders(g) \ {c}
    BY <1>1
  <2>3. IsFiniteSet(Holders(g)')
    BY <2>2, HoldersFinite, FS_RemoveElement
  <2>. QED
    BY <1>4, <2>3, FS_EmptySet
<1>7. GenerationsOrdered'
  BY <1>0 DEF GenerationsOrdered, DirsAfter
<1>8. CurrentIsLive'
  BY <1>0 DEF CurrentIsLive, DirsAfter
<1>9. DrainAwaits'
  BY <1>0, <1>1 DEF DrainAwaits, draining
<1>10. LeasedDirsExist'
  <2>1. SUFFICES ASSUME ~finished', NEW d \in Running'
                 PROVE  lease[d] \in dirs'
    BY DEF LeasedDirsExist
  <2>2. d \in Running /\ d # c /\ lease[d] \in Gens
    BY <1>1, <2>1 DEF TypeOK, Running
  <2>3. lease[d] \in dirs
    BY <2>2 DEF LeasedDirsExist
  <2>4. d \in Holders(lease[d])'
    BY <2>1, <2>2 DEF Holders
  <2>. QED
    BY <1>0, <1>2, <1>6, <2>1, <2>2, <2>3, <2>4 DEF DirsAfter
<1>11. SupersededDirsAreLeased'
  <2>1. SUFFICES ASSUME NEW g \in superseded \cap dirs'
                 PROVE  Holders(g)' # {}
    BY DEF SupersededDirsAreLeased
  <2>0. dirs' = DirsAfter(lease[c], refs')
    BY <1>0, <2>1
  <2>2. g \in dirs /\ g \in Gens
    BY <2>0, <2>1 DEF DirsAfter, TypeOK
  <2>3. CASE g = lease[c]
    BY <1>6, <2>0, <2>1, <2>2, <2>3 DEF DirsAfter
  <2>4. CASE g # lease[c]
    BY <1>1, <2>1, <2>2, <2>4 DEF SupersededDirsAreLeased
  <2>. QED
    BY <2>3, <2>4
<1>. QED
  BY <1>3, <1>5, <1>7, <1>8, <1>9, <1>10, <1>11

\* The holders of every generation survive a step that touches no call.
LEMMA CallsUntouched ==
  ASSUME phase' = phase, lease' = lease
  PROVE  Running' = Running /\ \A g : Holders(g)' = Holders(g)
BY DEF Running, Holders

\* A reload, whatever its outcome, uses a fresh generation number; swap()
\* deletes the generation it replaces only when nobody leases it.
LEMMA ReloadPreserves ==
  ASSUME IInv, Reload \/ ReloadInvalid \/ ReloadThrows
  PROVE  IInv'
<1>. USE DEF IInv, shutdownVars
<1>1. Running' = Running /\ \A g : Holders(g)' = Holders(g)
  BY CallsUntouched DEF Reload, ReloadInvalid, ReloadThrows
<1>2. /\ generation + 1 \in Gens
      /\ generation + 1 \notin dirs \cup superseded \cup {current}
  BY ServerAssumption DEF Reload, ReloadInvalid, ReloadThrows, TypeOK, Gens, GenerationsOrdered
<1>3. (refs[current] = 0) <=> (Holders(current) = {})
  BY HoldersFinite DEF RefsCountLeases, TypeOK
<1>4. TypeOK'
  BY <1>2 DEF Reload, ReloadInvalid, ReloadThrows, TypeOK
<1>5. RefsCountLeases'
  BY <1>1 DEF Reload, ReloadInvalid, ReloadThrows, RefsCountLeases, Gens
<1>6. GenerationsOrdered'
  <2>1. /\ generation \in Int /\ current \in Int
        /\ superseded \cup dirs \subseteq Int
    BY ServerAssumption DEF TypeOK, Gens
  <2>2. generation' = generation + 1 /\ current' \in {current, generation + 1}
    BY DEF Reload, ReloadInvalid, ReloadThrows
  <2>3. (superseded \cup dirs)' \subseteq superseded \cup dirs \cup {current, generation + 1}
    BY DEF Reload, ReloadInvalid, ReloadThrows
  <2>. QED
    BY <2>1, <2>2, <2>3 DEF GenerationsOrdered
<1>7. CurrentIsLive'
  <2>1. CASE Reload
    BY <1>2, <2>1 DEF Reload, CurrentIsLive
  <2>2. CASE ReloadInvalid
    BY <2>2 DEF ReloadInvalid, CurrentIsLive
  <2>3. CASE ReloadThrows
    BY <2>3 DEF ReloadThrows, CurrentIsLive
  <2>. QED
    BY <2>1, <2>2, <2>3
<1>8. DrainAwaits'
  BY <1>1 DEF Reload, ReloadInvalid, ReloadThrows, DrainAwaits, draining
<1>9. LeasedDirsExist'
  <2>1. \A d \in Running : lease[d] = current => refs[current] # 0
    BY <1>3 DEF Holders
  <2>. QED
    BY <1>1, <2>1 DEF Reload, ReloadInvalid, ReloadThrows, LeasedDirsExist
<1>10. SupersededDirsAreLeased'
  <2>1. SUFFICES ASSUME NEW g \in (superseded \cap dirs)'
                 PROVE  Holders(g) # {}
    BY <1>1 DEF SupersededDirsAreLeased
  <2>2. g # generation + 1
    BY <1>2, <2>1 DEF Reload, ReloadInvalid, ReloadThrows
  <2>3. g \in dirs /\ g \in superseded \cup {current}
    BY <2>1, <2>2 DEF Reload, ReloadInvalid, ReloadThrows
  <2>4. CASE g \in superseded
    BY <2>3, <2>4 DEF SupersededDirsAreLeased
  <2>5. CASE g = current /\ g \notin superseded
    BY <1>3, <2>1, <2>2, <2>5 DEF Reload, ReloadInvalid, ReloadThrows
  <2>. QED
    BY <2>3, <2>4, <2>5
<1>. QED
  BY <1>4, <1>5, <1>6, <1>7, <1>8, <1>9, <1>10

\* Signals: the snapshot of the first one holds every running call, and a
\* drain with nothing to await is over at once.
LEMMA ShutdownPreserves ==
  ASSUME IInv, FirstSignal \/ SecondSignal
  PROVE  IInv'
<1>. USE DEF IInv, genVars
<1>1. Running' = Running /\ \A g : Holders(g)' = Holders(g)
  BY CallsUntouched DEF FirstSignal, SecondSignal
<1>2. /\ dirs' \subseteq dirs
      /\ ~finished' => ~finished /\ dirs' = dirs
      /\ finished' \in BOOLEAN
      /\ UNCHANGED genVars /\ UNCHANGED <<refs, phase, lease>>
  <2>1. CASE FirstSignal
    <3>1. finished' = (Running = {}) /\ dirs' = IF Running = {} THEN {} ELSE dirs
      BY <2>1 DEF FirstSignal, Finish
    <3>2. ~finished
      BY <2>1 DEF FirstSignal, DrainAwaits
    <3>. QED
      BY <2>1, <3>1, <3>2 DEF FirstSignal
  <2>2. CASE SecondSignal
    BY <2>2 DEF SecondSignal, TypeOK
  <2>. QED
    BY <2>1, <2>2
<1>3. TypeOK'
  <2>1. CASE FirstSignal
    BY <1>2, <2>1 DEF FirstSignal, TypeOK, Running
  <2>2. CASE SecondSignal
    BY <2>2 DEF SecondSignal, TypeOK, Running
  <2>. QED
    BY <2>1, <2>2
<1>4. RefsCountLeases'
  BY <1>1 DEF FirstSignal, SecondSignal, RefsCountLeases, Gens
<1>5. GenerationsOrdered' /\ CurrentIsLive'
  BY <1>2 DEF GenerationsOrdered, CurrentIsLive
<1>6. DrainAwaits'
  <2>1. CASE FirstSignal
    <3>1. finished' = (Running = {}) /\ dirs' = IF Running = {} THEN {} ELSE dirs
      BY <2>1 DEF FirstSignal, Finish
    <3>2. awaited' = Running /\ signals' = 1
      BY <2>1 DEF FirstSignal
    <3>3. finished' => awaited' = {} /\ dirs' = {}
      BY <3>1, <3>2
    <3>4. ~finished' => awaited' # {}
      BY <3>1, <3>2
    <3>. QED
      BY <1>1, <3>2, <3>3, <3>4 DEF DrainAwaits, draining
  <2>2. CASE SecondSignal
    BY <1>1, <2>2 DEF SecondSignal, DrainAwaits, draining
  <2>. QED
    BY <2>1, <2>2
<1>7. LeasedDirsExist'
  BY <1>1, <1>2 DEF FirstSignal, SecondSignal, LeasedDirsExist
<1>8. SupersededDirsAreLeased'
  BY <1>1, <1>2 DEF FirstSignal, SecondSignal, SupersededDirsAreLeased
<1>. QED
  BY <1>3, <1>4, <1>5, <1>6, <1>7, <1>8

\* Every step preserves the inductive invariant.
LEMMA NextInvariant == IInv /\ [Next]_vars => IInv'
<1>1. SUFFICES ASSUME IInv, [Next]_vars PROVE IInv'
  OBVIOUS
<1>2. CASE UNCHANGED vars
  <2>1. Running' = Running /\ \A g : Holders(g)' = Holders(g)
    BY <1>2, CallsUntouched DEF vars
  <2>. QED
    BY <1>1, <1>2, <2>1 DEF vars, IInv, TypeOK, RefsCountLeases, GenerationsOrdered,
       CurrentIsLive, DrainAwaits, LeasedDirsExist, SupersededDirsAreLeased, draining
<1>3. ASSUME NEW c \in Calls, AcceptHttp(c) \/ StartCall(c) \/ SettleCall(c)
      PROVE  IInv'
  BY <1>1, <1>3, AcceptPreserves, StartPreserves, SettlePreserves
<1>. QED
  BY <1>1, <1>2, <1>3, ReloadPreserves, ShutdownPreserves DEF Next, Exited

\* IInv holds in every state of every run of the server.
THEOREM Invariance == Spec => []IInv
BY InitInvariant, NextInvariant, PTL DEF Spec, SafeSpec

-----------------------------------------------------------------------------
\* The state keeps its types; in particular no refcount goes below zero
\* (generation.ts, release()).
THEOREM TypeCorrect == Spec => []TypeOK
BY Invariance, PTL DEF IInv

\* Each refcount equals the number of calls in flight under its generation
\* (generation.ts, acquire() and release()).
THEOREM RefcountsExact == Spec => []RefsCountLeases
BY Invariance, PTL DEF IInv

\* No call in flight loses its scripts to a reload or, on stdio, to the
\* shutdown (generation.ts, maybeDelete(); mcp.ts, drain()).
THEOREM ScriptsSafe == Spec => []ScriptsOutliveCall
<1>1. IInv => ScriptsOutliveCall
  <2>1. SUFFICES ASSUME IInv, transport = "stdio" \/ ~finished, NEW c \in Running
                 PROVE  lease[c] \in dirs
    BY DEF ScriptsOutliveCall
  <2>2. CASE finished
    BY <2>1, <2>2 DEF IInv, DrainAwaits
  <2>3. CASE ~finished
    BY <2>1, <2>3 DEF IInv, LeasedDirsExist
  <2>. QED
    BY <2>2, <2>3
<1>. QED
  BY <1>1, Invariance, PTL

\* A superseded generation is on disk only while a call runs from it
\* (generation.ts, maybeDelete()).
THEOREM SupersededLeased == Spec => []SupersededDirsAreLeased
BY Invariance, PTL DEF IInv

=============================================================================
