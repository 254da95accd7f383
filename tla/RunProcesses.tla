---------------------------- MODULE RunProcesses ----------------------------
(***************************************************************************)
(* One run and all its processes: the parent that waits for it and stops   *)
(* it (RunLifecycle), and in the runner one leaf step with its watchdogs   *)
(* and retries (LeafStep).  They share the processes (ProcessGroup): a     *)
(* stop of the run meets an attempt anywhere, and a runner that ends takes *)
(* its watchdogs with it, but on the host not what it spawned.             *)
(***************************************************************************)
EXTENDS LeafStep, RunLifecycle

vars == <<mode, alive, stubborn, held, leafVars, lifeVars>>

TypeOK == GroupTypeOK /\ LeafTypeOK /\ LifeTypeOK

Init == LifeInit /\ LeafInit

\* The runner exits when its workflow is over, or breaks at any time.
RunnerExits ==
  /\ \/ RunnerEnds("fail")
     \/ phase \in Over /\ RunnerEnds("ok")
  /\ UNCHANGED <<mode, stubborn, held, leafVars>>

Leaf(A) == A /\ UNCHANGED <<mode, stubborn, held, lifeVars>>
Life(A) == A /\ UNCHANGED <<mode, stubborn, held, leafVars>>

Next ==
  \/ Leaf(LeafRuns \/ LeafEnvironment)
  \/ Life(LifeRuns \/ LifeEnvironment)
  \/ RunnerExits

\* Timers fire and the events of a process that ended are delivered; no
\* process is assumed to end by itself, and no answer to come.
Fairness ==
  /\ WF_vars(Leaf(LeafRuns))
  /\ WF_vars(Life(ExitEvent))
  /\ WF_vars(Life(CloseEvent \/ CloseGraceOver))
  /\ WF_vars(Life(RunTimeout)) /\ WF_vars(Life(DockerTimeout))
  /\ \A t \in Kills : WF_vars(Life(ForceKill(t)))

SafeSpec == Init /\ [][Next]_vars
Spec == SafeSpec /\ Fairness

-----------------------------------------------------------------------------
\* A host run that was stopped leaves nothing behind that honours the
\* signal: it reaches the whole group, also when the runner exits first and
\* so cancels the forced kill.  What ignores the signal does survive.
StopReachesGroup ==
  mode = "host" /\ stopped => alive \cap Agents \subseteq stubborn

\* The snapshot is not removed under a live container, unless the daemon did
\* not stop it, the client was lost, or the parent ended abruptly.
SnapshotOutlivesContainer ==
  cleaned /\ (container = "running" \/ (container = "starting" /\ Client \in alive))
    => mishaps # {}

\* No kill is pending for a run that is over, when its pid may belong to
\* somebody else - but for a cancel after the exit event, and the forced
\* kill behind a Docker timeout.
TimersDieWithRun ==
  wait = "done" =>
    timers \subseteq {"dockerKill"} \cup
      (IF "late cancel" \in mishaps THEN {"cancelKill"} ELSE {})

\* `jaiph run` does not report success when its host timeout expired, even
\* if the run exits 0 between the expiry and the report.
TimeoutReported == timedOut /\ report = "ok" => surface = "server"

\* A run that was stopped, or that has a budget, settles, whatever ignores
\* signals or holds pipes; so does one whose child exited.
RunSettles ==
  (stopped \/ timers \cap Budgets # {} \/ exit[Leader] # "none")
    ~> (wait = "done" \/ parent # "up")

=============================================================================
