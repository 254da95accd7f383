---------------------------- MODULE ProcessGroup ----------------------------
(***************************************************************************)
(* The processes of one run, and how they are signalled                    *)
(* (src/src/runtime/kernel/portability.ts).  The run's leader is spawned   *)
(* detached and so leads a process group; what the runner spawns - agent   *)
(* backends, scripts - joins that group and leads none.  A sandboxed run   *)
(* has the `docker run` client as its child, which leads no group either,  *)
(* and its runner lives in a container signals do not reach.               *)
(***************************************************************************)
EXTENDS Integers, FiniteSets

CONSTANT MaxAttempts   \* processes a leaf step may spawn, one per attempt

ASSUME AttemptsAssumption == MaxAttempts \in Nat \ {0}

Runner == 0
Client == -1
Agents == 1 .. MaxAttempts
Processes == Agents \cup {Runner, Client}

VARIABLES
  mode,      \* "host", or "docker": the runner is in a container
  alive,     \* the processes that run
  stubborn,  \* those that ignore SIGINT and SIGTERM
  held       \* a descendant that left the group holds the pipes it inherited

Leader == IF mode = "host" THEN Runner ELSE Client

\* A kill of the leader only, as child.kill() does.
ReachLeader(p) == {p}

\* kill(-pid) reaches the group pid leads, and on ESRCH pid alone.
Reach(p) == IF mode = "host" /\ p = Runner THEN Agents \cup {Runner} ELSE {p}

\* What is left of ps when p's tree gets the signal.
Signalled(ps, p, sig) ==
  {q \in ps : q \in Reach(p) => sig # "SIGKILL" /\ q \in stubborn}

\* Node installs no handler in the runner: SIGINT and SIGTERM end it.
GroupTypeOK ==
  /\ mode \in {"host", "docker"}
  /\ alive \subseteq Processes
  /\ stubborn \subseteq Agents \cup {Client}
  /\ held \in BOOLEAN

=============================================================================
