---------------------------- MODULE RunLifecycle ----------------------------
(***************************************************************************)
(* The parent of one run: `jaiph run`, or one call of `jaiph serve` or     *)
(* `jaiph mcp` (src/src/cli/run/lifecycle.ts, docker-run.ts, the callers   *)
(* in commands/run.ts and shared/workflow-call-exec.ts).  It spawns the    *)
(* runner on the host or the `docker run` client, waits for its exit, and  *)
(* stops it on a signal, a cancel or a timeout, each with a forced kill    *)
(* behind it.  A Docker run may own a snapshot of the workspace, mounted   *)
(* into the container and removed when the run is over.                    *)
(***************************************************************************)
EXTENDS ProcessGroup

VARIABLES
  surface,     \* "cli", or "server" for one call of a long-lived process
  parent,      \* the process that owns the run
  container,   \* of a Docker run
  cleaned,     \* cleanupDocker ran: the snapshot is gone
  exit,        \* the exit code of the runner and of the client
  wait,        \* waitForRunExit: "grace" from the exit event to the close
  timers,      \* armed timers of the parent
  handlers,    \* signals the parent still handles itself
  stopped,     \* somebody asked for the end of the run
  timedOut,    \* armRunTimeout expired
  mishaps,     \* faults and races the parent cannot mend
  report       \* what `jaiph run` or the call answers

lifeVars == <<surface, parent, container, cleaned, exit, wait, timers, handlers,
              stopped, timedOut, mishaps, report>>

Signals == {"SIGINT", "SIGTERM"}
Kills == {"signalKill", "cancelKill", "runTimeoutKill", "dockerKill"}
Budgets == {"runTimeout", "dockerTimeout"}
Mishaps == {"stop missed", "client lost", "crash", "late cancel"}

LifeTypeOK ==
  /\ surface \in {"cli", "server"}
  /\ parent \in {"up", "ended", "dead"}
  /\ container \in {"none", "starting", "running", "gone"}
  /\ cleaned \in BOOLEAN
  /\ exit \in [{Runner, Client} -> {"none", "ok", "fail"}]
  /\ wait \in {"waiting", "grace", "done"}
  /\ timers \subseteq Kills \cup Budgets
  /\ handlers \subseteq Signals
  /\ stopped \in BOOLEAN /\ timedOut \in BOOLEAN
  /\ mishaps \subseteq Mishaps
  /\ report \in {"none", "ok", "fail"}

\* The run has just been spawned.  A host run may have a wall-clock budget
\* (JAIPH_RUN_TIMEOUT), a Docker run its own (JAIPH_DOCKER_TIMEOUT).
LifeInit ==
  /\ surface \in {"cli", "server"}
  /\ parent = "up"
  /\ mode \in {"host", "docker"}
  /\ alive = {Leader}
  /\ stubborn \in {{}, Agents \cup {Client}}
  /\ container = IF mode = "docker" THEN "starting" ELSE "none"
  /\ cleaned = FALSE
  /\ exit = [p \in {Runner, Client} |-> "none"]
  /\ wait = "waiting"
  /\ timers \in {{}, {IF mode = "docker" THEN "dockerTimeout" ELSE "runTimeout"}}
  /\ handlers = IF surface = "cli" THEN Signals ELSE {}
  /\ stopped = FALSE /\ timedOut = FALSE
  /\ mishaps = {}
  /\ held \in BOOLEAN
  /\ report = "none"

-----------------------------------------------------------------------------
\* The rest of the run's state when the processes become `rest`.
BecomeAlive(rest) ==
  /\ alive' = rest
  /\ exit' = [p \in {Runner, Client} |-> IF p \in alive \ rest THEN "fail" ELSE exit[p]]

\* A container takes what runs inside along.
Outside == alive \cap {Client}

\* The image is there and the runner starts.
ContainerStarts ==
  /\ container = "starting" /\ Client \in alive
  /\ container' = "running"
  /\ alive' = alive \cup {Runner}
  /\ UNCHANGED <<surface, parent, cleaned, exit, wait, timers, handlers, stopped,
                 timedOut, mishaps, report>>

\* The runner ends by itself; on the host what it spawned lives on.
RunnerEnds(code) ==
  /\ Runner \in alive
  /\ alive' = IF mode = "docker" THEN Outside ELSE alive \ {Runner}
  /\ container' = IF mode = "docker" THEN "gone" ELSE container
  /\ exit' = [exit EXCEPT ![Runner] = code]
  /\ UNCHANGED <<surface, parent, cleaned, wait, timers, handlers, stopped,
                 timedOut, mishaps, report>>

\* The client passes on the exit code of its container.
ClientEnds ==
  /\ Client \in alive /\ container = "gone"
  /\ alive' = alive \ {Client}
  /\ exit' = [exit EXCEPT ![Client] = exit[Runner]]
  /\ UNCHANGED <<surface, parent, container, cleaned, wait, timers, handlers,
                 stopped, timedOut, mishaps, report>>

\* The client dies or loses the daemon; the container does not notice.
ClientLost ==
  /\ Client \in alive
  /\ BecomeAlive(alive \ {Client})
  /\ mishaps' = mishaps \cup {"client lost"}
  /\ UNCHANGED <<surface, parent, container, cleaned, wait, timers, handlers,
                 stopped, timedOut, report>>

-----------------------------------------------------------------------------
\* A stop that trusts the signal to end the container.
SignalOnly(sig, races) ==
  /\ container' = container
  /\ BecomeAlive(Signalled(alive, Leader, sig))
  /\ mishaps' = mishaps \cup races

(***************************************************************************)
(* stopDockerContainer by name, then the signal to the child's tree.  The  *)
(* stop is best effort: the daemon may not answer in time, and before the  *)
(* container exists there is nothing to stop.  No-op on the host.          *)
(***************************************************************************)
StopAndSignal(sig, races) ==
  \/ /\ container = "running"
     /\ container' = "gone"
     /\ BecomeAlive(Signalled(Outside, Leader, sig))
     /\ mishaps' = mishaps \cup races
  \/ /\ container' = container
     /\ BecomeAlive(Signalled(alive, Leader, sig))
     /\ mishaps' = mishaps \cup races \cup
          (IF container \in {"starting", "running"} THEN {"stop missed"} ELSE {})

\* cleanupDocker, which also clears the timeout of the container.
CleanedUp(armed) == IF mode = "docker" THEN armed \ {"dockerTimeout"} ELSE armed

\* The first SIGINT or SIGTERM of its kind while `jaiph run` waits.
Signal(s) ==
  /\ parent = "up" /\ s \in handlers
  /\ handlers' = handlers \ {s}
  /\ StopAndSignal(s, {})
  /\ cleaned' = (cleaned \/ mode = "docker")
  /\ timers' = CleanedUp(timers) \cup {"signalKill"}
  /\ stopped' = TRUE
  /\ UNCHANGED <<surface, parent, wait, timedOut, report>>

\* The handlers are installed once: a second signal, or one that comes
\* after the run, ends the parent, and no exit guard runs.
SignalAgain(s) ==
  /\ surface = "cli" /\ parent = "up" /\ s \notin handlers
  /\ parent' = "dead"
  /\ timers' = {}
  /\ handlers' = {}
  /\ mishaps' = mishaps \cup {"crash"}
  /\ UNCHANGED <<alive, surface, container, cleaned, exit, wait, stopped,
                 timedOut, report>>

\* The parent exits in mid-run; the exit guard of a Docker run cleans up.
Crash ==
  /\ parent = "up"
  /\ parent' = "dead"
  /\ cleaned' = (cleaned \/ (mode = "docker" /\ wait # "done"))
  /\ timers' = {}
  /\ handlers' = {}
  /\ mishaps' = mishaps \cup {"crash"}
  /\ UNCHANGED <<alive, surface, container, exit, wait, stopped, timedOut, report>>

\* The cancel handle of a call.  Its timer is cleared by the exit event,
\* which a cancel that comes after it has missed.
Cancel ==
  /\ surface = "server" /\ parent = "up" /\ wait # "done"
  /\ StopAndSignal("SIGINT", IF wait = "grace" THEN {"late cancel"} ELSE {})
  /\ timers' = timers \cup {"cancelKill"}
  /\ stopped' = TRUE
  /\ UNCHANGED <<surface, parent, cleaned, wait, handlers, timedOut, report>>

\* armRunTimeout expires.
RunTimeout ==
  /\ parent = "up" /\ "runTimeout" \in timers
  /\ timedOut' = TRUE
  /\ BecomeAlive(Signalled(alive, Leader, "SIGTERM"))
  /\ timers' = (timers \ {"runTimeout"}) \cup {"runTimeoutKill"}
  /\ stopped' = TRUE
  /\ UNCHANGED <<surface, parent, container, cleaned, wait, handlers, mishaps, report>>

\* The timeout of spawnDockerProcess; its forced kill is never cleared.
DockerTimeout ==
  /\ parent = "up" /\ "dockerTimeout" \in timers
  /\ StopAndSignal("SIGTERM", {})
  /\ timers' = (timers \ {"dockerTimeout"}) \cup {"dockerKill"}
  /\ stopped' = TRUE
  /\ UNCHANGED <<surface, parent, cleaned, wait, handlers, timedOut, report>>

ForceKill(t) ==
  /\ parent = "up" /\ t \in timers
  /\ BecomeAlive(Signalled(alive, Leader, "SIGKILL"))
  /\ timers' = timers \ {t}
  /\ UNCHANGED <<surface, parent, container, cleaned, wait, handlers, stopped,
                 timedOut, mishaps, report>>

-----------------------------------------------------------------------------
\* An exit event that leaves the timers alone.
ExitForgets ==
  /\ parent = "up" /\ wait = "waiting" /\ exit[Leader] # "none"
  /\ wait' = "grace"
  /\ UNCHANGED <<alive, surface, parent, container, cleaned, exit, timers, handlers,
                 stopped, timedOut, mishaps, report>>

\* The exit event of the child clears what armRunTimeout and a cancel armed.
ExitEvent ==
  /\ parent = "up" /\ wait = "waiting" /\ exit[Leader] # "none"
  /\ wait' = "grace"
  /\ timers' = timers \ {"runTimeout", "runTimeoutKill", "cancelKill"}
  /\ UNCHANGED <<alive, surface, parent, container, cleaned, exit, handlers, stopped,
                 timedOut, mishaps, report>>

(***************************************************************************)
(* finish: "close" came, or its grace is over.  The signal handlers go,    *)
(* the exit guard's finally cleans up, and a call answers at once.         *)
(***************************************************************************)
Finish ==
  /\ wait' = "done"
  /\ handlers' = {}
  /\ timers' = CleanedUp(timers \ {"signalKill"})
  /\ cleaned' = (cleaned \/ mode = "docker")
  /\ report' = IF surface = "server" THEN exit[Leader] ELSE report
  /\ UNCHANGED <<alive, surface, parent, container, exit, stopped, timedOut,
                 mishaps>>

CloseEvent ==
  /\ parent = "up" /\ wait = "grace" /\ ~held
  /\ Finish

\* No bound on the wait for "close".
CloseOnly ==
  /\ parent = "up" /\ wait = "grace" /\ ~held
  /\ Finish

CloseGraceOver ==
  /\ parent = "up" /\ wait = "grace"
  /\ Finish

\* reportResult, and the end of the command: the message of the host timeout
\* on the captured stderr makes the run fail whatever its exit code.
Report ==
  /\ surface = "cli" /\ parent = "up" /\ wait = "done"
  /\ parent' = "ended"
  /\ report' = IF timedOut THEN "fail" ELSE exit[Leader]
  /\ timers' = {}
  /\ UNCHANGED <<alive, surface, container, cleaned, exit, wait, handlers, stopped,
                 timedOut, mishaps>>

LifeRuns ==
  \/ ExitEvent \/ CloseEvent \/ CloseGraceOver \/ Report
  \/ RunTimeout \/ DockerTimeout
  \/ \E t \in Kills : ForceKill(t)

LifeEnvironment ==
  \/ ContainerStarts \/ ClientEnds \/ ClientLost \/ Crash \/ Cancel
  \/ \E s \in Signals : Signal(s) \/ SignalAgain(s)

=============================================================================
