------------------------------ MODULE LeafStep ------------------------------
(***************************************************************************)
(* One awaited leaf step of the runner: a `prompt` with its attempts,      *)
(* watchdogs and backoff (runPromptStep in node-workflow-runtime.ts,       *)
(* prompt-backends.ts, prompt-retry.ts), or a `script` under the idle kill *)
(* (spawnAndCapture, step-idle-warn.ts).  Attempt a of the step owns       *)
(* process a; a codex prompt is an HTTP request and owns none.             *)
(*                                                                         *)
(* Timers may fire in any order, with two exceptions the defaults justify: *)
(* the completion grace (30 s) ends before the idle limit (15 min) that    *)
(* the same chunk restarted, and a long backoff (15 s) outlasts the 5 s    *)
(* from SIGTERM to SIGKILL.  The idle clock restarts with every chunk, so  *)
(* it expires only in silence; the maximum duration of a prompt runs on.   *)
(***************************************************************************)
EXTENDS ProcessGroup

CONSTANTS
  HostLeaves,    \* the kinds of step of a run on the host
  DockerLeaves   \* and of one in a container

Kinds == {"claude", "cursor", "custom", "codex", "script"}

ASSUME LeafAssumption == HostLeaves \subseteq Kinds /\ DockerLeaves \subseteq Kinds

VARIABLES
  kind,        \* what the step is
  phase,       \* where the step stands
  attempt,     \* the attempts begun
  armed,       \* watchdog timers of the current attempt
  printing,    \* chunks come on its pipes, less than an idle limit apart
  answered,    \* attempts whose final answer was read
  fate,        \* how the current attempt's process ended
  escalating,  \* processes sent SIGTERM whose SIGKILL timer is armed
  verdict,     \* what settled each attempt
  aborted      \* the run's AbortController

leafVars == <<kind, phase, attempt, armed, printing, answered, fate, escalating,
              verdict, aborted>>

Over == {"ok", "failed", "aborted"}
Verdicts == {"none", "exit0", "exit1", "signal", "idle", "max", "grace", "spawn", "reply"}

LeafTypeOK ==
  /\ kind \in Kinds
  /\ phase \in {"ready", "running", "backoff"} \cup Over
  /\ attempt \in 0 .. MaxAttempts
  /\ armed \subseteq {"idle", "max", "grace"}
  /\ printing \in BOOLEAN
  /\ answered \subseteq 1 .. attempt
  /\ fate \in {"none", "exit0", "exit1", "signal"}
  /\ escalating \subseteq 1 .. attempt
  /\ verdict \in [Agents -> Verdicts]
  /\ aborted \in BOOLEAN

LeafInit ==
  /\ kind \in IF mode = "host" THEN HostLeaves ELSE DockerLeaves
  /\ phase = "ready"
  /\ attempt = 0
  /\ armed = {}
  /\ printing = FALSE
  /\ answered = {}
  /\ fate = "none"
  /\ escalating = {}
  /\ verdict = [a \in Agents |-> "none"]
  /\ aborted = FALSE

IsPrompt == kind # "script"
LastAttempt == IF IsPrompt THEN MaxAttempts ELSE 1

(***************************************************************************)
(* The attempt settles with v, once; its timers are cleared and its pipes  *)
(* destroyed.  A success ends the step, unless the answer does not fit the *)
(* declared schema, which no retry can mend; a failure is retried after a  *)
(* backoff, whose sleep refuses to start once the run is aborted.          *)
(***************************************************************************)
Settle(v, good) ==
  /\ verdict' = [verdict EXCEPT ![attempt'] = v]
  /\ armed' = {}
  /\ printing' = FALSE
  /\ phase' \in IF good THEN (IF IsPrompt THEN {"ok", "failed"} ELSE {"ok"})
                ELSE IF attempt' >= LastAttempt THEN {"failed"}
                ELSE IF aborted THEN {"aborted"} ELSE {"backoff"}

Begin(watchdogs) ==
  /\ Runner \in alive
  /\ phase = "ready"
  /\ attempt' = attempt + 1
  /\ phase' = "running"
  /\ armed' = watchdogs
  /\ printing' = FALSE
  /\ alive' = IF kind = "codex" THEN alive ELSE alive \cup {attempt'}
  /\ fate' = "none"
  /\ UNCHANGED <<kind, answered, escalating, verdict, aborted>>

StartPrompt ==
  /\ IsPrompt /\ ~aborted
  /\ Begin(IF kind = "codex" THEN {} ELSE {"idle", "max"})

\* The abort of a run stops no script that is yet to start.
StartScript == ~IsPrompt /\ Begin({"idle"})

\* The command is missing or does not start.
StartFails ==
  /\ Runner \in alive
  /\ phase = "ready"
  /\ IsPrompt => ~aborted
  /\ attempt' = attempt + 1
  /\ Settle("spawn", FALSE)
  /\ UNCHANGED <<alive, kind, answered, fate, escalating, aborted>>

AbortedBefore ==
  /\ Runner \in alive
  /\ phase = "ready" /\ aborted /\ IsPrompt
  /\ phase' = "aborted"
  /\ UNCHANGED <<alive, kind, attempt, armed, printing, answered, fate, escalating, verdict, aborted>>

\* The terminal result event of claude or cursor.
Answer ==
  /\ Runner \in alive
  /\ phase = "running" /\ attempt \in alive /\ attempt \notin answered
  /\ kind \in {"claude", "cursor"}
  /\ answered' = answered \cup {attempt}
  /\ armed' = armed \cup {"grace"}
  /\ UNCHANGED <<alive, kind, phase, attempt, printing, fate, escalating, verdict,
                 aborted>>

\* Output starts to flow, from the process or from a descendant that holds
\* its pipes: each chunk bumps the idle clock.
Prints ==
  /\ Runner \in alive
  /\ phase = "running" /\ kind # "codex" /\ ~printing
  /\ attempt \in alive \/ held
  /\ printing' = TRUE
  /\ UNCHANGED <<alive, kind, phase, attempt, armed, answered, fate, escalating, verdict,
                 aborted>>

\* It stops, perhaps to resume.
FallsSilent ==
  /\ printing
  /\ printing' = FALSE
  /\ UNCHANGED <<alive, kind, phase, attempt, armed, answered, fate, escalating, verdict,
                 aborted>>

\* A process ends, by itself or by a signal from outside the run.
Dies(a, how) ==
  /\ a \in alive
  /\ alive' = alive \ {a}
  /\ fate' = IF a = attempt THEN how ELSE fate
  /\ UNCHANGED <<kind, phase, attempt, armed, printing, answered, escalating, verdict, aborted>>

\* "close": the process is gone and nothing holds its pipes.
Close(good) ==
  /\ Runner \in alive
  /\ phase = "running" /\ kind # "codex"
  /\ fate # "none" /\ ~held
  /\ attempt' = attempt
  /\ Settle(fate, good)
  /\ UNCHANGED <<alive, kind, answered, fate, escalating, aborted>>

\* The exit code a signal leaves missing counts as 0.
ClosePrompt == IsPrompt /\ Close(fate \in {"exit0", "signal"})

\* A script without an exit code failed.
CloseScript == ~IsPrompt /\ Close(fate = "exit0")

\* The HTTP answer of codex, which no timer bounds.
Reply(good) ==
  /\ Runner \in alive
  /\ phase = "running" /\ kind = "codex"
  /\ attempt' = attempt
  /\ Settle("reply", good)
  /\ UNCHANGED <<alive, kind, answered, fate, escalating, aborted>>

\* A SIGTERM that is not followed up.
TerminateOnce(a) ==
  /\ alive' = Signalled(alive, a, "SIGTERM")
  /\ fate' = IF a = attempt /\ a \in alive \ alive' THEN "signal" ELSE fate
  /\ UNCHANGED escalating

(***************************************************************************)
(* killProcessTreeEscalating on the attempt's process, which leads no      *)
(* group: SIGTERM now, SIGKILL 5 s later.                                  *)
(***************************************************************************)
Terminate(a) ==
  /\ alive' = Signalled(alive, a, "SIGTERM")
  /\ fate' = IF a = attempt /\ a \in alive \ alive' THEN "signal" ELSE fate
  /\ escalating' = escalating \cup {a}

\* A watchdog that always, or never, leaves a failure behind.
NeverGood(t) == FALSE
AlwaysGood(t) == TRUE

\* Only the completion grace ends an attempt well.
GoodExpiry(t) == t = "grace"

\* An expiry that kills and leaves the settling to the closing pipe.
ExpireKilling(t) ==
  /\ Runner \in alive
  /\ phase = "running"
  /\ t \in armed
  /\ t = "idle" => "grace" \notin armed /\ ~printing
  /\ Terminate(attempt)
  /\ armed' = {}
  /\ UNCHANGED <<kind, phase, attempt, printing, answered, verdict, aborted>>

\* The process is killed, and the attempt settled without waiting for its end.
Expire(t) ==
  /\ Runner \in alive
  /\ phase = "running"
  /\ t \in armed
  /\ t = "idle" => "grace" \notin armed /\ ~printing
  /\ Terminate(attempt)
  /\ attempt' = attempt
  /\ Settle(t, GoodExpiry(t))
  /\ UNCHANGED <<kind, answered, aborted>>

\* Completion grace, idle limit or maximum duration of a backend.
Watchdog(t) == IsPrompt /\ Expire(t)

\* An idle-output kill that waits for the pipes to close.
IdleKillWaits == ~IsPrompt /\ ExpireKilling("idle")

\* The idle-output kill of a script.
IdleKill == ~IsPrompt /\ Expire("idle")

Escalate(a) ==
  /\ Runner \in alive
  /\ a \in escalating
  /\ alive' = Signalled(alive, a, "SIGKILL")
  /\ fate' = IF a = attempt /\ a \in alive THEN "signal" ELSE fate
  /\ escalating' = escalating \ {a}
  /\ UNCHANGED <<kind, phase, attempt, armed, printing, answered, verdict, aborted>>

BackoffOver ==
  /\ Runner \in alive
  /\ phase = "backoff"
  /\ escalating = {}
  /\ phase' = "ready"
  /\ UNCHANGED <<alive, kind, attempt, armed, printing, answered, fate, escalating, verdict, aborted>>

\* abort(): another branch of the run tripped the step limit.
Abort ==
  /\ Runner \in alive
  /\ ~aborted /\ phase \notin Over
  /\ aborted' = TRUE
  /\ phase' = IF phase = "backoff" THEN "aborted" ELSE phase
  /\ UNCHANGED <<alive, kind, attempt, armed, printing, answered, fate, escalating, verdict>>

LeafRuns ==
  \/ StartPrompt \/ StartScript \/ StartFails \/ AbortedBefore
  \/ ClosePrompt \/ CloseScript \/ BackoffOver
  \/ IdleKill \/ \E t \in armed : Watchdog(t)
  \/ \E a \in escalating : Escalate(a)

LeafEnvironment ==
  \/ Answer \/ Prints \/ FallsSilent \/ Abort
  \/ \E good \in BOOLEAN : Reply(good)
  \/ \E a \in Agents, how \in {"exit0", "exit1", "signal"} : Dies(a, how)

-----------------------------------------------------------------------------
\* Two backends of one prompt never work on the same workspace at once: the
\* one a watchdog gave up is dead before the next attempt starts, even if it
\* ignores SIGTERM - as long as the backoff outlasts the 5 s to SIGKILL.
OneBackend ==
  Runner \in alive => Cardinality(alive \cap Agents) <= 1

\* A prompt that gave its final answer is asked again only if its process
\* then failed or the maximum duration cut it off: the completion grace
\* counts as success however the process ends.
AnsweredNotRepeated ==
  \A a \in answered : a < attempt => verdict[a] \in {"exit1", "max"}

\* Once the run is aborted no attempt starts, and no backoff is slept out:
\* a step waiting to retry ends in the turn of the abort.
AbortHalts ==
  /\ aborted => phase # "backoff"
  /\ phase = "aborted" => aborted

\* Both: every attempt beyond the first has a failed one before it and a run that
\* goes on around it.
AttemptsJustified == AnsweredNotRepeated /\ AbortHalts

\* A step succeeds by its process's exit, an answer, or an HTTP reply; the
\* one exception is a backend killed from outside, whose missing exit code
\* counts as 0.
SuccessHasCause ==
  phase = "ok" =>
    \/ verdict[attempt] \in {"exit0", "reply"}
    \/ verdict[attempt] = "grace" /\ attempt \in answered
    \/ verdict[attempt] = "signal" /\ IsPrompt /\ attempt \notin escalating

\* While the runner lives, a step with a process ends, though the process
\* hangs, ignores SIGTERM or leaves its pipes to a descendant: a prompt
\* whatever it prints, a script unless its output goes on for ever, which no
\* limit of the runner cuts off.
LeafEnds ==
  kind # "codex" /\ (kind = "script" => <>[]~printing)
    => <>(phase \in Over \/ Runner \notin alive)

=============================================================================
