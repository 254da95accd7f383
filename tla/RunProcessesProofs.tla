------------------------- MODULE RunProcessesProofs -------------------------
(***************************************************************************)
(* Proofs about RunProcesses.  The inductive invariant has a part for the  *)
(* leaf step and one for the parent; each survives the other's steps       *)
(* because those only take processes away, or start the attempt the leaf   *)
(* part speaks of.                                                         *)
(***************************************************************************)
EXTENDS RunProcesses, FiniteSetTheorems, TLAPS

\* At most the current attempt's process lives, and between two attempts
\* only while its forced kill is pending.
AttemptInv ==
  /\ alive \cap Agents \subseteq {attempt}
  /\ phase \in {"ready", "running"} => escalating = {}
  /\ phase # "running" => alive \cap Agents \subseteq escalating
  /\ phase = "ready" => attempt < LastAttempt
  /\ phase = "backoff" => attempt < LastAttempt
  /\ phase = "running" => attempt \in Agents
  /\ phase = "ok" => attempt \in Agents
  /\ answered # {} => kind \in {"claude", "cursor"}
  /\ phase = "running" /\ fate # "none" => attempt \notin alive
  /\ kind = "codex" => alive \cap Agents = {}

\* What became of an attempt that answered.
AnswerInv ==
  /\ phase = "running" /\ attempt \in answered => "grace" \in armed
  /\ phase = "running" /\ "grace" \in armed => attempt \in answered
  /\ phase # "running" => armed = {}
  /\ phase \in {"ready", "backoff"} /\ attempt \in answered =>
       verdict[attempt] \in {"exit1", "max"}
  /\ AnsweredNotRepeated

LeafInv == LeafTypeOK /\ AttemptInv /\ AnswerInv /\ AbortHalts /\ SuccessHasCause

\* Only a container run has a client, a container and a timeout of its own.
ModeInv ==
  /\ mode = "host" => container = "none" /\ Client \notin alive /\ "dockerTimeout" \notin timers
  /\ mode = "docker" => container # "none" /\ "runTimeout" \notin timers
  /\ mode = "docker" /\ Runner \in alive => container = "running"
  /\ cleaned => mode = "docker"

\* A stop was tried on the container before anything kills its client.
StopInv ==
  /\ \A t \in Kills : t \in timers => stopped
  /\ mode = "host" /\ stopped => Runner \notin alive
  /\ mode = "docker" /\ stopped => container = "gone" \/ mishaps # {}
  /\ mode = "docker" /\ exit[Client] # "none" =>
       Client \notin alive /\ (container # "running" \/ mishaps # {})
  /\ wait # "waiting" => exit[Leader] # "none"
  /\ StopReachesGroup /\ SnapshotOutlivesContainer

\* What ends with the run: handlers, budgets and kill timers.
EndInv ==
  /\ wait = "done" => handlers = {} /\ "dockerTimeout" \notin timers
                      /\ "signalKill" \notin timers
  /\ wait # "waiting" => "runTimeout" \notin timers /\ "runTimeoutKill" \notin timers
  /\ wait # "waiting" /\ "cancelKill" \in timers => "late cancel" \in mishaps
  /\ surface = "cli" /\ report # "none" => parent = "ended"
  /\ TimeoutReported

LifeInv == GroupTypeOK /\ LifeTypeOK /\ ModeInv /\ StopInv /\ EndInv

IInv == LeafInv /\ LifeInv

-----------------------------------------------------------------------------
(***************************************************************************)
(* The leaf step.                                                          *)
(***************************************************************************)

LEMMA LeafInitInv == Init => LeafInv
<1> SUFFICES ASSUME Init PROVE LeafInv
  OBVIOUS
<1>1. kind \in Kinds /\ LastAttempt \in Nat \ {0} /\ Leader \notin Agents
  BY AttemptsAssumption, LeafAssumption
     DEF Init, LifeInit, LeafInit, LastAttempt, IsPrompt, Leader, Agents, Runner, Client
<1>2. LeafTypeOK
  <2>1. attempt \in 0 .. MaxAttempts /\ answered \subseteq 1 .. attempt /\ escalating \subseteq 1 .. attempt
    BY AttemptsAssumption DEF Init, LeafInit
  <2>2. verdict \in [Agents -> Verdicts]
    BY DEF Init, LeafInit, Verdicts
  <2> QED BY <1>1, <2>1, <2>2 DEF Init, LeafInit, LeafTypeOK
<1>3. AttemptInv
  BY <1>1 DEF Init, LifeInit, LeafInit, AttemptInv
<1>4. AnswerInv /\ AbortHalts /\ SuccessHasCause
  BY DEF Init, LeafInit, AnswerInv, AnsweredNotRepeated, AbortHalts, SuccessHasCause
<1> QED BY <1>2, <1>3, <1>4 DEF LeafInv

\* An attempt's process leads no group, so a signal to it reaches it alone.
LEMMA AgentAlone ==
  ASSUME NEW a \in Agents, NEW sig
  PROVE  /\ Signalled(alive, a, sig) \subseteq alive
         /\ \A q \in alive : q # a => q \in Signalled(alive, a, sig)
         /\ a \notin Signalled(alive, a, "SIGKILL")
  BY DEF Signalled, Reach, Agents, Runner

\* Another actor's step that starts no attempt keeps the leaf part.
LEMMA OthersKeepLeaf ==
  ASSUME LeafInv, UNCHANGED leafVars, alive' \cap Agents \subseteq alive \cap Agents
  PROVE  LeafInv'
  BY DEF LeafInv, leafVars, LeafTypeOK, AttemptInv, AnswerInv, AbortHalts, SuccessHasCause,
         AnsweredNotRepeated, LastAttempt, IsPrompt


\* The attempt settles: what settling leaves behind, whatever the verdict.
LEMMA SettleKeepsTypes ==
  ASSUME LeafTypeOK, attempt' \in Agents, NEW v \in Verdicts, NEW good \in BOOLEAN, Settle(v, good)
  PROVE  /\ verdict' \in [Agents -> Verdicts]
         /\ verdict'[attempt'] = v
         /\ \A a \in Agents : a # attempt' => verdict'[a] = verdict[a]
         /\ armed' = {} /\ printing' \in BOOLEAN
         /\ phase' \in {"ok", "failed", "aborted", "backoff"}
         /\ phase' = "ok" => good
         /\ phase' = "backoff" => ~good /\ attempt' < LastAttempt /\ ~aborted
         /\ phase' = "aborted" => aborted
<1>0. printing' \in BOOLEAN
  BY DEF Settle
<1>1. LastAttempt \in Nat /\ attempt' \in Nat
  BY AttemptsAssumption DEF LastAttempt, IsPrompt, Agents
<1> QED BY <1>0, <1>1 DEF Settle, LeafTypeOK, Agents

LEMMA StartKeepsLeaf == LeafInv /\ (StartPrompt \/ StartScript) => LeafInv'
<1> SUFFICES ASSUME LeafInv, StartPrompt \/ StartScript PROVE LeafInv'
  OBVIOUS
<1> USE DEF LeafInv
<1>0. PICK w \in SUBSET {"idle", "max"} : Begin(w)
  BY DEF StartPrompt, StartScript
<1>1. attempt' \in Agents /\ attempt \in Nat /\ attempt' = attempt + 1 /\ attempt' \notin answered
  BY <1>0, AttemptsAssumption
     DEF Begin, LeafTypeOK, AttemptInv, LastAttempt, IsPrompt, Agents
<1>2. LeafTypeOK'
  <2>1. printing' \in BOOLEAN
    BY <1>0 DEF Begin
  <2> QED BY <1>0, <1>1, <2>1 DEF Begin, LeafTypeOK, Agents
<1>3. AttemptInv'
  BY <1>0, <1>1 DEF Begin, AttemptInv
<1>4. AnswerInv'
  BY <1>0, <1>1 DEF Begin, AnswerInv, AnsweredNotRepeated, LeafTypeOK
<1>5. AbortHalts' /\ SuccessHasCause'
  BY <1>0 DEF Begin, AbortHalts, SuccessHasCause
<1> QED BY <1>2, <1>3, <1>4, <1>5

LEMMA StartFailsKeepsLeaf == LeafInv /\ StartFails => LeafInv'
<1> SUFFICES ASSUME LeafInv, StartFails PROVE LeafInv'
  OBVIOUS
<1> USE DEF LeafInv
<1>1. attempt' \in Agents /\ attempt \in Nat /\ attempt' = attempt + 1 /\ attempt' \notin answered
  BY AttemptsAssumption DEF StartFails, LeafTypeOK, AttemptInv, LastAttempt, IsPrompt, Agents
<1>2. Settle("spawn", FALSE) /\ "spawn" \in Verdicts
  BY DEF StartFails, Verdicts
<1>3. /\ verdict' \in [Agents -> Verdicts]
      /\ verdict'[attempt'] = "spawn"
      /\ \A a \in Agents : a # attempt' => verdict'[a] = verdict[a]
      /\ armed' = {} /\ printing' \in BOOLEAN
      /\ phase' \in {"ok", "failed", "aborted", "backoff"}
      /\ phase' # "ok"
      /\ phase' = "backoff" => attempt' < LastAttempt /\ ~aborted
      /\ phase' = "aborted" => aborted
  BY <1>1, <1>2, SettleKeepsTypes
<1>4. LeafTypeOK'
  BY <1>1, <1>3 DEF StartFails, LeafTypeOK, Over, Agents
<1>5. AttemptInv'
  BY <1>1, <1>3 DEF StartFails, AttemptInv, LastAttempt, IsPrompt
<1>6. AnswerInv'
  <2>1. AnsweredNotRepeated'
    <3> SUFFICES ASSUME NEW a \in answered, a < attempt' PROVE verdict'[a] \in {"exit1", "max"}
      BY <1>1 DEF AnsweredNotRepeated, StartFails
    <3>1. a \in Agents /\ a # attempt'
      BY <1>1, AttemptsAssumption DEF LeafTypeOK, Agents
    <3>2. verdict[a] \in {"exit1", "max"}
      BY <1>1, <3>1, AttemptsAssumption
         DEF AnswerInv, AnsweredNotRepeated, LeafTypeOK, Agents, StartFails
    <3> QED BY <3>1, <3>2, <1>3
  <2> QED BY <1>1, <1>3, <2>1 DEF AnswerInv, AttemptInv, StartFails
<1>7. AbortHalts' /\ SuccessHasCause'
  BY <1>1, <1>3 DEF StartFails, AbortHalts, SuccessHasCause
<1> QED BY <1>4, <1>5, <1>6, <1>7

LEMMA CloseKeepsLeaf ==
  ASSUME LeafInv, ClosePrompt \/ CloseScript \/ \E good \in BOOLEAN : Reply(good)
  PROVE  LeafInv'
<1> USE DEF LeafInv
<1>1. /\ phase = "running" /\ attempt' = attempt /\ attempt \in Agents /\ attempt \in Nat
      /\ UNCHANGED <<alive, kind, answered, fate, escalating, aborted>>
  BY DEF ClosePrompt, CloseScript, Close, Reply, AttemptInv, Agents
<1>2. PICK v \in {"exit0", "exit1", "signal", "reply"}, good \in BOOLEAN :
        /\ Settle(v, good)
        /\ good => v \in {"exit0", "reply"} \/ (v = "signal" /\ IsPrompt)
        /\ good \/ v = "exit1" \/ kind \in {"script", "codex"}
        /\ v # "reply" => fate = v
  <2>1. CASE ClosePrompt \/ CloseScript
    <3> DEFINE g == fate = "exit0" \/ (fate = "signal" /\ IsPrompt)
    <3>1. Settle(fate, g) /\ g \in BOOLEAN
      <4>1. CASE ClosePrompt
        <5>1. g <=> fate \in {"exit0", "signal"}
          BY <4>1 DEF ClosePrompt
        <5> QED BY <4>1, <5>1 DEF ClosePrompt, Close, Settle
      <4>2. CASE CloseScript
        <5>1. g <=> fate = "exit0"
          BY <4>2 DEF CloseScript
        <5> QED BY <4>2, <5>1 DEF CloseScript, Close, Settle
      <4> QED BY <2>1, <4>1, <4>2
    <3>2. fate \in {"exit0", "exit1", "signal"}
      BY <2>1 DEF ClosePrompt, CloseScript, Close, LeafTypeOK
    <3>3. g \/ fate = "exit1" \/ kind = "script"
      BY <3>2 DEF IsPrompt
    <3> QED BY <3>1, <3>2, <3>3
  <2>2. CASE \E good \in BOOLEAN : Reply(good)
    BY <2>2 DEF Reply
  <2> QED BY <2>1, <2>2
<1>3. /\ verdict' \in [Agents -> Verdicts]
      /\ verdict'[attempt'] = v
      /\ \A a \in Agents : a # attempt' => verdict'[a] = verdict[a]
      /\ armed' = {} /\ printing' \in BOOLEAN
      /\ phase' \in {"ok", "failed", "aborted", "backoff"}
      /\ phase' = "ok" => good
      /\ phase' = "backoff" => ~good /\ attempt' < LastAttempt /\ ~aborted
      /\ phase' = "aborted" => aborted
  BY <1>1, <1>2, SettleKeepsTypes DEF Verdicts
<1>4. LeafTypeOK'
  BY <1>1, <1>3 DEF LeafTypeOK, Over
<1>5. AttemptInv'
  BY <1>1, <1>2, <1>3 DEF AttemptInv, LastAttempt, IsPrompt, ClosePrompt, CloseScript, Close, Reply
<1>6. AnswerInv'
  <2>1. AnsweredNotRepeated'
    <3> SUFFICES ASSUME NEW a \in answered, a < attempt' PROVE verdict'[a] \in {"exit1", "max"}
      BY <1>1 DEF AnsweredNotRepeated, StartFails
    <3>1. a \in Agents /\ a # attempt'
      BY <1>1, AttemptsAssumption DEF LeafTypeOK, Agents
    <3>2. verdict[a] \in {"exit1", "max"}
      BY <1>1, <3>1, AttemptsAssumption
         DEF AnswerInv, AnsweredNotRepeated, LeafTypeOK, Agents, StartFails
    <3> QED BY <3>1, <3>2, <1>3
  <2> QED BY <1>1, <1>2, <1>3, <2>1 DEF AnswerInv, AttemptInv, StartFails
<1>7. AbortHalts' /\ SuccessHasCause'
  BY <1>1, <1>2, <1>3 DEF AbortHalts, SuccessHasCause, AttemptInv, IsPrompt
<1> QED BY <1>4, <1>5, <1>6, <1>7

LEMMA WatchdogKeepsLeaf ==
  ASSUME LeafInv, IdleKill \/ \E t \in armed : Watchdog(t)
  PROVE  LeafInv'
<1> USE DEF LeafInv
<1>0. PICK t \in armed : Expire(t)
  BY DEF Watchdog, IdleKill, Expire
<1>1. /\ phase = "running" /\ attempt' = attempt /\ attempt \in Agents /\ attempt \in Nat
      /\ UNCHANGED <<kind, answered, aborted>>
      /\ t \in {"idle", "max", "grace"} /\ t \in Verdicts
      /\ Settle(t, t = "grace")
      /\ escalating' = escalating \cup {attempt}
      /\ fate' \in {"none", "exit0", "exit1", "signal"}
      /\ t = "idle" => "grace" \notin armed /\ ~printing
  BY <1>0 DEF Expire, Terminate, GoodExpiry, AttemptInv, Agents, LeafTypeOK, Verdicts
<1>2. alive' \subseteq alive
  BY <1>0, <1>1, AgentAlone DEF Expire, Terminate
<1>3. /\ verdict' \in [Agents -> Verdicts]
      /\ verdict'[attempt'] = t
      /\ \A a \in Agents : a # attempt' => verdict'[a] = verdict[a]
      /\ armed' = {} /\ printing' \in BOOLEAN
      /\ phase' \in {"ok", "failed", "aborted", "backoff"}
      /\ phase' = "ok" => t = "grace"
      /\ phase' = "backoff" => ~(t = "grace") /\ attempt' < LastAttempt /\ ~aborted
      /\ phase' = "aborted" => aborted
  BY <1>1, SettleKeepsTypes
<1>4. LeafTypeOK'
  BY <1>1, <1>3 DEF LeafTypeOK, Over, Agents
<1>5. AttemptInv'
  BY <1>1, <1>2, <1>3 DEF AttemptInv, LastAttempt, IsPrompt
<1>6. AnswerInv'
  <2>1. AnsweredNotRepeated'
    <3> SUFFICES ASSUME NEW a \in answered, a < attempt' PROVE verdict'[a] \in {"exit1", "max"}
      BY <1>1 DEF AnsweredNotRepeated, StartFails
    <3>1. a \in Agents /\ a # attempt'
      BY <1>1, AttemptsAssumption DEF LeafTypeOK, Agents
    <3>2. verdict[a] \in {"exit1", "max"}
      BY <1>1, <3>1, AttemptsAssumption
         DEF AnswerInv, AnsweredNotRepeated, LeafTypeOK, Agents, StartFails
    <3> QED BY <3>1, <3>2, <1>3
  <2> QED BY <1>1, <1>3, <2>1 DEF AnswerInv, AttemptInv, StartFails
<1>7. AbortHalts' /\ SuccessHasCause'
  BY <1>1, <1>3 DEF AbortHalts, SuccessHasCause, AnswerInv
<1> QED BY <1>4, <1>5, <1>6, <1>7

LEMMA EscalateKeepsLeaf ==
  ASSUME LeafInv, NEW a \in escalating, Escalate(a)
  PROVE  LeafInv'
<1> USE DEF LeafInv
<1>1. a \in Agents /\ alive' \subseteq alive /\ a \notin alive'
  BY AgentAlone, AttemptsAssumption DEF Escalate, LeafTypeOK, Agents
<1>2. LeafTypeOK'
  BY DEF Escalate, LeafTypeOK
<1>3. AttemptInv'
  BY <1>1 DEF Escalate, AttemptInv, LastAttempt, IsPrompt
<1>4. AnswerInv' /\ AbortHalts'
  BY DEF Escalate, AnswerInv, AnsweredNotRepeated, AbortHalts
<1>5. SuccessHasCause'
  BY DEF Escalate, SuccessHasCause, IsPrompt
<1> QED BY <1>2, <1>3, <1>4, <1>5

\* The steps that touch no process but the one that dies.
LEMMA SmallStepsKeepLeaf ==
  ASSUME LeafInv,
         \/ AbortedBefore \/ BackoffOver \/ Answer \/ Abort \/ Prints \/ FallsSilent
         \/ \E a \in Agents, how \in {"exit0", "exit1", "signal"} : Dies(a, how)
  PROVE  LeafInv'
<1> USE DEF LeafInv, LeafTypeOK, AttemptInv, AnswerInv, AnsweredNotRepeated, AbortHalts,
            SuccessHasCause, LastAttempt, IsPrompt, Over
<1>1. CASE AbortedBefore
  BY <1>1 DEF AbortedBefore
<1>2. CASE BackoffOver
  BY <1>2 DEF BackoffOver
<1>3. CASE Answer
  BY <1>3 DEF Answer, Agents
<1>4. CASE Abort
  BY <1>4 DEF Abort
<1>5. CASE \E a \in Agents, how \in {"exit0", "exit1", "signal"} : Dies(a, how)
  BY <1>5 DEF Dies
<1>6. CASE Prints \/ FallsSilent
  <2>1. printing' \in BOOLEAN
    BY <1>6 DEF Prints, FallsSilent
  <2>2. UNCHANGED <<alive, kind, phase, attempt, armed, answered, fate, escalating, verdict,
                    aborted>>
    BY <1>6 DEF Prints, FallsSilent
  <2> QED BY <2>1, <2>2
<1> QED BY <1>1, <1>2, <1>3, <1>4, <1>5, <1>6

-----------------------------------------------------------------------------
(***************************************************************************)
(* The parent.                                                             *)
(***************************************************************************)

LEMMA LifeInitInv == Init => LifeInv /\ TimersDieWithRun
<1> SUFFICES ASSUME Init PROVE LifeInv /\ TimersDieWithRun
  OBVIOUS
<1>1. GroupTypeOK /\ LifeTypeOK
  BY DEF Init, LifeInit, GroupTypeOK, LifeTypeOK, Leader, Processes, Signals, Budgets, Kills
<1>2. ModeInv
  BY DEF Init, LifeInit, ModeInv, Leader, Runner, Client
<1>3. StopInv
  BY DEF Init, LifeInit, StopInv, StopReachesGroup, SnapshotOutlivesContainer, Leader, Kills,
         Runner, Client
<1>4. EndInv /\ TimersDieWithRun
  BY DEF Init, LifeInit, EndInv, TimeoutReported, TimersDieWithRun
<1> QED BY <1>1, <1>2, <1>3, <1>4 DEF LifeInv

\* A step of the runner that spawns at most an agent keeps the parent part.
LEMMA LeafKeepsLife ==
  ASSUME LifeInv, UNCHANGED <<mode, stubborn, held, lifeVars>>,
         alive' \subseteq alive \cup Agents,
         Runner \in alive' \/ alive' \subseteq alive, Runner \in alive' => Runner \in alive
  PROVE  LifeInv'
<1>1. (GroupTypeOK /\ LifeTypeOK)'
  BY DEF LifeInv, GroupTypeOK, LifeTypeOK, lifeVars, Processes
<1>2. ModeInv'
  BY DEF LifeInv, ModeInv, lifeVars, Agents, Client
<1>3. StopInv'
  BY DEF LifeInv, StopInv, StopReachesGroup, SnapshotOutlivesContainer, lifeVars, Agents, Client,
         Leader
<1>4. EndInv'
  BY DEF LifeInv, EndInv, TimeoutReported, lifeVars
<1> QED BY <1>1, <1>2, <1>3, <1>4 DEF LifeInv

\* The parent's part says what TimersDieWithRun asks for.
LEMMA EndOfTimers == LifeInv => TimersDieWithRun
  BY DEF LifeInv, EndInv, LifeTypeOK, TimersDieWithRun, Kills, Budgets

\* A signal to the leader takes processes away: on the host, the runner and
\* every agent that honours it; in a container run, at most the client.
LEMMA SignalToLeader ==
  ASSUME GroupTypeOK, NEW ps \in SUBSET Processes, NEW sig \in Signals \cup {"SIGKILL"}
  PROVE  /\ Signalled(ps, Leader, sig) \subseteq ps
         /\ mode = "host" => /\ Runner \notin Signalled(ps, Leader, sig)
                             /\ Signalled(ps, Leader, sig) \cap Agents \subseteq stubborn
         /\ mode = "docker" => ps \ {Client} \subseteq Signalled(ps, Leader, sig)
  BY DEF GroupTypeOK, Signalled, Leader, Reach, Runner, Client, Agents, Processes

LEMMA Becoming ==
  ASSUME LifeTypeOK, NEW rest \in SUBSET alive, BecomeAlive(rest)
  PROVE  /\ alive' = rest
         /\ exit' \in [{Runner, Client} -> {"none", "ok", "fail"}]
         /\ \A p \in {Runner, Client} : exit'[p] = (IF p \in alive \ rest THEN "fail" ELSE exit[p])
  BY DEF BecomeAlive, LifeTypeOK

\* What a stop leaves behind: a container that is gone, or a mishap.
LEMMA Stopping ==
  ASSUME LifeInv, NEW sig \in Signals, NEW races \in SUBSET Mishaps, StopAndSignal(sig, races)
  PROVE  /\ alive' \subseteq alive
         /\ exit' \in [{Runner, Client} -> {"none", "ok", "fail"}]
         /\ \A p \in {Runner, Client} : exit'[p] = (IF p \in alive \ alive' THEN "fail" ELSE exit[p])
         /\ mishaps \cup races \subseteq mishaps' /\ mishaps' \subseteq Mishaps
         /\ mode = "host" => /\ container' = "none" /\ Runner \notin alive'
                             /\ alive' \cap Agents \subseteq stubborn
         /\ mode = "docker" => /\ container' = "gone" \/ mishaps' # {}
                               /\ Runner \in alive' => container' = "running"
         /\ container' \in {container, "gone"}
<1>0. GroupTypeOK /\ LifeTypeOK /\ ModeInv /\ Outside \subseteq alive /\ alive \subseteq Processes
  BY DEF LifeInv, GroupTypeOK, Outside
<1>1. CASE /\ container = "running" /\ container' = "gone"
           /\ BecomeAlive(Signalled(Outside, Leader, sig)) /\ mishaps' = mishaps \cup races
  <2>1. Signalled(Outside, Leader, sig) \in SUBSET alive /\ Signalled(Outside, Leader, sig) \subseteq Outside
    BY <1>0 DEF Signalled
  <2>2. mode = "docker" /\ Runner \notin Outside
    BY <1>0, <1>1 DEF ModeInv, GroupTypeOK, Outside, Runner, Client
  <2> QED BY <1>0, <1>1, <2>1, <2>2, Becoming DEF LifeTypeOK
<1>2. CASE /\ container' = container
           /\ BecomeAlive(Signalled(alive, Leader, sig))
           /\ mishaps' = mishaps \cup races \cup
                (IF container \in {"starting", "running"} THEN {"stop missed"} ELSE {})
  <2>1. Signalled(alive, Leader, sig) \in SUBSET alive
    BY <1>0 DEF Signalled
  <2>2. alive' = Signalled(alive, Leader, sig)
    BY <1>2 DEF BecomeAlive
  <2>3. mode = "docker" => container \in {"starting", "running", "gone"}
    BY <1>0 DEF LifeInv, ModeInv, StopInv, LifeTypeOK
  <2>4. /\ exit' \in [{Runner, Client} -> {"none", "ok", "fail"}]
        /\ \A p \in {Runner, Client} : exit'[p] = (IF p \in alive \ alive' THEN "fail" ELSE exit[p])
    BY <1>0, <1>2, <2>1, <2>2, Becoming
  <2>5. mode = "host" => /\ container' = "none" /\ Runner \notin alive'
                         /\ alive' \cap Agents \subseteq stubborn
    BY <1>0, <1>2, <2>2, SignalToLeader DEF ModeInv
  <2>6. /\ mishaps \cup races \subseteq mishaps' /\ mishaps' \subseteq Mishaps
        /\ container \in {"starting", "running"} => mishaps' # {}
    BY <1>0, <1>2 DEF LifeTypeOK, Mishaps
  <2>7. mode = "docker" => /\ container' = "gone" \/ mishaps' # {}
                           /\ Runner \in alive' => container' = "running"
    BY <1>0, <1>2, <2>1, <2>2, <2>3, <2>6 DEF ModeInv
  <2> QED BY <1>2, <2>1, <2>2, <2>4, <2>5, <2>6, <2>7
<1> QED BY <1>1, <1>2 DEF StopAndSignal

LEMMA ContainerStartsKeepsLife == LifeInv /\ ContainerStarts /\ UNCHANGED <<mode, stubborn, held>> => LifeInv'
<1> SUFFICES ASSUME LifeInv, ContainerStarts, UNCHANGED <<mode, stubborn, held>> PROVE LifeInv'
  OBVIOUS
<1> USE DEF LifeInv, ContainerStarts
<1>1. mode = "docker"
  BY DEF ModeInv, GroupTypeOK
<1>2. (GroupTypeOK /\ LifeTypeOK)'
  BY DEF GroupTypeOK, LifeTypeOK, Processes
<1>3. ModeInv'
  BY <1>1 DEF ModeInv
<1>4. StopInv'
  BY <1>1 DEF StopInv, StopReachesGroup, SnapshotOutlivesContainer, Leader
<1>5. EndInv'
  BY DEF EndInv, TimeoutReported
<1> QED BY <1>2, <1>3, <1>4, <1>5

LEMMA EndingsKeepLife ==
  ASSUME LifeInv, UNCHANGED <<mode, stubborn, held>>,
         ClientEnds \/ ClientLost \/ \E code \in {"ok", "fail"} : RunnerEnds(code)
  PROVE  LifeInv' /\ alive' \subseteq alive
<1> USE DEF LifeInv
<1>1. CASE ClientEnds
  <2> USE <1>1 DEF ClientEnds
  <2>1. mode = "docker"
    BY DEF ModeInv, GroupTypeOK
  <2>2. (GroupTypeOK /\ LifeTypeOK)'
    BY DEF GroupTypeOK, LifeTypeOK
  <2>3. ModeInv'
    BY DEF ModeInv
  <2>4. StopInv'
    BY <2>1 DEF StopInv, StopReachesGroup, SnapshotOutlivesContainer, Leader, LifeTypeOK,
                Runner, Client
  <2>5. EndInv'
    BY DEF EndInv, TimeoutReported
  <2> QED BY <2>2, <2>3, <2>4, <2>5
<1>2. CASE ClientLost
  <2> USE <1>2 DEF ClientLost
  <2>0. alive \ {Client} \in SUBSET alive
    OBVIOUS
  <2>1. mode = "docker"
    BY DEF ModeInv, GroupTypeOK
  <2>2. (GroupTypeOK /\ LifeTypeOK)'
    <3>1. alive' \subseteq alive /\ exit' \in [{Runner, Client} -> {"none", "ok", "fail"}]
      BY <2>0, Becoming
    <3>2. mishaps' \subseteq Mishaps
      BY DEF LifeTypeOK, Mishaps
    <3>3. GroupTypeOK'
      BY <3>1 DEF GroupTypeOK
    <3>4. LifeTypeOK'
      BY <3>1, <3>2 DEF LifeTypeOK
    <3> QED BY <3>3, <3>4
  <2>3. ModeInv'
    BY <2>0, Becoming DEF ModeInv
  <2>4. StopInv'
    BY <2>0, <2>1, Becoming DEF StopInv, StopReachesGroup, SnapshotOutlivesContainer, Leader
  <2>5. EndInv'
    BY DEF EndInv, TimeoutReported
  <2> QED BY <2>0, <2>2, <2>3, <2>4, <2>5, Becoming
<1>3. CASE \E code \in {"ok", "fail"} : RunnerEnds(code)
  <2> USE DEF RunnerEnds
  <2> PICK code \in {"ok", "fail"} : RunnerEnds(code)
    BY <1>3
  <2>0. alive' \subseteq alive /\ (mode = "docker" => Runner \notin alive')
    BY DEF Outside, Runner, Client
  <2>2. (GroupTypeOK /\ LifeTypeOK)'
    BY <2>0 DEF GroupTypeOK, LifeTypeOK
  <2>3. ModeInv'
    BY <2>0 DEF ModeInv, GroupTypeOK
  <2>4. StopInv'
    BY <2>0 DEF StopInv, StopReachesGroup, SnapshotOutlivesContainer, Leader, LifeTypeOK,
                GroupTypeOK, Outside, Runner, Client
  <2>5. EndInv'
    BY DEF EndInv, TimeoutReported
  <2> QED BY <2>0, <2>2, <2>3, <2>4, <2>5
<1> QED BY <1>1, <1>2, <1>3

\* What every stop does: a signal, a cancel and a container timeout differ in
\* their timers and in whether they clean up.
LEMMA StopsKeepGroup ==
  ASSUME LifeInv, UNCHANGED <<mode, stubborn, held>>, NEW sig \in Signals,
         NEW races \in SUBSET Mishaps, StopAndSignal(sig, races), stopped' = TRUE,
         UNCHANGED <<wait, surface, parent, timedOut, report>>,
         cleaned' \in {cleaned, cleaned \/ mode = "docker"}
  PROVE  StopInv' /\ GroupTypeOK'
<1> USE DEF LifeInv
<1>1. GroupTypeOK'
  BY Stopping DEF GroupTypeOK
<1>2. mode = "host" => /\ Runner \notin alive' /\ alive' \cap Agents \subseteq stubborn
                       /\ ~cleaned'
  BY Stopping DEF ModeInv
<1>3. mode = "docker" => container' = "gone" \/ mishaps' # {}
  BY Stopping
<1>4. exit[Leader] # "none" => exit'[Leader] # "none"
  BY Stopping DEF Leader
<1>5. mode = "docker" /\ exit'[Client] # "none" => Client \notin alive'
  BY Stopping DEF StopInv
<1>6. mode = "host" \/ mode = "docker"
  BY DEF GroupTypeOK
<1> QED BY <1>1, <1>2, <1>3, <1>4, <1>5, <1>6
        DEF StopInv, StopReachesGroup, SnapshotOutlivesContainer, Leader

LEMMA SignalKeepsLife ==
  ASSUME LifeInv, UNCHANGED <<mode, stubborn, held>>, NEW s \in Signals, Signal(s)
  PROVE  LifeInv' /\ alive' \subseteq alive
<1> USE DEF LifeInv, Signal
<1>1. StopInv' /\ GroupTypeOK'
  BY StopsKeepGroup
<1>2. LifeTypeOK'
  BY Stopping DEF LifeTypeOK, CleanedUp, Kills
<1>3. ModeInv'
  BY Stopping DEF ModeInv, CleanedUp
<1>4. EndInv'
  BY Stopping DEF EndInv, TimeoutReported, CleanedUp
<1> QED BY <1>1, <1>2, <1>3, <1>4, Stopping

LEMMA CancelKeepsLife ==
  ASSUME LifeInv, UNCHANGED <<mode, stubborn, held>>, Cancel
  PROVE  LifeInv' /\ alive' \subseteq alive
<1> USE DEF LifeInv
<1> DEFINE races == IF wait = "grace" THEN {"late cancel"} ELSE {}
<1>0. races \in SUBSET Mishaps /\ "SIGINT" \in Signals /\ StopAndSignal("SIGINT", races)
  BY DEF Cancel, Mishaps, Signals
<1> HIDE DEF races
<1>1. StopInv' /\ GroupTypeOK'
  BY <1>0, StopsKeepGroup DEF Cancel
<1>2. LifeTypeOK'
  BY <1>0, Stopping DEF Cancel, LifeTypeOK, Kills
<1>3. ModeInv'
  BY <1>0, Stopping DEF Cancel, ModeInv
<1>4. EndInv'
  BY <1>0, Stopping DEF Cancel, EndInv, TimeoutReported, races, LifeTypeOK
<1> QED BY <1>0, <1>1, <1>2, <1>3, <1>4, Stopping

LEMMA DockerTimeoutKeepsLife ==
  ASSUME LifeInv, UNCHANGED <<mode, stubborn, held>>, DockerTimeout
  PROVE  LifeInv' /\ alive' \subseteq alive
<1> USE DEF LifeInv
<1>0. "SIGTERM" \in Signals /\ StopAndSignal("SIGTERM", {}) /\ {} \in SUBSET Mishaps
  BY DEF DockerTimeout, Signals
<1>1. StopInv' /\ GroupTypeOK'
  BY <1>0, StopsKeepGroup DEF DockerTimeout
<1>2. LifeTypeOK'
  BY <1>0, Stopping DEF DockerTimeout, LifeTypeOK, Kills
<1>3. ModeInv'
  BY <1>0, Stopping DEF DockerTimeout, ModeInv
<1>4. EndInv'
  BY <1>0, Stopping DEF DockerTimeout, EndInv, TimeoutReported
<1> QED BY <1>0, <1>1, <1>2, <1>3, <1>4, Stopping

LEMMA RunTimeoutKeepsLife ==
  ASSUME LifeInv, UNCHANGED <<mode, stubborn, held>>, RunTimeout
  PROVE  LifeInv' /\ alive' \subseteq alive
<1> USE DEF LifeInv
<1>1. mode = "host" /\ surface = surface' /\ parent = "up" /\ wait = "waiting"
  BY DEF RunTimeout, ModeInv, GroupTypeOK, EndInv, LifeTypeOK
<1>2. /\ alive' \subseteq alive /\ Runner \notin alive' /\ alive' \cap Agents \subseteq stubborn
      /\ exit' \in [{Runner, Client} -> {"none", "ok", "fail"}]
  <2>1. "SIGTERM" \in Signals /\ alive \in SUBSET Processes
    BY DEF Signals, GroupTypeOK
  <2>2. Signalled(alive, Leader, "SIGTERM") \in SUBSET alive
    BY <2>1, SignalToLeader
  <2>3. /\ Runner \notin Signalled(alive, Leader, "SIGTERM")
        /\ Signalled(alive, Leader, "SIGTERM") \cap Agents \subseteq stubborn
    BY <1>1, <2>1, SignalToLeader
  <2>4. BecomeAlive(Signalled(alive, Leader, "SIGTERM"))
    BY DEF RunTimeout
  <2>5. /\ alive' = Signalled(alive, Leader, "SIGTERM")
        /\ exit' \in [{Runner, Client} -> {"none", "ok", "fail"}]
    BY <2>2, <2>4, Becoming
  <2> QED BY <2>2, <2>3, <2>5
<1>3. (GroupTypeOK /\ LifeTypeOK)'
  BY <1>2 DEF RunTimeout, GroupTypeOK, LifeTypeOK, Kills
<1>4. ModeInv'
  BY <1>1, <1>2 DEF RunTimeout, ModeInv
<1>5. StopInv'
  BY <1>1, <1>2 DEF RunTimeout, StopInv, StopReachesGroup, SnapshotOutlivesContainer, ModeInv
<1>6. EndInv'
  BY <1>1 DEF RunTimeout, EndInv, TimeoutReported, LifeTypeOK
<1> QED BY <1>2, <1>3, <1>4, <1>5, <1>6

LEMMA ForceKillKeepsLife ==
  ASSUME LifeInv, UNCHANGED <<mode, stubborn, held>>, NEW t \in Kills, ForceKill(t)
  PROVE  LifeInv' /\ alive' \subseteq alive
<1> USE DEF LifeInv
<1>1. stopped /\ t \in timers
  BY DEF ForceKill, StopInv
<1>2. /\ alive' \subseteq alive
      /\ exit' \in [{Runner, Client} -> {"none", "ok", "fail"}]
      /\ \A p \in {Runner, Client} : exit'[p] = (IF p \in alive \ alive' THEN "fail" ELSE exit[p])
  <2>1. alive \in SUBSET Processes /\ Signalled(alive, Leader, "SIGKILL") \in SUBSET alive
    BY SignalToLeader DEF GroupTypeOK
  <2> QED BY <2>1, Becoming DEF ForceKill
<1>3. (GroupTypeOK /\ LifeTypeOK)'
  BY <1>2 DEF ForceKill, GroupTypeOK, LifeTypeOK
<1>4. ModeInv'
  BY <1>2 DEF ForceKill, ModeInv
<1>5. StopInv'
  <2>1. mode = "host" \/ mode = "docker"
    BY DEF GroupTypeOK
  <2> QED BY <1>1, <1>2, <2>1
          DEF ForceKill, StopInv, StopReachesGroup, SnapshotOutlivesContainer, ModeInv, Leader
<1>6. EndInv'
  BY DEF ForceKill, EndInv, TimeoutReported
<1> QED BY <1>2, <1>3, <1>4, <1>5, <1>6

LEMMA ParentKeepsLife ==
  ASSUME LifeInv, UNCHANGED <<mode, stubborn, held>>,
         \/ ExitEvent \/ CloseEvent \/ CloseGraceOver \/ Report \/ Crash
         \/ \E s \in Signals : SignalAgain(s)
  PROVE  LifeInv' /\ alive' \subseteq alive
<1> USE DEF LifeInv, ModeInv, StopInv, StopReachesGroup, SnapshotOutlivesContainer, EndInv,
            TimeoutReported, GroupTypeOK, LifeTypeOK
<1>1. CASE ExitEvent
  <2> USE <1>1 DEF ExitEvent
  <2>1. (GroupTypeOK /\ LifeTypeOK /\ ModeInv)'
    OBVIOUS
  <2>2. StopInv'
    BY DEF Leader
  <2>3. EndInv'
    OBVIOUS
  <2> QED BY <2>1, <2>2, <2>3
<1>2. CASE CloseEvent \/ CloseGraceOver
  <2> USE <1>2 DEF CloseEvent, CloseGraceOver, Finish, CleanedUp
  <2>1. exit[Leader] \in {"ok", "fail"} /\ parent = "up" /\ wait = "grace"
    BY DEF Leader
  <2>2. (GroupTypeOK /\ LifeTypeOK)' /\ ModeInv'
    BY <2>1
  <2>3. StopInv'
    <3>1. mode = "docker" => container # "running" \/ mishaps # {}
      BY <2>1 DEF Leader
    <3>2. mode = "docker" => Client \notin alive
      BY <2>1 DEF Leader
    <3>3. cleaned' => mode = "docker"
      OBVIOUS
    <3>4. UNCHANGED <<alive, container, exit, stopped, mishaps>> /\ timers' \subseteq timers
      OBVIOUS
    <3>5. SnapshotOutlivesContainer'
      BY <3>1, <3>2, <3>3, <3>4
    <3>6. StopReachesGroup'
      BY <3>4
    <3> QED BY <2>1, <3>4, <3>5, <3>6 DEF Leader
  <2>4. EndInv'
    BY <2>1
  <2> QED BY <2>2, <2>3, <2>4
<1>3. CASE Report
  BY <1>3 DEF Report, Leader
<1>4. CASE Crash \/ \E s \in Signals : SignalAgain(s)
  <2>1. /\ parent' = "dead" /\ timers' = {} /\ handlers' = {} /\ mishaps' # {}
        /\ mishaps' \subseteq Mishaps
        /\ UNCHANGED <<alive, surface, container, exit, wait, stopped, timedOut, report>>
        /\ parent = "up" /\ cleaned' \in BOOLEAN
    BY <1>4 DEF Crash, SignalAgain, Mishaps
  <2>2. cleaned' => cleaned \/ mode = "docker"
    BY <1>4 DEF Crash, SignalAgain
  <2>3. (GroupTypeOK /\ LifeTypeOK)'
    BY <2>1
  <2>4. ModeInv'
    BY <2>1, <2>2
  <2>5. StopInv'
    BY <2>1 DEF Leader
  <2>6. EndInv'
    BY <2>1
  <2> QED BY <2>1, <2>3, <2>4, <2>5, <2>6
<1> QED BY <1>1, <1>2, <1>3, <1>4

-----------------------------------------------------------------------------
(***************************************************************************)
(* The two together.                                                       *)
(***************************************************************************)

\* The runner's steps spawn nothing but the current attempt.
LEMMA LeafSpawnsAgents ==
  ASSUME LeafInv, LeafRuns \/ LeafEnvironment
  PROVE  /\ alive' \subseteq alive \cup Agents
         /\ Runner \in alive' \/ alive' \subseteq alive
         /\ Runner \in alive' => Runner \in alive
<1>1. CASE StartPrompt \/ StartScript
  <2>1. attempt' \in Agents
    BY <1>1, AttemptsAssumption
       DEF StartPrompt, StartScript, Begin, LeafInv, LeafTypeOK, AttemptInv, LastAttempt, IsPrompt, Agents
  <2> QED BY <1>1, <2>1 DEF StartPrompt, StartScript, Begin, Agents, Runner
<1>2. CASE StartFails \/ AbortedBefore \/ ClosePrompt \/ CloseScript \/ BackoffOver \/ Answer \/ Abort
           \/ Prints \/ FallsSilent
           \/ \E good \in BOOLEAN : Reply(good)
  BY <1>2 DEF StartFails, AbortedBefore, ClosePrompt, CloseScript, Close, BackoffOver, Answer, Abort, Reply,
            Prints, FallsSilent
<1>3. CASE IdleKill \/ (\E t \in armed : Watchdog(t)) \/ (\E a \in escalating : Escalate(a))
  BY <1>3 DEF Watchdog, IdleKill, Expire, Terminate, Escalate, Signalled
<1>4. CASE \E a \in Agents, how \in {"exit0", "exit1", "signal"} : Dies(a, how)
  BY <1>4 DEF Dies
<1> QED BY <1>1, <1>2, <1>3, <1>4 DEF LeafRuns, LeafEnvironment

LEMMA LeafStepInv == IInv /\ Leaf(LeafRuns \/ LeafEnvironment) => IInv'
<1> SUFFICES ASSUME IInv, Leaf(LeafRuns \/ LeafEnvironment) PROVE IInv'
  OBVIOUS
<1>1. LeafInv /\ LifeInv /\ (LeafRuns \/ LeafEnvironment)
  BY DEF IInv, Leaf
<1>2. LeafInv'
  BY <1>1, StartKeepsLeaf, StartFailsKeepsLeaf, CloseKeepsLeaf, WatchdogKeepsLeaf,
     EscalateKeepsLeaf, SmallStepsKeepLeaf DEF LeafRuns, LeafEnvironment
<1>3. LifeInv'
  BY <1>1, LeafSpawnsAgents, LeafKeepsLife DEF Leaf
<1> QED BY <1>2, <1>3 DEF IInv

LEMMA LifeStepInv == IInv /\ (Life(LifeRuns \/ LifeEnvironment) \/ RunnerExits) => IInv'
<1> SUFFICES ASSUME IInv, Life(LifeRuns \/ LifeEnvironment) \/ RunnerExits PROVE IInv'
  OBVIOUS
<1>1. LeafInv /\ LifeInv /\ UNCHANGED <<mode, stubborn, held, leafVars>>
  BY DEF IInv, Life, RunnerExits
<1>2. LifeInv' /\ alive' \cap Agents \subseteq alive \cap Agents
  <2>1. CASE ContainerStarts
    BY <1>1, <2>1, ContainerStartsKeepsLife DEF ContainerStarts, Agents, Runner
  <2>2. CASE ClientEnds \/ ClientLost \/ \E code \in {"ok", "fail"} : RunnerEnds(code)
    BY <1>1, <2>2, EndingsKeepLife
  <2>3. CASE Cancel \/ RunTimeout \/ DockerTimeout
    BY <1>1, <2>3, CancelKeepsLife, RunTimeoutKeepsLife, DockerTimeoutKeepsLife
  <2>4. CASE (\E s \in Signals : Signal(s)) \/ (\E t \in Kills : ForceKill(t))
    BY <1>1, <2>4, SignalKeepsLife, ForceKillKeepsLife
  <2>5. CASE \/ ExitEvent \/ CloseEvent \/ CloseGraceOver \/ Report \/ Crash
             \/ \E s \in Signals : SignalAgain(s)
    BY <1>1, <2>5, ParentKeepsLife
  <2> QED BY <2>1, <2>2, <2>3, <2>4, <2>5
          DEF Life, LifeRuns, LifeEnvironment, RunnerExits
<1>3. LeafInv'
  BY <1>1, <1>2, OthersKeepLeaf
<1> QED BY <1>2, <1>3 DEF IInv

\* The inductive invariant holds in every state of every run.
THEOREM Invariance == SafeSpec => []IInv
<1>1. Init => IInv
  BY LeafInitInv, LifeInitInv DEF IInv
<1>2. IInv /\ [Next]_vars => IInv'
  <2> SUFFICES ASSUME IInv, [Next]_vars PROVE IInv'
    OBVIOUS
  <2>1. CASE Next
    BY <2>1, LeafStepInv, LifeStepInv DEF Next
  <2>2. CASE UNCHANGED vars
    <3>1. LeafInv'
      BY <2>2, OthersKeepLeaf DEF vars, IInv
    <3>2. LifeInv'
      BY <2>2, LeafKeepsLife DEF vars, IInv
    <3> QED BY <3>1, <3>2 DEF IInv
  <2> QED BY <2>1, <2>2
<1> QED BY <1>1, <1>2, PTL DEF SafeSpec

\* Every variable keeps its type, for any number of attempts.
THEOREM TypeCorrect == SafeSpec => []TypeOK
<1>1. IInv => TypeOK
  BY DEF IInv, LeafInv, LifeInv, TypeOK
<1> QED BY <1>1, Invariance, PTL

\* No two backends of a prompt work at once: installPromptWatchdog kills for
\* good before the retry loop's backoff ends.
THEOREM BackendsExclusive == SafeSpec => []OneBackend
<1>1. IInv => OneBackend
  <2> SUFFICES ASSUME IInv PROVE Cardinality(alive \cap Agents) <= 1
    BY DEF OneBackend
  <2>1. alive \cap Agents \in SUBSET {attempt}
    BY DEF IInv, LeafInv, AttemptInv
  <2>2. alive \cap Agents = {} \/ alive \cap Agents = {attempt}
    BY <2>1
  <2>3. Cardinality({attempt}) = 1 /\ Cardinality({}) = 0
    BY FS_EmptySet, FS_Singleton
  <2> QED BY <2>2, <2>3
<1> QED BY <1>1, Invariance, PTL

\* A prompt that answered is asked again only after an exit with a failure or
\* the maximum duration, and an aborted retry asks no more (runPromptStep).
THEOREM RetriesJustified == SafeSpec => []AttemptsJustified
<1>1. IInv => AttemptsJustified
  BY DEF IInv, LeafInv, AnswerInv, AttemptsJustified
<1> QED BY <1>1, Invariance, PTL

\* A leaf step that succeeded has a cause in its last attempt: an exit with 0,
\* a reply, an answer before the grace kill, or a kill from outside (runBackend
\* settles a missing exit code as 0), never the watchdog's own kill.
THEOREM SuccessCaused == SafeSpec => []SuccessHasCause
<1>1. IInv => SuccessHasCause
  BY DEF IInv, LeafInv
<1> QED BY <1>1, Invariance, PTL

\* A stopped host run leaves only what ignores the signal, whatever order the
\* stop, the runner's exit and the forced kill come in.
THEOREM StopsReachTheGroup == SafeSpec => []StopReachesGroup
<1>1. IInv => StopReachesGroup
  BY DEF IInv, LifeInv, StopInv
<1> QED BY <1>1, Invariance, PTL

\* The sandbox directory goes after the container, mishaps aside.
THEOREM ContainersBeforeSnapshots == SafeSpec => []SnapshotOutlivesContainer
<1>1. IInv => SnapshotOutlivesContainer
  BY DEF IInv, LifeInv, StopInv
<1> QED BY <1>1, Invariance, PTL

\* A settled run keeps no kill timer but the two named ones.
THEOREM EndingsClean == SafeSpec => []TimersDieWithRun
<1>1. IInv => TimersDieWithRun
  BY EndOfTimers DEF IInv, LifeInv, EndInv
<1> QED BY <1>1, Invariance, PTL

\* `jaiph run` reports no success when its host timeout expired, also when the
\* run exits 0 after the expiry (armRunTimeout, reportResult).
THEOREM TimeoutsReported == SafeSpec => []TimeoutReported
<1>1. IInv => TimeoutReported
  BY DEF IInv, LifeInv, EndInv
<1> QED BY <1>1, Invariance, PTL

=============================================================================
