--------------------------- MODULE WorkflowServer ---------------------------
(***************************************************************************)
(* Lifetime of the long-lived workflow servers `jaiph mcp` (stdio) and     *)
(* `jaiph serve` (HTTP): the refcounted generations of emitted scripts     *)
(* (src/src/cli/shared/generation.ts), the hot-reload watcher that         *)
(* replaces them (serve-bootstrap.ts), the calls that lease them, and the  *)
(* drain-then-cancel shutdown (commands/mcp.ts, commands/serve.ts).        *)
(*                                                                         *)
(* Node runs every handler to completion, so acquire, release, swap, one   *)
(* reload and one signal handler are each one action, and so is what runs  *)
(* in the microtasks of the same turn: the drain's continuation, cleanup   *)
(* and process.exit follow the last promise the drain awaits without       *)
(* giving any other handler a turn.  What interleaves is what crosses a    *)
(* turn: a request being read, a call being executed and the drain         *)
(* waiting for its snapshot of promises.                                   *)
(***************************************************************************)
EXTENDS Integers, FiniteSets

CONSTANTS
  Calls,      \* the tool calls / HTTP runs clients may make
  MaxGen,     \* bound: reload attempts, the watcher's `generation` counter
  Transports  \* the servers considered: "stdio" is jaiph mcp, "http" jaiph serve

ASSUME ServerAssumption ==
  /\ IsFiniteSet(Calls)
  /\ MaxGen \in Nat
  /\ Transports \subseteq {"stdio", "http"}

VARIABLES
  transport,    \* which server this process is
  generation,   \* watcher counter: out dir gen-<generation> of the last attempt
  current,      \* generation new calls bind to
  refs,         \* leases held on each generation
  superseded,   \* generations a later one replaced
  dirs,         \* generations whose out dir is on disk
  phase,        \* what each call is doing
  lease,        \* generation a running call was started under
  cancelled,    \* running calls whose child was sent the kill escalation
  signals,      \* shutdown signals received, 2 standing for two or more
  awaited,      \* calls in the drain's snapshot that have not settled
  finished      \* finish() ran: temp root removed, process exiting

vars == <<transport, generation, current, refs, superseded, dirs, phase, lease,
          cancelled, signals, awaited, finished>>

genVars == <<transport, generation, current, superseded>>
shutdownVars == <<signals, awaited, finished>>

Gens == 0 .. MaxGen
Phases == {"idle", "reading", "running", "settled"}
Running == {c \in Calls : phase[c] = "running"}
Holders(g) == {c \in Running : lease[c] = g}
draining == signals > 0

TypeOK ==
  /\ transport \in Transports
  /\ generation \in Gens
  /\ current \in Gens
  /\ refs \in [Gens -> Nat]
  /\ superseded \subseteq Gens
  /\ dirs \subseteq Gens
  /\ phase \in [Calls -> Phases]
  /\ lease \in [Calls -> Gens]
  /\ cancelled \subseteq Calls
  /\ signals \in 0 .. 2
  /\ awaited \subseteq Calls
  /\ finished \in BOOLEAN

\* startGeneration loads generation 0 before anything is served.
Init ==
  /\ transport \in Transports
  /\ generation = 0
  /\ current = 0
  /\ refs = [g \in Gens |-> 0]
  /\ superseded = {}
  /\ dirs = {0}
  /\ phase = [c \in Calls |-> "idle"]
  /\ lease = [c \in Calls |-> 0]
  /\ cancelled = {}
  /\ signals = 0
  /\ awaited = {}
  /\ finished = FALSE

(***************************************************************************)
(* maybeDelete: a superseded generation nobody leases loses its out dir.   *)
(***************************************************************************)
KeepDirs(old, newRefs) == dirs

DirsAfter(old, newRefs) ==
  IF old \in superseded /\ newRefs[old] = 0 THEN dirs \ {old} ELSE dirs

(***************************************************************************)
(* A request is accepted.  An HTTP request is then read and authenticated  *)
(* asynchronously; httpServer.close() stops new connections only, so the   *)
(* requests already being read still reach the handler.                    *)
(***************************************************************************)
AcceptHttp(c) ==
  /\ transport = "http"
  /\ ~draining
  /\ phase[c] = "idle"
  /\ phase' = [phase EXCEPT ![c] = "reading"]
  /\ UNCHANGED <<genVars, refs, dirs, lease, cancelled, shutdownVars>>

(***************************************************************************)
(* callTool: acquire the live generation and spawn the workflow process.   *)
(* The stdio server takes a line straight to this point, and reads none    *)
(* once the drain closed its input.                                        *)
(***************************************************************************)
StartCall(c) ==
  /\ ~finished
  /\ \/ transport = "http" /\ phase[c] = "reading"
     \/ transport = "stdio" /\ phase[c] = "idle" /\ ~draining
  /\ phase' = [phase EXCEPT ![c] = "running"]
  /\ lease' = [lease EXCEPT ![c] = current]
  /\ refs' = [refs EXCEPT ![current] = @ + 1]
  /\ UNCHANGED <<genVars, dirs, cancelled, shutdownVars>>

(***************************************************************************)
(* Promise.allSettled(snapshot).then(finish): once no promise of the       *)
(* snapshot is left, finish(0) removes the temp root with every            *)
(* generation in it and the process exits, in the turn that settled the    *)
(* last one (for an empty snapshot, in the signal's own turn).             *)
(***************************************************************************)
Finish(left, kept) ==
  /\ finished' = (left = {})
  /\ dirs' = IF left = {} THEN {} ELSE kept

(***************************************************************************)
(* The workflow process exited and the call's promise settles: the lease   *)
(* is released (once: the flag in release() and one .finally()), and the   *)
(* drain, if it awaits this call, has one promise less to wait for.        *)
(***************************************************************************)
SettleCall(c) ==
  /\ ~finished
  /\ phase[c] = "running"
  /\ phase' = [phase EXCEPT ![c] = "settled"]
  /\ refs' = [refs EXCEPT ![lease[c]] = @ - 1]
  /\ awaited' = awaited \ {c}
  /\ IF draining
       THEN Finish(awaited', DirsAfter(lease[c], refs'))
       ELSE dirs' = DirsAfter(lease[c], refs') /\ UNCHANGED finished
  /\ UNCHANGED <<genVars, lease, cancelled, signals>>

\* swap() that deletes the previous out dir whoever still leases it.
ReloadUnconditional ==
  /\ ~draining
  /\ generation < MaxGen
  /\ generation' = generation + 1
  /\ current' = generation + 1
  /\ superseded' = superseded \cup {current}
  /\ dirs' = (dirs \ {current}) \cup {generation + 1}
  /\ UNCHANGED <<transport, refs, phase, lease, cancelled, shutdownVars>>

(***************************************************************************)
(* swap(next) after a source change passed validation.  The watcher has    *)
(* already built gen-<n> when it swaps; the previous generation is         *)
(* deleted on the spot when idle.                                          *)
(***************************************************************************)
Reload ==
  /\ ~draining
  /\ generation < MaxGen
  /\ generation' = generation + 1
  /\ current' = generation + 1
  /\ superseded' = superseded \cup {current}
  /\ dirs' = (IF refs[current] = 0 THEN dirs \ {current} ELSE dirs)
               \cup {generation + 1}
  /\ UNCHANGED <<transport, refs, phase, lease, cancelled, shutdownVars>>

\* Validation reported errors: the attempt is counted, nothing is built.
ReloadInvalid ==
  /\ ~draining
  /\ generation < MaxGen
  /\ generation' = generation + 1
  /\ UNCHANGED <<transport, current, refs, superseded, dirs, phase, lease, cancelled,
                 shutdownVars>>

\* Emitting scripts threw after mkdirSync: gen-<n> exists, nobody serves it.
ReloadThrows ==
  /\ ~draining
  /\ generation < MaxGen
  /\ generation' = generation + 1
  /\ dirs' = dirs \cup {generation + 1}
  /\ UNCHANGED <<transport, current, refs, superseded, phase, lease, cancelled,
                 shutdownVars>>

(***************************************************************************)
(* First SIGINT/SIGTERM (or the end of stdin): stop the watcher and the    *)
(* input, and wait for a snapshot of the promises in flight, if any.       *)
(***************************************************************************)
FirstSignal ==
  /\ ~draining
  /\ signals' = 1
  /\ awaited' = Running
  /\ Finish(Running, dirs)
  /\ UNCHANGED <<genVars, refs, phase, lease, cancelled>>

\* A second signal that is logged and cancels nothing.
CancelNone ==
  /\ draining /\ ~finished
  /\ signals' = 2
  /\ UNCHANGED <<genVars, refs, dirs, phase, lease, cancelled, awaited, finished>>

(***************************************************************************)
(* A further signal: cancelAll() runs the cancel handle of every call in   *)
(* flight (SIGINT, then SIGKILL after a grace period; docker rm -f).       *)
(***************************************************************************)
SecondSignal ==
  /\ draining /\ ~finished
  /\ signals' = 2
  /\ cancelled' = cancelled \cup Running
  /\ UNCHANGED <<genVars, refs, dirs, phase, lease, awaited, finished>>

\* The process is gone: nothing happens any more.
Exited ==
  /\ finished
  /\ UNCHANGED vars

Next ==
  \/ \E c \in Calls : AcceptHttp(c) \/ StartCall(c) \/ SettleCall(c)
  \/ Reload \/ ReloadInvalid \/ ReloadThrows
  \/ FirstSignal \/ SecondSignal
  \/ Exited

(***************************************************************************)
(* A call may run for ever, unless it was cancelled: the kill escalation   *)
(* ends its process, and the exit settles the promise.                     *)
(***************************************************************************)
Fairness == \A c \in Calls : WF_vars(c \in cancelled /\ SettleCall(c))

SafeSpec == Init /\ [][Next]_vars
Spec == SafeSpec /\ Fairness

-----------------------------------------------------------------------------
(***************************************************************************)
(* Properties                                                              *)
(***************************************************************************)

\* A running call can still spawn script steps: the out dir of the
\* generation it was started under exists until it settles, across reloads
\* and, for the stdio server, across the shutdown too (mcp.ts: "The temp root
\* must outlive every draining call").
ScriptsOutliveCall ==
  transport = "stdio" \/ ~finished => \A c \in Running : lease[c] \in dirs

\* The same promise for the HTTP server (serve.ts: "the lease keeps its
\* scripts dir alive until the run finishes").  It does not hold: a request
\* still being read at the first signal, while the drain waits for another
\* run, starts a run the drain's snapshot does not contain, and finish()
\* removes the temp root under it when the awaited run settles.
LeaseKeepsScripts ==
  \A c \in Running : lease[c] \in dirs

\* The refcount of each generation is the number of calls in flight under it.
RefsCountLeases ==
  \A g \in Gens : refs[g] = Cardinality(Holders(g))

\* A superseded generation does not linger: its dir is on disk only while
\* some call in flight still runs from it.
SupersededDirsAreLeased ==
  \A g \in superseded \cap dirs : Holders(g) # {}

\* A second signal ends the server: the cancelled calls settle, the drain
\* resolves and cleanup runs.
SecondSignalFinishes == (signals = 2) ~> finished

=============================================================================
