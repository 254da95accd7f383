----------------------------- MODULE McpSession -----------------------------
(***************************************************************************)
(* The MCP engine (src/src/cli/shared/mcp-server.ts) under its two         *)
(* transports: `jaiph mcp` reads lines from one client, and the POST /mcp  *)
(* endpoint of `jaiph serve` (cli/serve/handler.ts, server.ts) gives every *)
(* request to the same engine, whichever client sent it.                   *)
(*                                                                         *)
(* Calls run concurrently and are found by their JSON-RPC id in one map.   *)
(* The requests that are answered in the turn they arrive in (initialize,  *)
(* ping, tools/list, refused arguments) leave the map alone and are not    *)
(* modelled.  A call without a progress token takes no Step.               *)
(***************************************************************************)
EXTENDS Naturals, Sequences

CONSTANTS
  MaxCalls,   \* bound on the calls made
  MaxSteps,   \* bound on the progress messages of a call
  Clients,
  Ids,        \* JSON-RPC ids
  NoCall,     \* an id without an entry
  Sessions    \* records [transport, ids]: the ids each client draws from

ASSUME McpAssumption ==
  /\ MaxCalls \in Nat /\ MaxSteps \in Nat
  /\ NoCall \notin 1 .. MaxCalls
  /\ Sessions \subseteq [transport : {"stdio", "http"}, ids : [Clients -> SUBSET Ids]]
  \* The one client on stdio numbers its requests alone.
  /\ \A s \in Sessions : s.transport = "stdio" =>
       \A a, b \in Clients : a # b => s.ids[a] \cap s.ids[b] = {}

Calls == 1 .. MaxCalls
NoRequest == [client |-> "none"]
Requests == [client : Clients, id : Ids, mode : {"line", "json", "sse"}]

VARIABLES
  session,   \* transport and numbering, fixed
  req,       \* the request of each call
  phase,     \* "received" while it is authenticated, then handleToolsCall
  inFlight,  \* inFlight: the call of each id
  flagged,   \* calls whose entry has cancelled set
  proc,      \* the workflow process of each call
  killed,    \* calls whose cancel handle was called
  closed,    \* calls whose event stream is closed
  sent,      \* what each call's sink was given
  asked      \* history: calls their own client cancelled while they ran

vars == <<session, req, phase, inFlight, flagged, proc, killed, closed, sent, asked>>

Running == {c \in Calls : phase[c] = "running"}
Apart == \A a, b \in Clients : a # b => session.ids[a] \cap session.ids[b] = {}

TypeOK ==
  /\ session \in Sessions
  /\ req \in [Calls -> Requests \cup {NoRequest}]
  /\ phase \in [Calls -> {"new", "received", "running", "settled"}]
  /\ inFlight \in [Ids -> Calls \cup {NoCall}]
  /\ flagged \subseteq Calls /\ killed \subseteq Calls
  /\ closed \subseteq Calls /\ asked \subseteq Calls
  /\ proc \in [Calls -> {"none", "running", "exited"}]
  /\ sent \in [Calls -> Seq({"progress", "response"})]
  /\ \A c \in Calls : Len(sent[c]) <= MaxSteps + 1

Init ==
  /\ session \in Sessions
  /\ req = [c \in Calls |-> NoRequest]
  /\ phase = [c \in Calls |-> "new"]
  /\ inFlight = [i \in Ids |-> NoCall]
  /\ flagged = {} /\ killed = {} /\ closed = {} /\ asked = {}
  /\ proc = [c \in Calls |-> "none"]
  /\ sent = [c \in Calls |-> <<>>]

-----------------------------------------------------------------------------
\* this.write: the line goes to stdout, or to the sink of its HTTP request,
\* which takes nothing once the request was answered or its client left.
Write(c, m) ==
  IF session.transport = "stdio" \/ (phase[c] = "running" /\ c \notin closed)
  THEN sent' = [sent EXCEPT ![c] = Append(@, m)]
  ELSE UNCHANGED sent

\* handleCancelled that kills the run and leaves the entry unmarked.
CancelUnmarked(i) ==
  LET named == {inFlight[i]} \cap Calls IN
  /\ killed' = killed \cup {c \in named : proc[c] # "none"}
  /\ UNCHANGED flagged

\* handleCancelled: the entry of the id is marked and its run killed.
HandleCancelled(i) ==
  LET named == {inFlight[i]} \cap Calls IN
  /\ flagged' = flagged \cup named
  /\ killed' = killed \cup {c \in named : proc[c] # "none"}

(***************************************************************************)
(* The body of a tools/call was read.  A client numbers its requests       *)
(* without repeating itself; over HTTP they are authenticated next.        *)
(***************************************************************************)
Receive(c, q) ==
  /\ phase[c] = "new" /\ \A d \in Calls : d < c => phase[d] # "new"
  /\ q.id \in session.ids[q.client]
  /\ q.mode = "line" <=> session.transport = "stdio"
  /\ \A d \in Calls : phase[d] # "new" /\ req[d].client = q.client => req[d].id # q.id
  /\ req' = [req EXCEPT ![c] = q]
  /\ phase' = [phase EXCEPT ![c] = "received"]
  /\ UNCHANGED <<session, inFlight, flagged, proc, killed, closed, sent, asked>>

(***************************************************************************)
(* handleToolsCall up to its await.  The process and its cancel handle     *)
(* come in the same turn, unless the run is refused (the cap) or the spawn *)
(* throws.                                                                 *)
(***************************************************************************)
Start(c) ==
  /\ phase[c] = "received"
  /\ phase' = [phase EXCEPT ![c] = "running"]
  /\ inFlight' = [inFlight EXCEPT ![req[c].id] = c]
  /\ \E p \in {"running", "none"} : proc' = [proc EXCEPT ![c] = p]
  /\ UNCHANGED <<session, req, flagged, killed, closed, sent, asked>>

\* onStep gated by the call's own flag alone.
StepUngated(c) ==
  /\ phase[c] \in {"running", "settled"} /\ proc[c] # "none"
  /\ Len(sent[c]) < MaxSteps
  /\ c \notin flagged
  /\ Write(c, "progress")
  /\ UNCHANGED <<session, req, phase, inFlight, flagged, proc, killed, closed, asked>>

(***************************************************************************)
(* onStep: an event of the process becomes a progress message.  Events are *)
(* read from a pipe and may come after the exit, and after the answer.     *)
(***************************************************************************)
Step(c) ==
  /\ phase[c] \in {"running", "settled"} /\ proc[c] # "none"
  /\ Len(sent[c]) < MaxSteps
  /\ c \notin flagged /\ inFlight[req[c].id] # NoCall
  /\ Write(c, "progress")
  /\ UNCHANGED <<session, req, phase, inFlight, flagged, proc, killed, closed, asked>>

\* The process of a run ends, killed or not.
Exit(c) ==
  /\ proc[c] = "running"
  /\ proc' = [proc EXCEPT ![c] = "exited"]
  /\ UNCHANGED <<session, req, phase, inFlight, flagged, killed, closed, sent, asked>>

\* The end of a call that waits for its own entry.
SettleOwnEntry(c) ==
  /\ phase[c] = "running" /\ proc[c] # "running"
  /\ inFlight[req[c].id] = c
  /\ phase' = [phase EXCEPT ![c] = "settled"]
  /\ IF c \in flagged THEN UNCHANGED sent
     ELSE Write(c, "response")
  /\ inFlight' = [inFlight EXCEPT ![req[c].id] = NoCall]
  /\ UNCHANGED <<session, req, flagged, proc, killed, closed, asked>>

(***************************************************************************)
(* callTool settles: a result, or the error of a call that threw, is       *)
(* written unless the entry is marked, and the entry of the id is deleted, *)
(* whoever's it is.                                                        *)
(***************************************************************************)
Settle(c) ==
  /\ phase[c] = "running" /\ proc[c] # "running"
  /\ phase' = [phase EXCEPT ![c] = "settled"]
  /\ IF c \in flagged THEN UNCHANGED sent
     ELSE Write(c, "response")
  /\ inFlight' = [inFlight EXCEPT ![req[c].id] = NoCall]
  /\ UNCHANGED <<session, req, flagged, proc, killed, closed, asked>>

\* A client cancels a call of its own, by its id.  Too early or too late, it
\* finds no entry, or that of another call.
Cancel(c) ==
  /\ phase[c] # "new"
  /\ HandleCancelled(req[c].id)
  /\ asked' = asked \cup ({c} \cap Running)
  /\ UNCHANGED <<session, req, phase, inFlight, proc, closed, sent>>

(***************************************************************************)
(* The socket of an event stream closes: the client hung up, or the stream *)
(* ended after its answer.  Both fire onAbort.  Before the stream is wired *)
(* to the socket nobody listens, and the call starts all the same.         *)
(***************************************************************************)
CloseStream(c) ==
  /\ phase[c] # "new" /\ req[c].mode = "sse" /\ c \notin closed
  /\ closed' = closed \cup {c}
  /\ IF phase[c] = "received" THEN UNCHANGED <<flagged, killed>>
     ELSE HandleCancelled(req[c].id)
  /\ asked' = asked \cup ({c} \cap Running)
  /\ UNCHANGED <<session, req, phase, inFlight, proc, sent>>

\* POST /v1/runs/{id}/cancel names the run, not the request.
CancelRun(c) ==
  /\ session.transport = "http" /\ phase[c] = "running" /\ proc[c] # "none"
  /\ killed' = killed \cup {c}
  /\ UNCHANGED <<session, req, phase, inFlight, flagged, proc, closed, sent, asked>>

(***************************************************************************)
(* The second shutdown signal kills the runs of the map on stdio and those *)
(* of the registry over HTTP, and marks no entry.                          *)
(***************************************************************************)
CancelAll ==
  /\ LET listed == IF session.transport = "http" THEN Running
                   ELSE {inFlight[i] : i \in Ids} \cap Calls
     IN killed' = killed \cup {c \in listed : proc[c] # "none"}
  /\ UNCHANGED <<session, req, phase, inFlight, flagged, proc, closed, sent, asked>>

Next ==
  \/ \E c \in Calls :
       \/ \E q \in Requests : Receive(c, q)
       \/ Start(c) \/ Step(c) \/ Exit(c) \/ Settle(c)
       \/ Cancel(c) \/ CloseStream(c) \/ CancelRun(c)
  \/ CancelAll

\* A killed process ends (SIGKILL follows), and its end is always observed.
Fairness ==
  \A c \in Calls : WF_vars(c \in killed /\ Exit(c)) /\ WF_vars(Settle(c))

SafeSpec == Init /\ [][Next]_vars
Spec == SafeSpec /\ Fairness

-----------------------------------------------------------------------------
(***************************************************************************)
(* Properties                                                              *)
(***************************************************************************)

\* Every call is answered once or was cancelled, and its answer is the last
\* thing its client hears of it: no progress after it, whatever events are
\* still read, and no answer to a cancelled call.  Killing is not cancelling:
\* the calls a shutdown kills are answered, so that its drain ends.
AnsweredOnceUnlessCancelled ==
  \A c \in Calls :
    /\ \A n \in 1 .. Len(sent[c]) : sent[c][n] = "response" =>
         n = Len(sent[c]) /\ phase[c] = "settled" /\ c \notin flagged
    /\ phase[c] = "settled" /\ c \notin flagged \cup closed =>
         sent[c] # <<>> /\ sent[c][Len(sent[c])] = "response"

\* While clients draw from ids of their own, a cancel and a hang-up reach the
\* call they mean: it is marked at once and its process is killed.
CancelReachesItsCall ==
  Apart => \A c \in asked \cap Running :
             c \in flagged /\ (proc[c] = "running" => c \in killed)

\* ... and no other: not the call of another client that is still running
\* when a stream with an older call closes, and none at a shutdown.
CancelsStayApart == Apart => flagged \subseteq asked

\* Both: among calls that run side by side a cancel ends its own and nothing else.
CancelsFindTheirCalls == CancelReachesItsCall /\ CancelsStayApart

\* A call whose process was killed settles, also one that lost its entry to
\* another call with its id.
KilledCallsSettle == \A c \in Calls : c \in killed ~> phase[c] = "settled"

\* mcp.md: a cancel names a request id and "other in-flight calls are
\* untouched", on both transports.  Over HTTP two clients that use one id
\* share its entry.
OthersUntouched == flagged \subseteq asked

-----------------------------------------------------------------------------
\* What the client of a call may still expect, as RequestService sees it.
View(c) ==
  CASE phase[c] = "new" -> "unsent"
    [] phase[c] \in {"received", "running"} -> IF c \in flagged \cup closed THEN "withdrawn" ELSE "open"
    [] OTHER -> IF sent[c] # <<>> /\ sent[c][Len(sent[c])] = "response" THEN "answered" ELSE "over"

Service == INSTANCE RequestService WITH
  own <- Apart,
  state <- [c \in Calls |-> View(c)],
  told <- sent

(***************************************************************************)
(* The engine keeps its promise to every client (docs/mcp.md): through     *)
(* progress that is read after the exit, cancels that come early, late or  *)
(* twice, hang-ups before a call has started and entries that another call *)
(* of the same id took over, a request is answered once and last, or was   *)
(* withdrawn and hears nothing more, and only clients that share their ids *)
(* withdraw each other's.                                                  *)
(***************************************************************************)
ImplementsRequests == Service!RequestSpec

=============================================================================
