-------------------------- MODULE McpSessionProofs --------------------------
(***************************************************************************)
(* Safety of the MCP engine, for any number of calls, clients and ids and  *)
(* any numbering: a call is answered once unless it was cancelled, and     *)
(* while clients draw from ids of their own a cancel reaches the call it   *)
(* names and no other.                                                     *)
(***************************************************************************)
EXTENDS McpSession, TLAPS

(***************************************************************************)
(* The inductive invariant.  Requests come from their client's ids and do  *)
(* not repeat; the map holds running calls under their own ids, and every  *)
(* running call while ids are apart; what was sent to a running call is    *)
(* progress, and a call that did not start was told nothing.               *)
(***************************************************************************)
RequestsNumbered ==
  /\ \A c \in Calls : phase[c] # "new" =>
       req[c] \in Requests /\ req[c].id \in session.ids[req[c].client]
  /\ \A c, d \in Calls :
       c # d /\ phase[c] # "new" /\ phase[d] # "new" /\ req[c].client = req[d].client
         => req[c].id # req[d].id

EntriesRun ==
  \A i \in Ids : inFlight[i] # NoCall =>
    inFlight[i] \in Running /\ req[inFlight[i]].id = i

RunningHaveEntries ==
  Apart => \A c \in Running : inFlight[req[c].id] = c

ProgressOnly ==
  \A c \in Calls :
    /\ phase[c] \in {"new", "received"} => sent[c] = <<>> /\ c \notin flagged \cup asked
    /\ phase[c] = "running" =>
         Len(sent[c]) <= MaxSteps /\ \A n \in 1 .. Len(sent[c]) : sent[c][n] = "progress"

IInv ==
  /\ TypeOK
  /\ RequestsNumbered
  /\ EntriesRun
  /\ RunningHaveEntries
  /\ ProgressOnly
  /\ AnsweredOnceUnlessCancelled
  /\ CancelReachesItsCall
  /\ CancelsStayApart

-----------------------------------------------------------------------------
LEMMA SessionType ==
  ASSUME session \in Sessions
  PROVE  /\ session.transport \in {"stdio", "http"}
         /\ session.ids \in [Clients -> SUBSET Ids]
         /\ session.transport = "stdio" => Apart
BY McpAssumption DEF Apart

\* While ids are apart, two calls never have one id.
LEMMA IdsDiffer ==
  ASSUME IInv, Apart, NEW c \in Calls, NEW d \in Calls, c # d,
         phase[c] # "new", phase[d] # "new"
  PROVE  req[c].id # req[d].id
BY SessionType DEF IInv, TypeOK, RequestsNumbered, Requests, Apart

LEMMA InitInvariant == Init => IInv
<1>1. SUFFICES ASSUME Init PROVE IInv
  OBVIOUS
<1>2. \A c \in Calls : c # NoCall /\ sent[c] = <<>> /\ Len(sent[c]) = 0
  BY <1>1, McpAssumption DEF Init, Calls
<1>3. TypeOK
  <2>1. sent \in [Calls -> Seq({"progress", "response"})]
    BY <1>1 DEF Init
  <2>. QED
    BY <1>1, <1>2, <2>1, McpAssumption DEF Init, TypeOK
<1>4. RequestsNumbered /\ EntriesRun /\ RunningHaveEntries
  BY <1>1 DEF Init, RequestsNumbered, EntriesRun, RunningHaveEntries, Running
<1>5. ProgressOnly /\ AnsweredOnceUnlessCancelled /\ CancelReachesItsCall /\ CancelsStayApart
  BY <1>1, <1>2 DEF Init, ProgressOnly, AnsweredOnceUnlessCancelled, CancelReachesItsCall,
                    CancelsStayApart, Running
<1>. QED
  BY <1>3, <1>4, <1>5 DEF IInv

LEMMA ReceivePreserves ==
  ASSUME IInv, NEW c \in Calls, NEW q \in Requests, Receive(c, q)
  PROVE  IInv'
<1>. USE DEF IInv
<1>1. /\ phase[c] = "new"
      /\ req' = [req EXCEPT ![c] = q] /\ phase' = [phase EXCEPT ![c] = "received"]
      /\ q.id \in session.ids[q.client]
      /\ \A d \in Calls : phase[d] # "new" /\ req[d].client = q.client => req[d].id # q.id
      /\ UNCHANGED <<session, inFlight, flagged, proc, killed, closed, sent, asked>>
  BY DEF Receive
<1>2. /\ \A d \in Calls : req'[d] = IF d = c THEN q ELSE req[d]
      /\ \A d \in Calls : phase'[d] = IF d = c THEN "received" ELSE phase[d]
  BY <1>1 DEF TypeOK
<1>3. TypeOK'
  BY <1>1 DEF TypeOK
<1>4. RequestsNumbered'
  BY <1>1, <1>2 DEF RequestsNumbered
<1>5. Running' = Running /\ Apart' = Apart /\ c \notin Running
  BY <1>1, <1>2 DEF Running, Apart
<1>6. EntriesRun' /\ RunningHaveEntries'
  BY <1>1, <1>2, <1>5 DEF EntriesRun, RunningHaveEntries, Running
<1>7. ProgressOnly' /\ AnsweredOnceUnlessCancelled'
  BY <1>1, <1>2 DEF ProgressOnly, AnsweredOnceUnlessCancelled
<1>8. CancelReachesItsCall' /\ CancelsStayApart'
  BY <1>1, <1>5 DEF CancelReachesItsCall, CancelsStayApart
<1>. QED
  BY <1>3, <1>4, <1>6, <1>7, <1>8

\* A call that starts takes the entry of its id, which is free while ids are
\* apart.
LEMMA StartPreserves ==
  ASSUME IInv, NEW c \in Calls, Start(c)
  PROVE  IInv'
<1>. USE DEF IInv
<1>1. /\ phase[c] = "received"
      /\ phase' = [phase EXCEPT ![c] = "running"]
      /\ inFlight' = [inFlight EXCEPT ![req[c].id] = c]
      /\ \E p \in {"running", "none"} : proc' = [proc EXCEPT ![c] = p]
      /\ UNCHANGED <<session, req, flagged, killed, closed, sent, asked>>
  BY DEF Start
<1>2. /\ \A d \in Calls : phase'[d] = IF d = c THEN "running" ELSE phase[d]
      /\ \A d \in Calls \ {c} : proc'[d] = proc[d]
      /\ c # NoCall
  BY <1>1, McpAssumption DEF TypeOK, Calls
<1>3. req[c] \in Requests /\ req[c].id \in Ids
  BY <1>1 DEF RequestsNumbered, Requests
<1>4. \A i \in Ids : inFlight'[i] = IF i = req[c].id THEN c ELSE inFlight[i]
  BY <1>1, <1>3 DEF TypeOK
<1>5. TypeOK'
  <2>1. inFlight' \in [Ids -> Calls \cup {NoCall}]
    BY <1>1 DEF TypeOK
  <2>2. proc' \in [Calls -> {"none", "running", "exited"}]
    BY <1>1 DEF TypeOK
  <2>3. phase' \in [Calls -> {"new", "received", "running", "settled"}]
    BY <1>1 DEF TypeOK
  <2>. QED
    BY <1>1, <2>1, <2>2, <2>3 DEF TypeOK
<1>6. RequestsNumbered'
  BY <1>1, <1>2 DEF RequestsNumbered
<1>7. Running' = Running \cup {c} /\ (Apart' <=> Apart) /\ c \notin Running
  BY <1>1, <1>2 DEF Running, Apart
<1>8. EntriesRun'
  BY <1>1, <1>4, <1>7 DEF EntriesRun
<1>9. RunningHaveEntries'
  <2>1. SUFFICES ASSUME Apart, NEW d \in Running' PROVE inFlight'[req'[d].id] = d
    BY <1>7 DEF RunningHaveEntries
  <2>2. CASE d = c
    BY <2>2, <1>1, <1>3, <1>4
  <2>3. CASE d # c
    <3>1. d \in Running /\ d \in Calls /\ phase[d] # "new" /\ phase[c] # "new"
      BY <2>1, <2>3, <1>1, <1>7 DEF Running
    <3>2. req[d].id # req[c].id
      BY <2>1, <2>3, <3>1, IdsDiffer
    <3>3. req[d].id \in Ids /\ inFlight[req[d].id] = d
      BY <2>1, <3>1 DEF RunningHaveEntries, RequestsNumbered, Requests
    <3>. QED
      BY <3>2, <3>3, <1>1, <1>4
  <2>. QED
    BY <2>2, <2>3
<1>10. ProgressOnly'
  BY <1>1, <1>2, McpAssumption DEF ProgressOnly
<1>11. AnsweredOnceUnlessCancelled'
  BY <1>1, <1>2 DEF ProgressOnly, AnsweredOnceUnlessCancelled
<1>12. CancelReachesItsCall' /\ CancelsStayApart'
  BY <1>1, <1>2, <1>7 DEF CancelReachesItsCall, CancelsStayApart, ProgressOnly
<1>. QED
  BY <1>5, <1>6, <1>8, <1>9, <1>10, <1>11, <1>12

-----------------------------------------------------------------------------
\* What a message written to a call changes.
LEMMA WriteEffect ==
  ASSUME TypeOK, NEW c \in Calls, NEW m \in {"progress", "response"}, Write(c, m)
  PROVE  /\ sent' \in [Calls -> Seq({"progress", "response"})]
         /\ \A d \in Calls \ {c} : sent'[d] = sent[d]
         /\ Len(sent[c]) \in Nat
         /\ \/ /\ sent'[c] = sent[c]
               /\ session.transport # "stdio" /\ (phase[c] # "running" \/ c \in closed)
            \/ /\ Len(sent'[c]) = Len(sent[c]) + 1
               /\ sent'[c][Len(sent[c]) + 1] = m
               /\ \A n \in 1 .. Len(sent[c]) : sent'[c][n] = sent[c][n]
               /\ session.transport = "stdio" \/ phase[c] = "running"
<1>1. sent[c] \in Seq({"progress", "response"}) /\ Len(sent[c]) \in Nat
  BY DEF TypeOK
<1>2. CASE UNCHANGED sent /\ session.transport # "stdio"
           /\ (phase[c] # "running" \/ c \in closed)
  BY <1>1, <1>2 DEF TypeOK
<1>3. CASE /\ sent' = [sent EXCEPT ![c] = Append(sent[c], m)]
           /\ session.transport = "stdio" \/ phase[c] = "running"
  <2>1. Append(sent[c], m) \in Seq({"progress", "response"})
    BY <1>1
  <2>2. sent' \in [Calls -> Seq({"progress", "response"})]
    BY <1>3, <2>1 DEF TypeOK
  <2>3. sent'[c] = Append(sent[c], m) /\ \A d \in Calls \ {c} : sent'[d] = sent[d]
    BY <1>3 DEF TypeOK
  <2>. QED
    BY <1>1, <1>3, <2>2, <2>3
<1>. QED
  BY <1>2, <1>3 DEF Write

\* Progress reaches running calls only: the id of a settled call has no entry
\* on stdio, and over HTTP its sink is closed.
LEMMA SettledHearNothing ==
  ASSUME IInv, NEW c \in Calls, Step(c), phase[c] = "settled"
  PROVE  sent' = sent
<1>. USE DEF IInv
<1>1. inFlight[req[c].id] # NoCall /\ Write(c, "progress")
  BY DEF Step
<1>2. SUFFICES ASSUME session.transport = "stdio" PROVE FALSE
  BY <1>1 DEF Write
<1>3. Apart /\ req[c].id \in Ids
  BY <1>2, SessionType DEF TypeOK, RequestsNumbered, Requests
<1>4. PICK d \in Running : d = inFlight[req[c].id] /\ req[d].id = req[c].id
  BY <1>1, <1>3 DEF EntriesRun
<1>5. d \in Calls /\ d # c /\ phase[d] # "new"
  BY <1>4 DEF Running
<1>. QED
  BY <1>3, <1>4, <1>5, IdsDiffer

LEMMA StepPreserves ==
  ASSUME IInv, NEW c \in Calls, Step(c)
  PROVE  IInv'
<1>. USE DEF IInv
<1>1. /\ phase[c] \in {"running", "settled"} /\ Len(sent[c]) < MaxSteps
      /\ c \notin flagged /\ inFlight[req[c].id] # NoCall
      /\ Write(c, "progress")
      /\ UNCHANGED <<session, req, phase, inFlight, flagged, proc, killed, closed, asked>>
  BY DEF Step
<1>2. /\ sent' \in [Calls -> Seq({"progress", "response"})]
      /\ \A d \in Calls \ {c} : sent'[d] = sent[d]
      /\ Len(sent[c]) \in Nat
      /\ \/ sent'[c] = sent[c]
         \/ /\ Len(sent'[c]) = Len(sent[c]) + 1
            /\ sent'[c][Len(sent[c]) + 1] = "progress"
            /\ \A n \in 1 .. Len(sent[c]) : sent'[c][n] = sent[c][n]
            /\ session.transport = "stdio" \/ phase[c] = "running"
  BY <1>1, WriteEffect
<1>3. phase[c] = "settled" => sent'[c] = sent[c]
  BY SettledHearNothing
<1>4. MaxSteps \in Nat
  BY McpAssumption
<1>5. TypeOK'
  <2>1. ASSUME NEW d \in Calls PROVE Len(sent'[d]) <= MaxSteps + 1
    <3>1. CASE d # c
      BY <1>2, <3>1 DEF TypeOK
    <3>2. CASE d = c
      BY <1>1, <1>2, <1>4, <3>2
    <3>. QED
      BY <3>1, <3>2
  <2>. QED
    BY <1>1, <1>2, <2>1 DEF TypeOK
<1>6. RequestsNumbered' /\ EntriesRun' /\ RunningHaveEntries'
  BY <1>1 DEF RequestsNumbered, EntriesRun, RunningHaveEntries, Running, Apart
<1>7. ProgressOnly'
  BY <1>1, <1>2, <1>3, <1>4 DEF ProgressOnly, TypeOK
<1>8. AnsweredOnceUnlessCancelled'
  <2>1. CASE sent'[c] = sent[c]
    <3>1. \A d \in Calls : sent'[d] = sent[d]
      BY <1>2, <2>1
    <3>. QED
      BY <1>1, <3>1 DEF AnsweredOnceUnlessCancelled
  <2>2. CASE sent'[c] # sent[c]
    <3>1. phase[c] = "running" /\ \A n \in 1 .. Len(sent'[c]) : sent'[c][n] = "progress"
      BY <1>1, <1>2, <1>3, <2>2 DEF ProgressOnly
    <3>. QED
      BY <1>1, <1>2, <3>1 DEF AnsweredOnceUnlessCancelled
  <2>. QED
    BY <2>1, <2>2
<1>9. CancelReachesItsCall' /\ CancelsStayApart'
  BY <1>1 DEF CancelReachesItsCall, CancelsStayApart, Running, Apart
<1>. QED
  BY <1>5, <1>6, <1>7, <1>8, <1>9

LEMMA ExitPreserves ==
  ASSUME IInv, NEW c \in Calls, Exit(c)
  PROVE  IInv'
<1>. USE DEF IInv
<1>1. /\ proc' = [proc EXCEPT ![c] = "exited"]
      /\ UNCHANGED <<session, req, phase, inFlight, flagged, killed, closed, sent, asked>>
  BY DEF Exit
<1>2. TypeOK'
  BY <1>1 DEF TypeOK
<1>3. RequestsNumbered' /\ EntriesRun' /\ RunningHaveEntries'
  BY <1>1 DEF RequestsNumbered, EntriesRun, RunningHaveEntries, Running, Apart
<1>4. ProgressOnly' /\ AnsweredOnceUnlessCancelled'
  BY <1>1 DEF ProgressOnly, AnsweredOnceUnlessCancelled
<1>5. CancelReachesItsCall' /\ CancelsStayApart'
  BY <1>1 DEF CancelReachesItsCall, CancelsStayApart, Running, Apart, TypeOK
<1>. QED
  BY <1>2, <1>3, <1>4, <1>5

\* Only an unmarked call answers, and the entry that goes with it is its own
\* while ids are apart.
LEMMA SettlePreserves ==
  ASSUME IInv, NEW c \in Calls, Settle(c)
  PROVE  IInv'
<1>. USE DEF IInv
<1>1. /\ phase[c] = "running"
      /\ phase' = [phase EXCEPT ![c] = "settled"]
      /\ IF c \in flagged THEN UNCHANGED sent ELSE Write(c, "response")
      /\ inFlight' = [inFlight EXCEPT ![req[c].id] = NoCall]
      /\ UNCHANGED <<session, req, flagged, proc, killed, closed, asked>>
  BY DEF Settle
<1>2. /\ \A d \in Calls : phase'[d] = IF d = c THEN "settled" ELSE phase[d]
      /\ req[c].id \in Ids
      /\ Len(sent[c]) \in Nat /\ Len(sent[c]) <= MaxSteps
      /\ \A n \in 1 .. Len(sent[c]) : sent[c][n] = "progress"
      /\ MaxSteps \in Nat
  BY <1>1, McpAssumption DEF TypeOK, RequestsNumbered, Requests, ProgressOnly
<1>3. \A i \in Ids : inFlight'[i] = IF i = req[c].id THEN NoCall ELSE inFlight[i]
  BY <1>1, <1>2 DEF TypeOK
<1>4. /\ sent' \in [Calls -> Seq({"progress", "response"})]
      /\ \A d \in Calls \ {c} : sent'[d] = sent[d]
      /\ \/ /\ sent'[c] = sent[c]
            /\ c \in flagged \cup closed
         \/ /\ Len(sent'[c]) = Len(sent[c]) + 1
            /\ sent'[c][Len(sent[c]) + 1] = "response"
            /\ \A n \in 1 .. Len(sent[c]) : sent'[c][n] = sent[c][n]
            /\ c \notin flagged
  <2>1. CASE c \in flagged
    BY <1>1, <2>1 DEF TypeOK
  <2>2. CASE c \notin flagged
    BY <1>1, <2>2, WriteEffect
  <2>. QED
    BY <2>1, <2>2
<1>5. TypeOK'
  <2>1. inFlight' \in [Ids -> Calls \cup {NoCall}]
    BY <1>1 DEF TypeOK
  <2>2. phase' \in [Calls -> {"new", "received", "running", "settled"}]
    BY <1>1 DEF TypeOK
  <2>3. ASSUME NEW d \in Calls PROVE Len(sent'[d]) <= MaxSteps + 1
    <3>1. CASE d # c
      BY <1>4, <3>1 DEF TypeOK
    <3>2. CASE d = c
      BY <1>2, <1>4, <3>2
    <3>. QED
      BY <3>1, <3>2
  <2>. QED
    BY <1>1, <1>4, <2>1, <2>2, <2>3 DEF TypeOK
<1>6. RequestsNumbered'
  BY <1>1, <1>2 DEF RequestsNumbered
<1>7. Running' = Running \ {c} /\ (Apart' <=> Apart)
  BY <1>1, <1>2 DEF Running, Apart
<1>8. EntriesRun'
  BY <1>1, <1>3, <1>7 DEF EntriesRun
<1>9. RunningHaveEntries'
  <2>1. SUFFICES ASSUME Apart, NEW d \in Running' PROVE inFlight'[req'[d].id] = d
    BY <1>7 DEF RunningHaveEntries
  <2>2. d # c /\ d \in Running /\ d \in Calls /\ phase[d] # "new" /\ phase[c] # "new"
    BY <2>1, <1>1, <1>7 DEF Running
  <2>3. req[d].id # req[c].id
    BY <2>1, <2>2, IdsDiffer
  <2>4. req[d].id \in Ids /\ inFlight[req[d].id] = d
    BY <2>1, <2>2 DEF RunningHaveEntries, RequestsNumbered, Requests
  <2>. QED
    BY <2>3, <2>4, <1>1, <1>3
<1>10. ProgressOnly'
  BY <1>1, <1>2, <1>4 DEF ProgressOnly
<1>11. AnsweredOnceUnlessCancelled'
  <2>1. ASSUME NEW d \in Calls, d # c
        PROVE  sent'[d] = sent[d] /\ phase'[d] = phase[d]
    BY <1>2, <1>4, <2>1
  <2>2. CASE sent'[c] = sent[c] /\ c \in flagged \cup closed
    BY <1>1, <1>2, <2>1, <2>2 DEF AnsweredOnceUnlessCancelled
  <2>3. CASE /\ Len(sent'[c]) = Len(sent[c]) + 1
             /\ sent'[c][Len(sent[c]) + 1] = "response"
             /\ \A n \in 1 .. Len(sent[c]) : sent'[c][n] = sent[c][n]
             /\ c \notin flagged
    <3>1. sent'[c] # <<>>
      BY <1>2, <2>3
    <3>2. \A n \in 1 .. Len(sent'[c]) : sent'[c][n] = "response" => n = Len(sent'[c])
      BY <1>2, <2>3
    <3>3. phase'[c] = "settled" /\ sent'[c][Len(sent'[c])] = "response"
      BY <1>2, <2>3
    <3>. QED
      BY <1>1, <2>1, <2>3, <3>1, <3>2, <3>3 DEF AnsweredOnceUnlessCancelled
  <2>. QED
    BY <1>4, <2>2, <2>3
<1>12. CancelReachesItsCall' /\ CancelsStayApart'
  BY <1>1, <1>7 DEF CancelReachesItsCall, CancelsStayApart
<1>. QED
  BY <1>5, <1>6, <1>8, <1>9, <1>10, <1>11, <1>12

-----------------------------------------------------------------------------
\* A cancel by id, or the close of a stream.
LEMMA CancelPreserves ==
  ASSUME IInv, NEW c \in Calls, Cancel(c) \/ CloseStream(c)
  PROVE  IInv'
<1>. USE DEF IInv
<1>. DEFINE named == {inFlight[req[c].id]} \cap Calls
<1>1. /\ phase[c] # "new"
      /\ \/ /\ flagged' = flagged \cup named
            /\ killed' = killed \cup {d \in named : proc[d] # "none"}
         \/ phase[c] = "received" /\ flagged' = flagged /\ killed' = killed
      /\ asked' = asked \cup ({c} \cap Running)
      /\ closed \subseteq closed' /\ closed' \subseteq Calls
      /\ UNCHANGED <<session, req, phase, inFlight, proc, sent>>
  BY DEF Cancel, CloseStream, HandleCancelled, TypeOK
<1>2. req[c].id \in Ids
  BY <1>1 DEF RequestsNumbered, Requests
<1>3. \A d \in named : d \in Running /\ d = inFlight[req[c].id] /\ req[d].id = req[c].id
  BY <1>2, McpAssumption DEF EntriesRun, Calls
<1>4. Apart => named \subseteq {c} \cap Running
  <2>1. SUFFICES ASSUME Apart, NEW d \in named PROVE d = c /\ d \in Running
    OBVIOUS
  <2>2. d \in Running /\ d \in Calls /\ phase[d] # "new" /\ req[d].id = req[c].id
    BY <1>3 DEF Running
  <2>. QED
    BY <1>1, <2>1, <2>2, IdsDiffer
<1>5. Apart /\ c \in Running => c \in named
  BY DEF RunningHaveEntries, Running
<1>6. /\ Running' = Running /\ (Apart' <=> Apart)
      /\ flagged \subseteq flagged' /\ killed \subseteq killed'
      /\ \A d \in flagged' \ flagged : d \in Running
      /\ \A d \in asked' \ asked : d = c /\ d \in Running
  BY <1>1, <1>3 DEF Running, Apart
<1>7. TypeOK'
  BY <1>1 DEF TypeOK
<1>8. RequestsNumbered' /\ EntriesRun' /\ RunningHaveEntries'
  BY <1>1, <1>6 DEF RequestsNumbered, EntriesRun, RunningHaveEntries
<1>9. ProgressOnly'
  BY <1>1, <1>6 DEF ProgressOnly, Running
<1>10. AnsweredOnceUnlessCancelled'
  BY <1>1, <1>6 DEF AnsweredOnceUnlessCancelled, ProgressOnly, Running
<1>11. CancelReachesItsCall'
  <2>1. SUFFICES ASSUME Apart, NEW d \in asked' \cap Running
                 PROVE  d \in flagged' /\ (proc[d] = "running" => d \in killed')
    BY <1>1, <1>6 DEF CancelReachesItsCall
  <2>2. CASE d \in asked
    BY <2>1, <2>2, <1>6 DEF CancelReachesItsCall
  <2>3. CASE d \notin asked
    <3>1. d = c /\ c \in named
      BY <2>1, <2>3, <1>5, <1>6
    <3>2. phase[c] # "received"
      BY <2>1, <3>1 DEF Running
    <3>. QED
      BY <1>1, <3>1, <3>2
  <2>. QED
    BY <2>2, <2>3
<1>12. CancelsStayApart'
  <2>. HIDE DEF named
  <2>. QED
    BY <1>1, <1>4, <1>6 DEF CancelsStayApart
<1>. QED
  BY <1>7, <1>8, <1>9, <1>10, <1>11, <1>12

\* Kills by run id and at shutdown mark no entry.
LEMMA KillPreserves ==
  ASSUME IInv, (\E c \in Calls : CancelRun(c)) \/ CancelAll
  PROVE  IInv'
<1>. USE DEF IInv
<1>1. /\ killed \subseteq killed' /\ killed' \subseteq Calls
      /\ UNCHANGED <<session, req, phase, inFlight, flagged, proc, closed, sent, asked>>
  BY DEF CancelRun, CancelAll, TypeOK, Running
<1>2. TypeOK'
  BY <1>1 DEF TypeOK
<1>3. RequestsNumbered' /\ EntriesRun' /\ RunningHaveEntries'
  BY <1>1 DEF RequestsNumbered, EntriesRun, RunningHaveEntries, Running, Apart
<1>4. ProgressOnly' /\ AnsweredOnceUnlessCancelled'
  BY <1>1 DEF ProgressOnly, AnsweredOnceUnlessCancelled
<1>5. CancelReachesItsCall' /\ CancelsStayApart'
  BY <1>1 DEF CancelReachesItsCall, CancelsStayApart, Running, Apart
<1>. QED
  BY <1>2, <1>3, <1>4, <1>5

-----------------------------------------------------------------------------
LEMMA NextPreserves == IInv /\ [Next]_vars => IInv'
<1>1. SUFFICES ASSUME IInv, [Next]_vars PROVE IInv'
  OBVIOUS
<1>2. CASE UNCHANGED vars
  BY <1>1, <1>2
     DEF vars, IInv, TypeOK, RequestsNumbered, EntriesRun, RunningHaveEntries, ProgressOnly,
         AnsweredOnceUnlessCancelled, CancelReachesItsCall, CancelsStayApart, Running, Apart
<1>3. ASSUME NEW c \in Calls, NEW q \in Requests, Receive(c, q) PROVE IInv'
  BY <1>1, <1>3, ReceivePreserves
<1>4. ASSUME NEW c \in Calls, Start(c) \/ Step(c) \/ Exit(c) \/ Settle(c) PROVE IInv'
  BY <1>1, <1>4, StartPreserves, StepPreserves, ExitPreserves, SettlePreserves
<1>5. ASSUME NEW c \in Calls, Cancel(c) \/ CloseStream(c) PROVE IInv'
  BY <1>1, <1>5, CancelPreserves
<1>6. CASE (\E c \in Calls : CancelRun(c)) \/ CancelAll
  BY <1>1, <1>6, KillPreserves
<1>. QED
  BY <1>1, <1>2, <1>3, <1>4, <1>5, <1>6 DEF Next

LEMMA Invariance == SafeSpec => []IInv
BY InitInvariant, NextPreserves, PTL DEF SafeSpec

\* Calls, entries and messages keep their types, and no call is sent more
\* than its progress and one answer (handleToolsCall).
THEOREM TypeCorrect == SafeSpec => []TypeOK
BY Invariance, PTL DEF IInv

\* A call is answered exactly once, after its progress, unless it was
\* cancelled or its client left; a cancelled call is never answered
\* (handleToolsCall, onStep).
THEOREM AnsweredOnce == SafeSpec => []AnsweredOnceUnlessCancelled
BY Invariance, PTL DEF IInv

\* With ids of their own, clients reach the calls they cancel or hang up on, and
\* no call is marked that its own client did not cancel (handleCancelled,
\* makeStreamTarget, cancelAll).
THEOREM CancelsExact == SafeSpec => []CancelsFindTheirCalls
<1>1. IInv => CancelsFindTheirCalls
  BY DEF IInv, CancelsFindTheirCalls
<1> QED BY <1>1, Invariance, PTL

-----------------------------------------------------------------------------
(***************************************************************************)
(* The refinement of RequestService.                                       *)
(***************************************************************************)
reqView == [c \in Calls |-> View(c)]

\* Only an event stream closes, and only one that was received over HTTP.
StreamsWired ==
  /\ \A c \in Calls : phase[c] # "new" => (req[c].mode = "line" <=> session.transport = "stdio")
  /\ \A c \in closed : phase[c] # "new" /\ req[c].mode = "sse"

RInv == IInv /\ StreamsWired

LEMMA InitWired == Init => StreamsWired
BY DEF Init, StreamsWired

LEMMA NextWired == RInv /\ [Next]_vars => StreamsWired'
<1>1. SUFFICES ASSUME RInv, [Next]_vars PROVE StreamsWired'
  OBVIOUS
<1>. USE DEF RInv, IInv
<1>2. CASE UNCHANGED <<session, req, phase, closed>>
  BY <1>1, <1>2 DEF StreamsWired
<1>3. ASSUME NEW c \in Calls, NEW q \in Requests, Receive(c, q) PROVE StreamsWired'
  <2>1. /\ phase[c] = "new" /\ (q.mode = "line" <=> session.transport = "stdio")
        /\ UNCHANGED <<session, closed>>
        /\ \A d \in Calls : req'[d] = IF d = c THEN q ELSE req[d]
        /\ \A d \in Calls \ {c} : phase'[d] = phase[d]
    BY <1>1, <1>3 DEF Receive, TypeOK
  <2>2. \A d \in closed : d \in Calls \ {c}
    BY <1>1, <2>1 DEF StreamsWired, TypeOK
  <2>. QED
    BY <1>1, <2>1, <2>2 DEF StreamsWired
<1>4. ASSUME NEW c \in Calls, Start(c) \/ Settle(c) PROVE StreamsWired'
  <2>1. /\ phase[c] # "new" /\ UNCHANGED <<session, req, closed>>
        /\ phase'[c] # "new" /\ \A d \in Calls \ {c} : phase'[d] = phase[d]
    BY <1>1, <1>4 DEF Start, Settle, TypeOK
  <2>. QED
    BY <1>1, <2>1 DEF StreamsWired, TypeOK
<1>5. ASSUME NEW c \in Calls, CloseStream(c) PROVE StreamsWired'
  BY <1>1, <1>5 DEF CloseStream, StreamsWired
<1>. QED
  BY <1>1, <1>2, <1>3, <1>4, <1>5
     DEF Next, vars, Step, Exit, Cancel, CancelRun, CancelAll

LEMMA WiredInvariance == SafeSpec => []RInv
<1>1. Init => RInv
  BY InitInvariant, InitWired DEF RInv
<1>2. RInv /\ [Next]_vars => RInv'
  BY NextPreserves, NextWired DEF RInv
<1>. QED
  BY <1>1, <1>2, PTL DEF SafeSpec

\* On stdio no stream closes.
LEMMA LinesStayOpen ==
  ASSUME RInv, session.transport = "stdio"
  PROVE  closed = {}
BY DEF RInv, IInv, TypeOK, StreamsWired

-----------------------------------------------------------------------------
\* What a client expects of a call changes with the call's phase, its answer,
\* and, until it settles, its cancel.
LEMMA ViewKept ==
  ASSUME NEW c \in Calls, phase'[c] = phase[c], sent'[c] = sent[c],
         phase[c] \in {"received", "running"} =>
           (c \in flagged' \cup closed' <=> c \in flagged \cup closed)
  PROVE  reqView'[c] = reqView[c]
BY DEF reqView, View

LEMMA ViewFacts ==
  ASSUME NEW c \in Calls
  PROVE  /\ phase[c] = "new" => reqView[c] = "unsent"
         /\ phase[c] \in {"received", "running"} =>
              reqView[c] = IF c \in flagged \cup closed THEN "withdrawn" ELSE "open"
BY DEF reqView, View

LEMMA ServiceStarts == Init => Service!RequestInit
<1>1. SUFFICES ASSUME Init PROVE Service!RequestInit
  OBVIOUS
<1>2. Apart \in BOOLEAN
  BY DEF Apart
<1>3. \A c \in Calls : View(c) = "unsent"
  BY <1>1 DEF Init, View
<1>. QED
  BY <1>1, <1>2, <1>3 DEF Init, Service!RequestInit

LEMMA ReceiveImplementsAsk ==
  ASSUME RInv, NEW c \in Calls, NEW q \in Requests, Receive(c, q)
  PROVE  Service!Ask(c)
<1>. USE DEF RInv, IInv
<1>1. /\ phase[c] = "new"
      /\ \A d \in Calls : phase'[d] = IF d = c THEN "received" ELSE phase[d]
      /\ UNCHANGED <<session, flagged, closed, sent>>
  BY DEF Receive, TypeOK
<1>2. c \notin flagged \cup closed
  BY <1>1 DEF ProgressOnly, StreamsWired
<1>3. reqView[c] = "unsent" /\ reqView'[c] = "open"
  BY <1>1, <1>2 DEF reqView, View
<1>4. \A d \in Calls \ {c} : reqView'[d] = reqView[d]
  BY <1>1, ViewKept
<1>5. reqView' = [reqView EXCEPT ![c] = "open"]
  BY <1>3, <1>4 DEF reqView
<1>. QED
  BY <1>1, <1>3, <1>5 DEF Service!Ask, reqView, Apart

LEMMA StartStutters ==
  ASSUME RInv, NEW c \in Calls, Start(c)
  PROVE  UNCHANGED Service!requestVars
<1>. USE DEF RInv, IInv
<1>1. /\ phase[c] = "received" /\ phase'[c] = "running"
      /\ \A d \in Calls \ {c} : phase'[d] = phase[d]
      /\ UNCHANGED <<session, flagged, closed, sent>>
  BY DEF Start, TypeOK
<1>2. reqView'[c] = reqView[c]
  BY <1>1 DEF reqView, View
<1>3. \A d \in Calls \ {c} : reqView'[d] = reqView[d]
  BY <1>1, ViewKept
<1>4. reqView' = reqView
  BY <1>2, <1>3 DEF reqView
<1>. QED
  BY <1>1, <1>4 DEF Service!requestVars, reqView, Apart

LEMMA StepImplementsProgress ==
  ASSUME RInv, NEW c \in Calls, Step(c)
  PROVE  Service!Progress(c) \/ UNCHANGED Service!requestVars
<1>. USE DEF RInv, IInv
<1>1. /\ phase[c] \in {"running", "settled"} /\ c \notin flagged /\ Write(c, "progress")
      /\ UNCHANGED <<session, phase, flagged, closed>>
  BY DEF Step
<1>2. CASE sent' = sent
  <2>1. \A d \in Calls : reqView'[d] = reqView[d]
    BY <1>1, <1>2, ViewKept
  <2>2. reqView' = reqView
    BY <2>1 DEF reqView
  <2>. QED
    BY <1>1, <1>2, <2>2 DEF Service!requestVars, reqView, Apart
<1>3. CASE sent' # sent
  <2>1. phase[c] = "running" /\ c \notin closed
    BY <1>1, <1>3, SettledHearNothing, LinesStayOpen DEF Write
  <2>2. sent' = [sent EXCEPT ![c] = Append(@, "progress")]
    BY <1>1, <1>3 DEF Write
  <2>3. reqView[c] = "open" /\ reqView'[c] = "open"
    BY <1>1, <2>1 DEF reqView, View
  <2>4. \A d \in Calls \ {c} : sent'[d] = sent[d]
    BY <2>2 DEF TypeOK
  <2>5. \A d \in Calls \ {c} : reqView'[d] = reqView[d]
    BY <1>1, <2>4, ViewKept
  <2>6. reqView' = reqView
    BY <2>3, <2>5 DEF reqView
  <2>. QED
    BY <1>1, <2>2, <2>3, <2>6 DEF Service!Progress, Service!Open, reqView, Apart
<1>. QED
  BY <1>2, <1>3

\* A call settles with an answer, or without one when it was withdrawn.
LEMMA SettleImplementsEnd ==
  ASSUME RInv, NEW c \in Calls, Settle(c)
  PROVE  Service!Answer(c) \/ Service!Drop(c)
<1>. USE DEF RInv, IInv
<1>1. /\ phase[c] = "running"
      /\ \A d \in Calls : phase'[d] = IF d = c THEN "settled" ELSE phase[d]
      /\ IF c \in flagged THEN UNCHANGED sent ELSE Write(c, "response")
      /\ UNCHANGED <<session, flagged, closed>>
  BY DEF Settle, TypeOK
<1>2. /\ sent[c] \in Seq({"progress", "response"}) /\ Len(sent[c]) \in Nat
      /\ \A n \in 1 .. Len(sent[c]) : sent[c][n] = "progress"
  BY <1>1 DEF TypeOK, ProgressOnly
<1>3. CASE c \in flagged \cup closed
  <2>1. sent' = sent
    BY <1>1, <1>3, LinesStayOpen DEF Write
  <2>2. ~ (sent[c] # <<>> /\ sent[c][Len(sent[c])] = "response")
    BY <1>2
  <2>3. reqView[c] = "withdrawn" /\ reqView'[c] = "over"
    BY <1>1, <1>3, <2>1, <2>2 DEF reqView, View
  <2>4. \A d \in Calls \ {c} : reqView'[d] = reqView[d]
    BY <1>1, <2>1, ViewKept
  <2>5. reqView' = [reqView EXCEPT ![c] = "over"]
    BY <2>3, <2>4 DEF reqView
  <2>. QED
    BY <1>1, <2>1, <2>3, <2>5 DEF Service!Drop, reqView, Apart
<1>4. CASE c \notin flagged \cup closed
  <2>1. sent' = [sent EXCEPT ![c] = Append(@, "response")]
    BY <1>1, <1>4 DEF Write
  <2>2. sent'[c] = Append(sent[c], "response") /\ \A d \in Calls \ {c} : sent'[d] = sent[d]
    BY <2>1 DEF TypeOK
  <2>3. sent'[c] # <<>> /\ sent'[c][Len(sent'[c])] = "response"
    BY <1>2, <2>2
  <2>4. reqView[c] = "open" /\ reqView'[c] = "answered"
    BY <1>1, <1>4, <2>3 DEF reqView, View
  <2>5. \A d \in Calls \ {c} : reqView'[d] = reqView[d]
    BY <1>1, <2>2, ViewKept
  <2>6. reqView' = [reqView EXCEPT ![c] = "answered"]
    BY <2>4, <2>5 DEF reqView
  <2>. QED
    BY <1>1, <2>1, <2>4, <2>6 DEF Service!Answer, Service!Open, reqView, Apart
<1>. QED
  BY <1>3, <1>4

\* A cancel or a hang-up withdraws the open calls it marks or closes, of
\* other clients only those that share an id.
LEMMA CancelImplementsWithdraw ==
  ASSUME RInv, NEW c \in Calls, Cancel(c) \/ CloseStream(c)
  PROVE  Service!Withdraw(c) \/ UNCHANGED Service!requestVars
<1>. USE DEF RInv, IInv
<1>. DEFINE named == {inFlight[req[c].id]} \cap Calls
            W == {d \in Calls : /\ phase[d] \in {"received", "running"}
                                /\ d \notin flagged \cup closed
                                /\ d \in flagged' \cup closed'}
<1>1. /\ phase[c] # "new"
      /\ flagged \subseteq flagged' /\ flagged' \subseteq flagged \cup named
      /\ closed \subseteq closed' /\ closed' \subseteq closed \cup {c}
      /\ UNCHANGED <<session, phase, sent>>
  BY DEF Cancel, CloseStream, HandleCancelled
<1>2. Apart => named \subseteq {c}
  <2>1. SUFFICES ASSUME Apart, NEW d \in named PROVE d = c
    OBVIOUS
  <2>2. req[c].id \in Ids
    BY <1>1 DEF RequestsNumbered, Requests
  <2>3. d \in Calls /\ phase[d] # "new" /\ req[d].id = req[c].id
    BY <2>2, McpAssumption DEF EntriesRun, Running, Calls
  <2>. QED
    BY <1>1, <2>1, <2>3, IdsDiffer
<1>3. Apart => W \subseteq {c}
  <2>. HIDE DEF named
  <2>. QED
    BY <1>1, <1>2
<1>4. W \subseteq {d \in Calls : reqView[d] = "open"}
  BY ViewFacts
<1>5. \A d \in Calls : reqView'[d] = IF d \in W THEN "withdrawn" ELSE reqView[d]
  <2>1. SUFFICES ASSUME NEW d \in Calls
                 PROVE  reqView'[d] = IF d \in W THEN "withdrawn" ELSE reqView[d]
    OBVIOUS
  <2>2. CASE d \in W
    BY <1>1, <2>2 DEF reqView, View
  <2>3. CASE d \notin W
    <3>1. phase[d] \in {"received", "running"} =>
            (d \in flagged' \cup closed' <=> d \in flagged \cup closed)
      <4>. HIDE DEF named
      <4>. QED
        BY <1>1, <2>3
    <3>2. phase'[d] = phase[d] /\ sent'[d] = sent[d]
      BY <1>1
    <3>3. reqView'[d] = reqView[d]
      BY <3>1, <3>2, ViewKept
    <3>. QED
      BY <2>3, <3>3
  <2>. QED
    BY <2>2, <2>3
<1>6. reqView[c] # "unsent"
  BY <1>1 DEF reqView, View
<1>. HIDE DEF named, W
<1>7. CASE W = {}
  <2>1. reqView' = reqView
    BY <1>5, <1>7 DEF reqView
  <2>. QED
    BY <1>1, <2>1 DEF Service!requestVars, reqView, Apart
<1>8. CASE W # {}
  <2>1. Apart => W = {c}
    BY <1>3, <1>8
  <2>2. reqView' = [d \in Calls |-> IF d \in W THEN "withdrawn" ELSE reqView[d]]
    BY <1>5 DEF reqView
  <2>. QED
    BY <1>1, <1>4, <1>6, <2>1, <2>2 DEF Service!Withdraw, Service!Open, reqView, Apart
<1>. QED
  BY <1>7, <1>8

LEMMA OthersStutter ==
  ASSUME UNCHANGED <<session, phase, flagged, closed, sent>>
  PROVE  UNCHANGED Service!requestVars
<1>1. \A d \in Calls : reqView'[d] = reqView[d]
  BY ViewKept
<1>2. reqView' = reqView
  BY <1>1 DEF reqView
<1>. QED
  BY <1>2 DEF Service!requestVars, reqView, Apart

\* Every step of the engine is a step of the service, or none a client sees.
LEMMA StepImplements == RInv /\ [Next]_vars => [Service!RequestNext]_(Service!requestVars)
<1>1. SUFFICES ASSUME RInv, [Next]_vars PROVE [Service!RequestNext]_(Service!requestVars)
  OBVIOUS
<1>2. CASE UNCHANGED <<session, phase, flagged, closed, sent>>
  BY <1>2, OthersStutter
<1>3. ASSUME NEW c \in Calls, NEW q \in Requests, Receive(c, q) PROVE Service!RequestNext
  BY <1>1, <1>3, ReceiveImplementsAsk DEF Service!RequestNext
<1>4. ASSUME NEW c \in Calls, Start(c) PROVE UNCHANGED Service!requestVars
  BY <1>1, <1>4, StartStutters
<1>5. ASSUME NEW c \in Calls, Step(c) PROVE [Service!RequestNext]_(Service!requestVars)
  BY <1>1, <1>5, StepImplementsProgress DEF Service!RequestNext
<1>6. ASSUME NEW c \in Calls, Settle(c) PROVE Service!RequestNext
  BY <1>1, <1>6, SettleImplementsEnd DEF Service!RequestNext
<1>7. ASSUME NEW c \in Calls, Cancel(c) \/ CloseStream(c)
      PROVE  [Service!RequestNext]_(Service!requestVars)
  BY <1>1, <1>7, CancelImplementsWithdraw DEF Service!RequestNext
<1>. QED
  BY <1>1, <1>2, <1>3, <1>4, <1>5, <1>6, <1>7
     DEF Next, vars, Exit, CancelRun, CancelAll

\* Through late progress, cancels at any time, hang-ups and entries taken over,
\* a request is answered once and last or was withdrawn, by its own client
\* unless clients share ids (handleToolsCall, onStep, handleCancelled,
\* makeStreamTarget).
THEOREM RequestsKept == SafeSpec => ImplementsRequests
BY WiredInvariance, ServiceStarts, StepImplements, PTL
   DEF SafeSpec, ImplementsRequests, Service!RequestSpec

=============================================================================
