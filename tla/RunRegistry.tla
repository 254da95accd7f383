---------------------------- MODULE RunRegistry ----------------------------
(***************************************************************************)
(* The run registry of `jaiph serve` (src/src/cli/serve/handler.ts) and    *)
(* the durable records it rebuilds itself from (run-store.ts): creation    *)
(* with idempotency keys, the concurrency cap, cancellation, finalization, *)
(* eviction, the death of the process and its restart.                     *)
(*                                                                         *)
(* A handler runs to completion, so a create with its reservation of the   *)
(* key, a cancel, and a finalize with its persist and eviction are each    *)
(* one action.  The workflow process of a run is a second actor, which     *)
(* outlives a server that is killed.                                       *)
(***************************************************************************)
EXTENDS Integers, FiniteSets

CONSTANTS
  MaxRuns,     \* bound on run ids
  Requests,    \* bodies clients post: records [owner, key, args]
  NoKey,       \* the key of a create without an Idempotency-Key
  NoRequest,   \* a record that does not know what created it
  Configs      \* startup settings considered, with the bounds under each

ASSUME RegistryAssumption ==
  /\ MaxRuns \in Nat
  /\ \A q \in Requests : {"owner", "key", "args"} = DOMAIN q
  /\ NoRequest \notin Requests
  /\ Configs \subseteq [sandbox : {"host", "docker"}, cap : Nat \ {0}, retain : Nat,
                         runs : 0 .. MaxRuns, crashes : Nat]

Ids == 1 .. MaxRuns
Ended == {"succeeded", "failed", "cancelled", "interrupted"}

\* createRun: the composite key, scoped to the authenticated principal.
Key(q) == IF q = NoRequest \/ q.key = NoKey THEN NoKey ELSE <<q.owner, q.key>>
Keys == {Key(q) : q \in Requests} \ {NoKey}

VARIABLES
  config,   \* posture, maxConcurrent and retainRuns (0 keeps all), set at startup;
            \* runs and crashes bound the runs created and the deaths under it
  up,       \* the serving process lives
  crashes,  \* times it died
  started,  \* runs ever created; their ids are 1 .. started
  status,   \* record.status, "absent" without a record
  req,      \* principal, idempotency_key and args_hash of a record
  order,    \* record.order
  marked,   \* records with cancelled set
  endedAt,  \* ended_at, on the clock below; 0 while running
  clock,    \* endings so far
  index,    \* idempotencyIndex, 0 without an entry
  child,    \* the workflow process of each run
  dirAt,    \* rank of the run dir by name, 0 before the dir exists
  closed,   \* runs whose journal ends with WORKFLOW_END
  chainKey, \* what the audit key store holds for the run
  file,     \* run.json
  origin,   \* history: the request that created each run
  orphans   \* history: processes whose server died before they did

recordVars == <<status, req, order, marked, endedAt, clock, index>>
diskVars == <<dirAt, closed, chainKey, file>>
historyVars == <<started, origin, orphans>>
vars == <<config, up, crashes, recordVars, child, diskVars, historyVars>>

NoFile == [status |-> "none", req |-> NoRequest, ended |-> 0]

Known == {r \in Ids : status[r] # "absent"}
inFlight == Cardinality({r \in Ids : status[r] = "running"})
Terminal(st) == {r \in Ids : st[r] \in Ended}
Alive == {r \in Ids : child[r] \in {"booting", "working"}}

TypeOK ==
  /\ config \in Configs
  /\ up \in BOOLEAN
  /\ crashes \in Nat
  /\ started \in 0 .. MaxRuns
  /\ status \in [Ids -> Ended \cup {"running", "absent"}]
  /\ req \in [Ids -> Requests \cup {NoRequest}]
  /\ order \in [Ids -> Nat]
  /\ marked \subseteq Ids
  /\ endedAt \in [Ids -> Nat]
  /\ clock \in Nat
  /\ index \in [Keys -> Ids \cup {0}]
  /\ child \in [Ids -> {"none", "booting", "working", "ok", "bad", "killed",
                    "gone"}]
  /\ dirAt \in [Ids -> Nat]
  /\ closed \subseteq Ids
  /\ chainKey \in [Ids -> {"none", "stored", "missing"}]
  /\ file \in [Ids -> [status : Ended \cup {"none"},
                      req : Requests \cup {NoRequest}, ended : Nat]]
  /\ origin \in [Ids -> Requests \cup {NoRequest}]
  /\ orphans \subseteq Ids

Init ==
  /\ config \in Configs
  /\ up = TRUE
  /\ crashes = 0
  /\ started = 0
  /\ status = [r \in Ids |-> "absent"]
  /\ req = [r \in Ids |-> NoRequest]
  /\ order = [r \in Ids |-> 0]
  /\ marked = {}
  /\ endedAt = [r \in Ids |-> 0]
  /\ clock = 0
  /\ index = [k \in Keys |-> 0]
  /\ child = [r \in Ids |-> "none"]
  /\ dirAt = [r \in Ids |-> 0]
  /\ closed = {}
  /\ chainKey = [r \in Ids |-> "none"]
  /\ file = [r \in Ids |-> NoFile]
  /\ origin = [r \in Ids |-> NoRequest]
  /\ orphans = {}

-----------------------------------------------------------------------------
(***************************************************************************)
(* The HTTP handlers                                                       *)
(***************************************************************************)

\* The run a create with this key is answered with: 200, or 409 when the
\* arguments differ.
Existing(q) ==
  IF Key(q) \in Keys THEN {index[Key(q)]} \cap Known ELSE {}

\* inFlight() that stops counting a run as soon as its cancel was asked for.
CreateOverCap(q) ==
  LET r == started + 1 IN
  /\ up /\ r <= config.runs
  /\ Existing(q) = {}
  /\ Cardinality({s \in Ids : status[s] = "running" /\ s \notin marked}) < config.cap
  /\ started' = r
  /\ status' = [status EXCEPT ![r] = "running"]
  /\ req' = [req EXCEPT ![r] = q]
  /\ order' = [order EXCEPT ![r] = MaxRuns + r]
  /\ index' = [k \in Keys |-> IF k = Key(q) THEN r ELSE index[k]]
  /\ child' = [child EXCEPT ![r] = "booting"]
  /\ origin' = [origin EXCEPT ![r] = q]
  /\ UNCHANGED <<config, up, crashes, marked, endedAt, clock, diskVars, orphans>>

\* A create that looks its key up in the index and never reserves it.
CreateUnreserved(q) ==
  LET r == started + 1 IN
  /\ up /\ r <= config.runs
  /\ Existing(q) = {}
  /\ inFlight < config.cap
  /\ started' = r
  /\ status' = [status EXCEPT ![r] = "running"]
  /\ req' = [req EXCEPT ![r] = q]
  /\ order' = [order EXCEPT ![r] = MaxRuns + r]
  /\ child' = [child EXCEPT ![r] = "booting"]
  /\ origin' = [origin EXCEPT ![r] = q]
  /\ UNCHANGED <<config, up, crashes, marked, endedAt, clock, index, diskVars, orphans>>

(***************************************************************************)
(* createRun / callToolAsRun past validation, the idempotency lookup and   *)
(* the cap: startRun registers the record and spawns the process, and the  *)
(* key is reserved in the same turn.  The answers that change nothing      *)
(* (200 for a known key, 409, 429) are not actions.  The order counter     *)
(* restarts with the process; MaxRuns + r is above every reloaded order.   *)
(***************************************************************************)
CreateRun(q) ==
  LET r == started + 1 IN
  /\ up /\ r <= config.runs
  /\ Existing(q) = {}
  /\ inFlight < config.cap
  /\ started' = r
  /\ status' = [status EXCEPT ![r] = "running"]
  /\ req' = [req EXCEPT ![r] = q]
  /\ order' = [order EXCEPT ![r] = MaxRuns + r]
  /\ index' = [k \in Keys |-> IF k = Key(q) THEN r ELSE index[k]]
  /\ child' = [child EXCEPT ![r] = "booting"]
  /\ origin' = [origin EXCEPT ![r] = q]
  /\ UNCHANGED <<config, up, crashes, marked, endedAt, clock, diskVars, orphans>>

(***************************************************************************)
(* cancelRun, notifications/cancelled and the SSE hangup all end in the    *)
(* wrapped handle: mark the record, then kill the child.  A terminal run   *)
(* answers 409.                                                            *)
(***************************************************************************)
Cancel(r) ==
  /\ up
  /\ status[r] = "running"
  /\ marked' = marked \cup {r}
  /\ UNCHANGED <<config, up, crashes, status, req, order, endedAt, clock, index, child,
                 diskVars, historyVars>>

\* cancelAll, on the second shutdown signal.
CancelAll ==
  /\ up
  /\ marked' = marked \cup {r \in Ids : status[r] = "running"}
  /\ UNCHANGED <<config, up, crashes, status, req, order, endedAt, clock, index, child,
                 diskVars, historyVars>>

-----------------------------------------------------------------------------
(***************************************************************************)
(* The workflow process                                                    *)
(***************************************************************************)

\* The kernel makes its run dir and writes WORKFLOW_START.  Directory names
\* begin with the UTC time, so they sort in creation order.
Boot(r) ==
  /\ child[r] = "booting"
  /\ child' = [child EXCEPT ![r] = "working"]
  /\ dirAt' = [dirAt EXCEPT ![r] = 1 + Cardinality({s \in Ids : dirAt[s] # 0})]
  /\ UNCHANGED <<config, up, crashes, recordVars, closed, chainKey, file, historyVars>>

\* runRoot returns and the runner writes its meta file: exit 0 or not.
Complete(r) ==
  /\ child[r] = "working"
  /\ \E exit \in {"ok", "bad"} : child' = [child EXCEPT ![r] = exit]
  /\ closed' = closed \cup {r}
  /\ UNCHANGED <<config, up, crashes, recordVars, dirAt, chainKey, file, historyVars>>

\* The process ends without its meta file: cancelled, timed out, or a
\* failure of its own, before or after the last journal line.
Die(r) ==
  /\ r \in Alive
  /\ child' = [child EXCEPT ![r] = "killed"]
  /\ \E last \in SUBSET ({r} \cap {s \in Ids : child[s] = "working"}) :
       closed' = closed \cup last
  /\ UNCHANGED <<config, up, crashes, recordVars, dirAt, chainKey, file, historyVars>>

-----------------------------------------------------------------------------
(***************************************************************************)
(* Finalization                                                            *)
(***************************************************************************)

\* result.runDir: the meta file for a host run, which only a run that
\* returned has written; the runs mount for a container.
RunDirKnown(r) ==
  /\ dirAt[r] # 0
  /\ child[r] \in {"ok", "bad"} \/ config.sandbox = "docker"

\* evictCompleted by count: all but the newest Retain of the terminal runs.
Surplus(old) ==
  {s \in old : /\ config.retain > 0
               /\ Cardinality({t \in old : order[t] > order[s]}) >= config.retain}

\* evict: the index entry goes with its run unless a later run took it over.
IndexWithout(gone) ==
  [k \in Keys |-> IF \E s \in gone : Key(req[s]) = k /\ index[k] = s
                  THEN 0 ELSE index[k]]

\* The run ends as `how`, then evictCompleted: by age everything that ended
\* before some cutoff in the past, then by count.
EndAndEvict(r, how) ==
  LET now == clock + 1
      st == [status EXCEPT ![r] = how]
      ends == [endedAt EXCEPT ![r] = now]
  IN \E cutoff \in 0 .. now :
       LET aged == {s \in Terminal(st) : ends[s] < cutoff}
           gone == aged \cup Surplus(Terminal(st) \ aged)
       IN /\ status' = [s \in Ids |-> IF s \in gone THEN "absent" ELSE st[s]]
          /\ req' = [s \in Ids |-> IF s \in gone THEN NoRequest ELSE req[s]]
          /\ order' = [s \in Ids |-> IF s \in gone THEN 0 ELSE order[s]]
          /\ endedAt' = [s \in Ids |-> IF s \in gone THEN 0 ELSE ends[s]]
          /\ marked' = marked \ gone
          /\ index' = IndexWithout(gone)
          /\ clock' = now

\* finalize that trusts the exit status over the cancel.
EndStatusByExit(r) ==
  IF child[r] = "ok" THEN "succeeded" ELSE IF r \in marked THEN "cancelled" ELSE "failed"

\* finalize: a cancel asked for in time wins over how the process ended.
EndStatus(r) ==
  IF r \in marked THEN "cancelled" ELSE IF child[r] = "ok" THEN "succeeded" ELSE "failed"

\* persistRunRecord after eviction dropped the run's key from its record.
PersistedLate(r) == [status |-> EndStatus(r), req |-> NoRequest, ended |-> clock + 1]

\* persistRunRecord: the public record as it is when the run ends.
Persisted(r) == [status |-> EndStatus(r), req |-> req[r], ended |-> clock + 1]

\* A finalize that waits for a run dir to report.
FinalizeWithDir(r) ==
  /\ up
  /\ status[r] = "running"
  /\ child[r] \in {"ok", "bad", "killed"}
  /\ RunDirKnown(r)
  /\ chainKey' = [chainKey EXCEPT ![r] = "stored"]
  /\ file' = [file EXCEPT ![r] = Persisted(r)]
  /\ EndAndEvict(r, EndStatus(r))
  /\ child' = [child EXCEPT ![r] = "gone"]
  /\ UNCHANGED <<config, up, crashes, dirAt, closed, historyVars>>

(***************************************************************************)
(* The exit is observed and callTool resolves: the chain key is stored     *)
(* beside the run dir, run.json is written, and the registry is trimmed.   *)
(* Both writes need a run dir.                                             *)
(***************************************************************************)
Finalize(r) ==
  /\ up
  /\ status[r] = "running"
  /\ child[r] \in {"ok", "bad", "killed"}
  /\ IF RunDirKnown(r)
     THEN /\ chainKey' = [chainKey EXCEPT ![r] = "stored"]
          /\ file' = [file EXCEPT ![r] = Persisted(r)]
     ELSE UNCHANGED <<chainKey, file>>
  /\ EndAndEvict(r, EndStatus(r))
  /\ child' = [child EXCEPT ![r] = "gone"]
  /\ UNCHANGED <<config, up, crashes, dirAt, closed, historyVars>>

(***************************************************************************)
(* callTool rejects: the spawn threw, or the run ended and its chain key   *)
(* could not be stored (the entry directory, made first, marks the run as  *)
(* keyed).  run_dir stays null, so nothing is persisted.                   *)
(***************************************************************************)
FinalizeError(r) ==
  /\ up
  /\ status[r] = "running"
  /\ \/ /\ child[r] = "booting"
        /\ UNCHANGED chainKey
     \/ /\ child[r] \in {"ok", "bad", "killed"}
        /\ RunDirKnown(r)
        /\ \E mark \in {"none", "missing"} : chainKey' = [chainKey EXCEPT ![r] = mark]
  /\ child' = [child EXCEPT ![r] = "gone"]
  /\ EndAndEvict(r, IF r \in marked THEN "cancelled" ELSE "failed")
  /\ UNCHANGED <<config, up, crashes, dirAt, closed, file, historyVars>>

-----------------------------------------------------------------------------
(***************************************************************************)
(* The death of the process, and its restart                               *)
(***************************************************************************)

\* The registry is gone; the workflow processes are not.
Crash ==
  /\ up
  /\ crashes < config.crashes
  /\ up' = FALSE
  /\ crashes' = crashes + 1
  /\ status' = [r \in Ids |-> "absent"]
  /\ req' = [r \in Ids |-> NoRequest]
  /\ order' = [r \in Ids |-> 0]
  /\ endedAt' = [r \in Ids |-> 0]
  /\ marked' = {}
  /\ index' = [k \in Keys |-> 0]
  /\ orphans' = orphans \cup Alive
  /\ UNCHANGED <<config, clock, child, diskVars, started, origin>>

\* scanRunDirs: a run dir with a journal or a run.json.
OnDisk == {r \in Ids : dirAt[r] # 0}

\* reconcileRun for every journal without its last line, run.json or not.
ReloadedFromJournal(r) ==
  IF r \in closed THEN file[r]
  ELSE [status |-> "interrupted", req |-> NoRequest, ended |-> clock + 1]

\* reloadRun, or reconcileRun for a journal without a run.json, which knows
\* neither the owner, nor the key, nor the arguments.
Reloaded(r) ==
  IF file[r] # NoFile THEN file[r]
  ELSE [status |-> "interrupted", req |-> NoRequest, ended |-> clock + 1]

\* verifyRunJournal: keyed, and the key is gone or the end is missing.
Suspect(r) ==
  \/ chainKey[r] = "missing"
  \/ chainKey[r] = "stored" /\ r \notin closed

\* An index rebuilt with the first record of a key instead of the last.
IndexRebuiltFromOldest ==
  [k \in Keys |->
     LET holders == {r \in OnDisk : Key(Reloaded(r).req) = k}
     IN IF holders = {} THEN 0
        ELSE CHOOSE r \in holders : \A s \in holders : dirAt[s] >= dirAt[r]]

\* The constructor seeds the index oldest first: the newest record of a key
\* is what the key answers with.
IndexRebuilt ==
  [k \in Keys |->
     LET holders == {r \in OnDisk : Key(Reloaded(r).req) = k}
     IN IF holders = {} THEN 0
        ELSE CHOOSE r \in holders : \A s \in holders : dirAt[s] <= dirAt[r]]

(***************************************************************************)
(* loadPersistedRuns and the handler's constructor.  A reconciled record   *)
(* is persisted; a run that fails verification is failed in memory only.   *)
(***************************************************************************)
Restart ==
  /\ ~up
  /\ up' = TRUE
  /\ file' = [r \in Ids |-> IF r \in OnDisk THEN Reloaded(r) ELSE NoFile]
  /\ status' = [r \in Ids |-> IF r \notin OnDisk THEN "absent"
                              ELSE IF Suspect(r) THEN "failed" ELSE Reloaded(r).status]
  /\ req' = [r \in Ids |-> IF r \in OnDisk THEN Reloaded(r).req ELSE NoRequest]
  /\ order' = dirAt
  /\ endedAt' = [r \in Ids |-> IF r \in OnDisk THEN Reloaded(r).ended ELSE 0]
  /\ marked' = {r \in OnDisk : Reloaded(r).status = "cancelled"}
  /\ index' = IndexRebuilt
  /\ clock' = clock + 1
  /\ UNCHANGED <<config, crashes, child, dirAt, closed, chainKey, historyVars>>

Next ==
  \/ \E q \in Requests : CreateRun(q)
  \/ \E r \in Ids : \/ Cancel(r)
                    \/ Boot(r) \/ Complete(r) \/ Die(r)
                    \/ Finalize(r) \/ FinalizeError(r)
  \/ CancelAll
  \/ Crash \/ Restart

(***************************************************************************)
(* While the server lives, a run that was asked to stop is killed within   *)
(* the grace period, and the exit of a process is always observed.         *)
(***************************************************************************)
Fairness ==
  \A r \in Ids : /\ WF_vars(up /\ r \in marked /\ Die(r))
                 /\ WF_vars(Finalize(r))

SafeSpec == Init /\ [][Next]_vars
Spec == SafeSpec /\ Fairness

-----------------------------------------------------------------------------
(***************************************************************************)
(* Properties                                                              *)
(***************************************************************************)

\* The index and the records agree: every entry is a shown run remembered
\* under that key, and the newest one of the key, so a create with a key some
\* shown run carries is always answered with the latest such run.
IndexAnswersNewest ==
  \A k \in Keys :
    LET holders == {r \in Known : Key(req[r]) = k}
    IN IF holders = {} THEN index[k] = 0
       ELSE index[k] \in holders /\ \A r \in holders : order[r] <= order[index[k]]

\* The cap holds for processes, not just records: at most Cap of the workflow
\* processes this server started are alive (maxConcurrent).  Runs it inherits
\* from a killed server are not counted by it.
CapBoundsProcesses ==
  up => Cardinality(Alive \ orphans) <= config.cap

\* What a shown record says of its origin is right across evictions, crashes
\* and reloads: the owner, key and arguments of the create, unless the run was
\* reconciled as interrupted.
RecordsKeepOrigin ==
  \A r \in Known : req[r] = origin[r] \/ file[r].status = "interrupted"

\* run.json is written once: what a restart read is what every later restart
\* reads, even for a run whose process outlived its server and ended well
\* after it was reconciled (serve.md: "stays stable across further restarts").
RecordsWrittenOnce ==
  [][\A r \in Ids : file[r] # NoFile => file'[r] = file[r]]_vars

\* An accepted cancel decides the outcome: the run may complete before the
\* kill reaches it, and is reported cancelled all the same, now and after a
\* restart, unless its journal no longer verifies.
CancelDecides ==
  \A r \in marked : status[r] \in {"running", "cancelled"} \/ Suspect(r)

\* Cancelled runs end: again and again there is none that still runs, so no
\* cancelled run keeps a slot of the cap for ever.
CancelledRunsEnd == []<>(\A r \in marked : status[r] # "running")

\* The key each run was created under, which clients know.
OriginKey(r) == Key(origin[r])

\* serve.md: "A client that retries an expensive run after a network blip or a
\* server restart therefore never doubles it": no run is created under a key
\* while another run created under it is shown.  A run that was running, or was
\* cancelled on the host, when the server died comes back without its key.
RetryNeverDoubles ==
  [][\A q \in Requests :
       CreateRun(q) /\ Key(q) # NoKey => \A s \in Known : OriginKey(s) # Key(q)]_vars

\* The registry implements the service clients are promised.
View(r) ==
  IF r > started THEN "unused" ELSE IF status[r] = "absent" THEN "hidden" ELSE status[r]

Service == INSTANCE RunService WITH
  serving <- up,
  view <- [r \in Ids |-> View(r)],
  key <- [r \in Ids |-> Key(req[r])]

ImplementsService == Service!ServiceSpec

=============================================================================
