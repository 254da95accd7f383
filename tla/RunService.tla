----------------------------- MODULE RunService -----------------------------
(***************************************************************************)
(* What the run API of `jaiph serve` promises a client, whatever happens   *)
(* behind it: a created run is running, ends once, keeps how it ended for  *)
(* as long as it is shown, and while a run is shown under an idempotency   *)
(* key no second run is created under that key.  RunRegistry implements    *)
(* this specification.                                                     *)
(***************************************************************************)
CONSTANTS
  Ids,     \* run ids
  Keys,    \* idempotency keys, scoped to principal and workflow
  NoKey    \* a create without an Idempotency-Key

VARIABLES
  serving,  \* the server answers requests
  view,     \* status a client is shown for each run
  key       \* key each shown run is remembered under

svcVars == <<serving, view, key>>

Ended == {"succeeded", "failed", "cancelled", "interrupted"}
Shown == {r \in Ids : view[r] \in Ended \cup {"running"}}

ServiceInit ==
  /\ serving = TRUE
  /\ view = [r \in Ids |-> "unused"]
  /\ key = [r \in Ids |-> NoKey]

\* A run is created unless its key is one a shown run is remembered under.
Create(r, k) ==
  /\ serving
  /\ view[r] = "unused"
  /\ k = NoKey \/ \A s \in Shown : key[s] # k
  /\ view' = [view EXCEPT ![r] = "running"]
  /\ key' = [key EXCEPT ![r] = k]
  /\ UNCHANGED serving

\* A running run ends; ended runs, perhaps this one, are dropped to make room.
End(r) ==
  /\ serving
  /\ view[r] = "running"
  /\ view'[r] \in Ended \cup {"hidden"}
  /\ \A s \in Ids \ {r} : \/ view'[s] = view[s]
                          \/ view[s] \in Ended /\ view'[s] = "hidden"
  /\ DOMAIN view' = Ids
  /\ key' = [s \in Ids |-> IF view'[s] = "hidden" THEN NoKey ELSE key[s]]
  /\ UNCHANGED serving

\* The process dies: nothing is shown until it is started again.
Stop ==
  /\ serving
  /\ serving' = FALSE
  /\ view' = [r \in Ids |-> IF r \in Shown THEN "hidden" ELSE view[r]]
  /\ key' = [r \in Ids |-> NoKey]

\* The next process shows what it finds on disk, and nothing as running.
Resume ==
  /\ ~serving
  /\ serving' = TRUE
  /\ view' \in [Ids -> Ended \cup {"hidden", "unused"}]
  /\ \A r \in Ids : (view'[r] = "unused") <=> (view[r] = "unused")
  /\ key' \in [Ids -> Keys \cup {NoKey}]
  /\ \A r \in Ids : view'[r] \in {"hidden", "unused"} => key'[r] = NoKey

ServiceNext ==
  \/ \E r \in Ids : End(r) \/ \E k \in Keys \cup {NoKey} : Create(r, k)
  \/ Stop \/ Resume

ServiceSpec == ServiceInit /\ [][ServiceNext]_svcVars

=============================================================================
