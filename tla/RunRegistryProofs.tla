------------------------- MODULE RunRegistryProofs -------------------------
(***************************************************************************)
(* Safety of the run registry, for any number of runs, any requests, any   *)
(* settings and any number of deaths of the server: the cap bounds the     *)
(* workflow processes, an accepted cancel decides the outcome, a record    *)
(* keeps what it says of its origin, run.json is written once, a key is    *)
(* answered with its newest run, and the registry implements RunService.   *)
(***************************************************************************)
EXTENDS RunRegistry, FiniteSetTheorems, WellFoundedInduction, TLAPS

Settings == [sandbox : {"host", "docker"}, cap : Nat \ {0}, retain : Nat,
             runs : 0 .. MaxRuns, crashes : Nat]

(***************************************************************************)
(* The inductive invariant.  Ids not handed out yet have left no trace;    *)
(* run dirs are numbered within the bound and come with the process's      *)
(* boot; nothing is shown while the server is down.                        *)
(***************************************************************************)
FreshClean ==
  \A r \in Ids : r > started =>
    /\ child[r] = "none" /\ status[r] = "absent" /\ file[r] = NoFile
    /\ r \notin marked /\ r \notin orphans

DirsFollowBoot ==
  /\ \A r \in Ids : dirAt[r] <= MaxRuns
  /\ \A r \in Ids : child[r] \in {"none", "booting"} => dirAt[r] = 0

DownShowsNothing ==
  ~up => /\ \A r \in Ids : status[r] = "absent"
         /\ marked = {}

\* A process the server started and did not see end has a running record,
\* and there are no more of those than the cap allows.
ProcessesRecorded ==
  /\ \A r \in Alive \ orphans : status[r] = "running"
  /\ up => inFlight <= config.cap

\* run.json belongs to a run with a dir and no running record; one that says
\* how the run ended was written after its process was gone.
FilesFinal ==
  \A r \in Ids :
    /\ file[r] = NoFile \/ (file[r].status \in Ended /\ dirAt[r] # 0)
    /\ status[r] = "running" => file[r] = NoFile
    /\ file[r] # NoFile /\ file[r].status # "interrupted"
         => child[r] = "gone" /\ file[r].req = origin[r]

MarkedGone ==
  \A r \in marked : /\ status[r] # "absent"
                    /\ status[r] # "running" => child[r] = "gone"

IInv ==
  /\ TypeOK
  /\ FreshClean
  /\ DirsFollowBoot
  /\ DownShowsNothing
  /\ ProcessesRecorded
  /\ FilesFinal
  /\ MarkedGone
  /\ RecordsKeepOrigin
  /\ CancelDecides

-----------------------------------------------------------------------------
(***************************************************************************)
(* Finite sets                                                             *)
(***************************************************************************)
LEMMA IdsFinite ==
  ASSUME NEW S, S \subseteq Ids
  PROVE  /\ IsFiniteSet(S)
         /\ Cardinality(S) \in 0 .. MaxRuns
         /\ \A x \in Ids \ S : Cardinality(S) < MaxRuns
<1>1. MaxRuns \in Nat
  BY RegistryAssumption
<1>2. IsFiniteSet(Ids) /\ Cardinality(Ids) = MaxRuns
  BY <1>1, FS_Interval DEF Ids
<1>3. IsFiniteSet(S) /\ Cardinality(S) <= MaxRuns /\ Cardinality(S) \in Nat
  BY <1>2, FS_Subset, FS_CardinalityType
<1>4. ASSUME NEW x \in Ids \ S PROVE Cardinality(S) < MaxRuns
  <2>1. Cardinality(S) # Cardinality(Ids)
    BY <1>2, FS_Subset
  <2>. QED
    BY <2>1, <1>1, <1>2, <1>3
<1>. QED
  BY <1>1, <1>3, <1>4

Below == {p \in Nat \X Nat : p[1] < p[2]}

\* A bounded function has a greatest value on a set that is not empty.
LEMMA GreatestValue ==
  ASSUME NEW B \in Nat, NEW S, S # {}, NEW f \in [S -> 0 .. B]
  PROVE  \E r \in S : \A s \in S : f[s] <= f[r]
<1>. DEFINE T == {B - f[s] : s \in S}
<1>1. T \subseteq Nat /\ T # {}
  OBVIOUS
<1>2. IsWellFoundedOn(Below, Nat)
  BY NatLessThanWellFounded DEF OpToRel, Below
<1>3. \E x \in T : \A y \in T : ~ (<<y, x>> \in Below)
  <2>. HIDE DEF T
  <2>. QED
    BY <1>1, <1>2, WFMin
<1>4. PICK x \in T : \A y \in T : ~ (<<y, x>> \in Below)
  BY <1>3
<1>5. PICK r \in S : x = B - f[r]
  BY <1>4
<1>6. ASSUME NEW s \in S PROVE f[s] <= f[r]
  <2>1. ~ (<<B - f[s], x>> \in Below)
    BY <1>4
  <2>2. ~ (B - f[s] < x)
    BY <2>1, <1>1, <1>5 DEF Below
  <2>. QED
    BY <2>2, <1>5
<1>. QED
  BY <1>6

LEMMA ConfigType == config \in Configs => config \in Settings
BY RegistryAssumption DEF Settings

-----------------------------------------------------------------------------
LEMMA InitInvariant == Init => IInv
<1>1. SUFFICES ASSUME Init PROVE IInv
  OBVIOUS
<1>2. TypeOK
  BY <1>1, RegistryAssumption DEF Init, TypeOK, NoFile, Keys, Ids
<1>3. FreshClean /\ DirsFollowBoot /\ DownShowsNothing /\ FilesFinal /\ MarkedGone
  BY <1>1, RegistryAssumption
     DEF Init, FreshClean, DirsFollowBoot, DownShowsNothing, FilesFinal, MarkedGone
<1>4. ProcessesRecorded
  <2>1. {r \in Ids : status[r] = "running"} = {}
    BY <1>1 DEF Init
  <2>2. inFlight = 0
    BY <2>1, FS_EmptySet DEF inFlight
  <2>3. config.cap \in Nat \ {0}
    BY <1>1, ConfigType DEF Init, Settings
  <2>. QED
    BY <1>1, <2>2, <2>3 DEF Init, ProcessesRecorded, Alive
<1>5. RecordsKeepOrigin /\ CancelDecides
  BY <1>1 DEF Init, RecordsKeepOrigin, CancelDecides, Known
<1>. QED
  BY <1>2, <1>3, <1>4, <1>5 DEF IInv

\* createRun: the new record takes a slot the cap has, under a fresh id.
LEMMA CreatePreserves ==
  ASSUME IInv, NEW q \in Requests, CreateRun(q)
  PROVE  IInv'
<1>. DEFINE r == started + 1
<1>. USE DEF IInv, diskVars
<1>0. MaxRuns \in Nat /\ config \in Settings
  BY RegistryAssumption, ConfigType DEF TypeOK
<1>1. r \in Ids /\ r > started /\ started' = r /\ started \in Nat
  BY <1>0 DEF CreateRun, TypeOK, Settings, Ids
<1>2. child[r] = "none" /\ status[r] = "absent" /\ file[r] = NoFile /\ dirAt[r] = 0
      /\ r \notin marked /\ r \notin orphans
  BY <1>1 DEF FreshClean, DirsFollowBoot
<1>3. TypeOK'
  <2>1. index' \in [Keys -> Ids \cup {0}]
    BY <1>1 DEF CreateRun, TypeOK
  <2>2. started' \in 0 .. MaxRuns
    BY <1>0, <1>1 DEF CreateRun, Settings
  <2>3. order' \in [Ids -> Nat]
    BY <1>0, <1>1 DEF CreateRun, TypeOK
  <2>4. /\ status' \in [Ids -> Ended \cup {"running", "absent"}]
        /\ req' \in [Ids -> Requests \cup {NoRequest}]
        /\ child' \in [Ids -> {"none", "booting", "working", "ok", "bad", "killed",
                              "gone"}]
        /\ origin' \in [Ids -> Requests \cup {NoRequest}]
    BY DEF CreateRun, TypeOK
  <2>. QED
    BY <2>1, <2>2, <2>3, <2>4 DEF CreateRun, TypeOK
<1>4. FreshClean'
  BY <1>1 DEF CreateRun, TypeOK, FreshClean, Ids
<1>5. DirsFollowBoot' /\ DownShowsNothing'
  BY <1>1, <1>2 DEF CreateRun, TypeOK, DirsFollowBoot, DownShowsNothing
<1>6. ProcessesRecorded'
  <2>1. Alive' = Alive \cup {r}
    BY <1>1 DEF CreateRun, TypeOK, Alive
  <2>2. \A s \in (Alive \ orphans)' : status'[s] = "running"
    BY <2>1, <1>1 DEF CreateRun, TypeOK, ProcessesRecorded, Alive
  <2>3. {s \in Ids : status'[s] = "running"} = {s \in Ids : status[s] = "running"} \cup {r}
    BY <1>1 DEF CreateRun, TypeOK
  <2>4. inFlight' = inFlight + 1
    BY <2>3, <1>2, IdsFinite, FS_AddElement DEF inFlight
  <2>5. inFlight \in Nat
    BY IdsFinite DEF inFlight
  <2>. QED
    BY <2>2, <2>4, <2>5, <1>0 DEF CreateRun, ProcessesRecorded, Settings
<1>7. FilesFinal' /\ MarkedGone'
  BY <1>1, <1>2 DEF CreateRun, TypeOK, FilesFinal, MarkedGone
<1>8. RecordsKeepOrigin'
  BY <1>1 DEF CreateRun, TypeOK, RecordsKeepOrigin, Known
<1>9. CancelDecides'
  BY <1>1, <1>2 DEF CreateRun, TypeOK, CancelDecides, Suspect
<1>. QED
  BY <1>3, <1>4, <1>5, <1>6, <1>7, <1>8, <1>9

\* A cancel marks running records only.
LEMMA CancelPreserves ==
  ASSUME IInv, (\E r \in Ids : Cancel(r)) \/ CancelAll
  PROVE  IInv'
<1>. USE DEF IInv, diskVars, historyVars
<1>1. /\ \A r \in marked' \ marked : r \in Ids /\ status[r] = "running"
      /\ UNCHANGED <<config, up, crashes, status, req, order, endedAt, clock, index,
                     child, diskVars, historyVars>>
  BY DEF Cancel, CancelAll
<1>2. TypeOK'
  BY <1>1 DEF TypeOK
<1>3. FreshClean' /\ DownShowsNothing' /\ MarkedGone' /\ CancelDecides'
  BY <1>1 DEF FreshClean, DownShowsNothing, MarkedGone, CancelDecides, Suspect
<1>4. DirsFollowBoot' /\ ProcessesRecorded' /\ FilesFinal' /\ RecordsKeepOrigin'
  BY <1>1 DEF DirsFollowBoot, ProcessesRecorded, FilesFinal, RecordsKeepOrigin,
              Known, Alive, inFlight
<1>. QED
  BY <1>2, <1>3, <1>4

-----------------------------------------------------------------------------
(***************************************************************************)
(* The workflow process                                                    *)
(***************************************************************************)

\* The new dir's rank is one above the number of dirs, r having had none.
LEMMA BootPreserves ==
  ASSUME IInv, NEW r \in Ids, Boot(r)
  PROVE  IInv'
<1>. DEFINE dirs == {s \in Ids : dirAt[s] # 0}
<1>. USE DEF IInv, recordVars, historyVars
<1>1. MaxRuns \in Nat
  BY RegistryAssumption
<1>2. Cardinality(dirs) \in Nat /\ Cardinality(dirs) < MaxRuns
  BY <1>1, IdsFinite DEF Boot, DirsFollowBoot
<1>3. /\ dirAt' = [dirAt EXCEPT ![r] = 1 + Cardinality(dirs)]
      /\ child' = [child EXCEPT ![r] = "working"]
      /\ child[r] = "booting"
      /\ UNCHANGED <<config, up, crashes, recordVars, closed, chainKey, file, historyVars>>
  BY DEF Boot
<1>. HIDE DEF dirs
<1>4. TypeOK'
  <2>1. dirAt' \in [Ids -> Nat]
    BY <1>2, <1>3 DEF TypeOK
  <2>2. child' \in [Ids -> {"none", "booting", "working", "ok", "bad", "killed", "gone"}]
    BY <1>3 DEF TypeOK
  <2>. QED
    BY <2>1, <2>2, <1>3 DEF TypeOK
<1>5. FreshClean'
  BY <1>3 DEF FreshClean, TypeOK
<1>6. DirsFollowBoot'
  BY <1>1, <1>2, <1>3 DEF DirsFollowBoot, TypeOK
<1>7. DownShowsNothing' /\ RecordsKeepOrigin' /\ CancelDecides'
  BY <1>3 DEF DownShowsNothing, RecordsKeepOrigin, CancelDecides, Known, Suspect
<1>8. ProcessesRecorded'
  <2>1. Alive' = Alive
    BY <1>3 DEF Alive, TypeOK
  <2>. QED
    BY <2>1, <1>3 DEF ProcessesRecorded, inFlight
<1>9. FilesFinal'
  BY <1>2, <1>3 DEF FilesFinal, TypeOK
<1>10. MarkedGone'
  BY <1>3 DEF MarkedGone, TypeOK
<1>. QED
  BY <1>4, <1>5, <1>6, <1>7, <1>8, <1>9, <1>10

\* The process of a run ends, with or without its last journal line.
LEMMA ProcessEndPreserves ==
  ASSUME IInv, NEW r \in Ids, Complete(r) \/ Die(r)
  PROVE  IInv'
<1>. USE DEF IInv, recordVars, historyVars
<1>1. PICK how \in {"ok", "bad", "killed"} : child' = [child EXCEPT ![r] = how]
  BY DEF Complete, Die
<1>2. /\ child[r] \in {"booting", "working"}
      /\ closed \subseteq closed' /\ closed' \subseteq closed \cup {r}
      /\ how # "killed" => child[r] = "working"
      /\ child[r] = "booting" => how = "killed"
      /\ UNCHANGED <<config, up, crashes, recordVars, dirAt, chainKey, file, historyVars>>
  BY <1>1 DEF Complete, Die, Alive, TypeOK
<1>3. TypeOK'
  <2>1. child' \in [Ids -> {"none", "booting", "working", "ok", "bad", "killed", "gone"}]
    BY <1>1 DEF TypeOK
  <2>2. closed' \subseteq Ids
    BY <1>2 DEF TypeOK
  <2>. QED
    BY <2>1, <2>2, <1>2 DEF TypeOK
<1>4. FreshClean' /\ DirsFollowBoot'
  BY <1>1, <1>2 DEF FreshClean, DirsFollowBoot, TypeOK
<1>5. DownShowsNothing' /\ RecordsKeepOrigin'
  BY <1>2 DEF DownShowsNothing, RecordsKeepOrigin, Known
<1>6. ProcessesRecorded'
  <2>1. Alive' \subseteq Alive
    BY <1>1 DEF Alive, TypeOK
  <2>. QED
    BY <2>1, <1>2 DEF ProcessesRecorded, inFlight
<1>7. FilesFinal' /\ MarkedGone'
  BY <1>1, <1>2 DEF FilesFinal, MarkedGone, TypeOK
<1>8. CancelDecides'
  <2>1. SUFFICES ASSUME NEW s \in marked, status[s] \notin {"running", "cancelled"}
                 PROVE  Suspect(s)'
    BY <1>2 DEF CancelDecides
  <2>2. s \in Ids /\ s # r
    BY <1>2, <2>1 DEF MarkedGone, TypeOK
  <2>3. Suspect(s)
    BY <2>1 DEF CancelDecides
  <2>. QED
    BY <2>2, <2>3, <1>2 DEF Suspect
<1>. QED
  BY <1>3, <1>4, <1>5, <1>6, <1>7, <1>8

-----------------------------------------------------------------------------
(***************************************************************************)
(* Finalization                                                            *)
(***************************************************************************)

\* What ending a run with the eviction after it does to the records: some
\* ended ones are forgotten, whole, and the others keep what they said.
LEMMA EndingRecords ==
  ASSUME TypeOK, MarkedGone,
         NEW r \in Ids, status[r] = "running",
         NEW how \in Ended, EndAndEvict(r, how)
  PROVE  /\ status' \in [Ids -> Ended \cup {"running", "absent"}]
         /\ req' \in [Ids -> Requests \cup {NoRequest}]
         /\ order' \in [Ids -> Nat]
         /\ endedAt' \in [Ids -> Nat]
         /\ clock' \in Nat
         /\ index' \in [Keys -> Ids \cup {0}]
         /\ \A s \in Ids : status'[s] # "absent" =>
              /\ status'[s] = IF s = r THEN how ELSE status[s]
              /\ req'[s] = req[s]
         /\ \A s \in Ids : status'[s] = "running" <=> s # r /\ status[s] = "running"
         /\ marked' \subseteq marked
         /\ \A s \in marked' : status'[s] # "absent"
<1>. DEFINE now == clock + 1
            st == [status EXCEPT ![r] = how]
            ends == [endedAt EXCEPT ![r] = now]
<1>1. now \in Nat /\ ends \in [Ids -> Nat]
  BY DEF TypeOK
<1>2. /\ st \in [Ids -> Ended \cup {"running", "absent"}]
      /\ \A s \in Ids : st[s] = IF s = r THEN how ELSE status[s]
  BY DEF TypeOK
<1>3. PICK cutoff \in 0 .. now :
        LET aged == {s \in Terminal(st) : ends[s] < cutoff}
            gone == aged \cup Surplus(Terminal(st) \ aged)
        IN /\ status' = [s \in Ids |-> IF s \in gone THEN "absent" ELSE st[s]]
           /\ req' = [s \in Ids |-> IF s \in gone THEN NoRequest ELSE req[s]]
           /\ order' = [s \in Ids |-> IF s \in gone THEN 0 ELSE order[s]]
           /\ endedAt' = [s \in Ids |-> IF s \in gone THEN 0 ELSE ends[s]]
           /\ marked' = marked \ gone
           /\ index' = IndexWithout(gone)
           /\ clock' = now
  BY DEF EndAndEvict
<1>. DEFINE aged == {s \in Terminal(st) : ends[s] < cutoff}
            gone == aged \cup Surplus(Terminal(st) \ aged)
<1>4. gone \subseteq Terminal(st)
  BY DEF Surplus
<1>5. \A s \in gone : st[s] \in Ended
  BY <1>4 DEF Terminal
<1>. HIDE DEF gone, st, ends, now
<1>6. /\ status' = [s \in Ids |-> IF s \in gone THEN "absent" ELSE st[s]]
      /\ req' = [s \in Ids |-> IF s \in gone THEN NoRequest ELSE req[s]]
      /\ order' = [s \in Ids |-> IF s \in gone THEN 0 ELSE order[s]]
      /\ endedAt' = [s \in Ids |-> IF s \in gone THEN 0 ELSE ends[s]]
      /\ marked' = marked \ gone
      /\ index' = IndexWithout(gone)
      /\ clock' = now
  BY <1>3 DEF gone
<1>7. /\ status' \in [Ids -> Ended \cup {"running", "absent"}]
      /\ req' \in [Ids -> Requests \cup {NoRequest}]
  BY <1>2, <1>6 DEF TypeOK
<1>8. order' \in [Ids -> Nat] /\ endedAt' \in [Ids -> Nat] /\ clock' \in Nat
  BY <1>1, <1>6 DEF TypeOK
<1>9. index' \in [Keys -> Ids \cup {0}]
  BY <1>6 DEF IndexWithout, TypeOK
<1>10. \A s \in Ids : status'[s] # "absent" =>
         /\ status'[s] = IF s = r THEN how ELSE status[s]
         /\ req'[s] = req[s]
  BY <1>2, <1>6
<1>11. \A s \in Ids : status'[s] = "running" <=> s # r /\ status[s] = "running"
  BY <1>2, <1>5, <1>6 DEF Ended
<1>12. \A s \in marked' : status'[s] # "absent"
  BY <1>2, <1>6 DEF MarkedGone, TypeOK, Ended
<1>. QED
  BY <1>6, <1>7, <1>8, <1>9, <1>10, <1>11, <1>12

\* The end of a run, however it was finalized.
LEMMA EndPreserves ==
  ASSUME IInv, NEW r \in Ids, NEW how \in Ended,
         up, status[r] = "running", EndAndEvict(r, how),
         r \in marked => how = "cancelled",
         child' = [child EXCEPT ![r] = "gone"],
         chainKey' \in [Ids -> {"none", "stored", "missing"}],
         \A s \in Ids \ {r} : chainKey'[s] = chainKey[s],
         \/ file' = file
         \/ /\ dirAt[r] # 0
            /\ file' = [file EXCEPT ![r] =
                          [status |-> how, req |-> req[r], ended |-> clock + 1]],
         UNCHANGED <<config, up, crashes, dirAt, closed, historyVars>>
  PROVE  IInv'
<1>. USE DEF IInv, historyVars
<1>1. /\ status' \in [Ids -> Ended \cup {"running", "absent"}]
      /\ req' \in [Ids -> Requests \cup {NoRequest}]
      /\ order' \in [Ids -> Nat]
      /\ endedAt' \in [Ids -> Nat]
      /\ clock' \in Nat
      /\ index' \in [Keys -> Ids \cup {0}]
  BY EndingRecords
<1>2. \A s \in Ids : status'[s] # "absent" =>
        /\ status'[s] = IF s = r THEN how ELSE status[s]
        /\ req'[s] = req[s]
  BY EndingRecords
<1>3. \A s \in Ids : status'[s] = "running" <=> s # r /\ status[s] = "running"
  BY EndingRecords
<1>4. marked' \subseteq marked /\ \A s \in marked' : s \in Ids /\ status'[s] # "absent"
  BY EndingRecords DEF TypeOK
<1>5. /\ child' \in [Ids -> {"none", "booting", "working", "ok", "bad", "killed", "gone"}]
      /\ \A s \in Ids : child'[s] = IF s = r THEN "gone" ELSE child[s]
  BY DEF TypeOK
<1>6. file' \in [Ids -> [status : Ended \cup {"none"},
                        req : Requests \cup {NoRequest}, ended : Nat]]
  BY DEF TypeOK
<1>7. /\ \A s \in Ids \ {r} : file'[s] = file[s]
      /\ \/ file'[r] = file[r]
         \/ dirAt[r] # 0 /\ file'[r].status = how /\ file'[r].req = req[r]
  BY DEF TypeOK
<1>8. /\ file[r] = NoFile /\ req[r] = origin[r] /\ r <= started
      /\ NoFile.status = "none" /\ "none" \notin Ended
  BY DEF FilesFinal, RecordsKeepOrigin, Known, FreshClean, TypeOK, NoFile, Ended, Ids
<1>9. TypeOK'
  BY <1>1, <1>4, <1>5, <1>6 DEF TypeOK
<1>10. FreshClean'
  BY <1>2, <1>4, <1>5, <1>7, <1>8 DEF FreshClean, Ids, TypeOK
<1>11. DirsFollowBoot' /\ DownShowsNothing'
  BY <1>5 DEF DirsFollowBoot, DownShowsNothing
<1>12. ProcessesRecorded'
  <2>1. Alive' = Alive \ {r}
    BY <1>5 DEF Alive
  <2>2. \A s \in (Alive \ orphans)' : status'[s] = "running"
    BY <2>1, <1>3 DEF ProcessesRecorded, Alive
  <2>3. {s \in Ids : status'[s] = "running"} \subseteq {s \in Ids : status[s] = "running"}
    BY <1>3
  <2>4. inFlight' <= inFlight /\ inFlight' \in Nat /\ inFlight \in Nat
    BY <2>3, IdsFinite, FS_Subset DEF inFlight
  <2>5. config.cap \in Nat
    BY ConfigType DEF TypeOK, Settings
  <2>. QED
    BY <2>2, <2>4, <2>5 DEF ProcessesRecorded
<1>13. FilesFinal'
  BY <1>3, <1>5, <1>7, <1>8 DEF FilesFinal
<1>14. MarkedGone'
  BY <1>2, <1>4, <1>5 DEF MarkedGone
<1>15. RecordsKeepOrigin'
  BY <1>2, <1>7, <1>8 DEF RecordsKeepOrigin, Known
<1>16. CancelDecides'
  <2>1. SUFFICES ASSUME NEW s \in marked', status'[s] \notin {"running", "cancelled"}
                 PROVE  Suspect(s)'
    BY DEF CancelDecides
  <2>2. s \in Ids /\ s # r /\ status[s] = status'[s] /\ s \in marked
    BY <2>1, <1>2, <1>4
  <2>. QED
    BY <2>1, <2>2 DEF CancelDecides, Suspect
<1>. QED
  BY <1>9, <1>10, <1>11, <1>12, <1>13, <1>14, <1>15, <1>16

LEMMA FinalizePreserves ==
  ASSUME IInv, NEW r \in Ids, Finalize(r) \/ FinalizeError(r)
  PROVE  IInv'
<1>1. CASE Finalize(r)
  <2>1. EndStatus(r) \in Ended /\ (r \in marked => EndStatus(r) = "cancelled")
    BY DEF EndStatus, Ended
  <2>2. /\ chainKey' \in [Ids -> {"none", "stored", "missing"}]
        /\ \A s \in Ids \ {r} : chainKey'[s] = chainKey[s]
    BY <1>1 DEF Finalize, IInv, TypeOK
  <2>3. \/ file' = file
        \/ /\ dirAt[r] # 0
           /\ file' = [file EXCEPT ![r] =
                         [status |-> EndStatus(r), req |-> req[r], ended |-> clock + 1]]
    BY <1>1 DEF Finalize, Persisted, RunDirKnown
  <2>. QED
    BY <1>1, <2>1, <2>2, <2>3, EndPreserves DEF Finalize
<1>2. CASE FinalizeError(r)
  <2>. DEFINE how == IF r \in marked THEN "cancelled" ELSE "failed"
  <2>1. how \in Ended /\ (r \in marked => how = "cancelled")
    BY DEF Ended
  <2>2. /\ chainKey' \in [Ids -> {"none", "stored", "missing"}]
        /\ \A s \in Ids \ {r} : chainKey'[s] = chainKey[s]
    BY <1>2 DEF FinalizeError, IInv, TypeOK
  <2>3. EndAndEvict(r, how)
    BY <1>2 DEF FinalizeError
  <2>. HIDE DEF how
  <2>. QED
    BY <1>2, <2>1, <2>2, <2>3, EndPreserves DEF FinalizeError
<1>. QED
  BY <1>1, <1>2

-----------------------------------------------------------------------------
(***************************************************************************)
(* The death of the process, and its restart                               *)
(***************************************************************************)
LEMMA CrashPreserves ==
  ASSUME IInv, Crash
  PROVE  IInv'
<1>. USE DEF IInv, diskVars
<1>1. TypeOK'
  <2>1. /\ index' \in [Keys -> Ids \cup {0}]
        /\ orphans' \subseteq Ids
    BY DEF Crash, TypeOK, Alive
  <2>2. /\ status' \in [Ids -> Ended \cup {"running", "absent"}]
        /\ req' \in [Ids -> Requests \cup {NoRequest}]
    BY DEF Crash
  <2>3. order' \in [Ids -> Nat] /\ endedAt' \in [Ids -> Nat]
    BY DEF Crash
  <2>4. crashes' \in Nat
    BY DEF Crash, TypeOK
  <2>5. marked' \subseteq Ids
    BY DEF Crash
  <2>6. up' \in BOOLEAN
    BY Zenon DEF Crash
  <2>. QED
    BY <2>1, <2>2, <2>3, <2>4, <2>5, <2>6 DEF Crash, TypeOK
<1>2. FreshClean'
  BY DEF Crash, FreshClean, Alive
<1>3. DirsFollowBoot' /\ DownShowsNothing' /\ MarkedGone' /\ CancelDecides'
  BY DEF Crash, DirsFollowBoot, DownShowsNothing, MarkedGone, CancelDecides
<1>4. ProcessesRecorded'
  BY DEF Crash, ProcessesRecorded, Alive
<1>5. FilesFinal' /\ RecordsKeepOrigin'
  BY DEF Crash, FilesFinal, RecordsKeepOrigin, Known
<1>. QED
  BY <1>1, <1>2, <1>3, <1>4, <1>5

\* What a restart reads of a run dir is a record that says how the run ended,
\* written when its process was gone, or an interrupted one.
LEMMA ReloadedRecord ==
  ASSUME IInv, NEW r \in Ids
  PROVE  /\ Reloaded(r) \in [status : Ended, req : Requests \cup {NoRequest}, ended : Nat]
         /\ \/ Reloaded(r).status = "interrupted"
            \/ child[r] = "gone" /\ Reloaded(r).req = origin[r]
<1>1. CASE file[r] = NoFile
  BY <1>1 DEF IInv, TypeOK, Reloaded, Ended
<1>2. CASE file[r] # NoFile
  <2>1. file[r].status \in Ended /\ Reloaded(r) = file[r]
    BY <1>2 DEF IInv, FilesFinal, Reloaded
  <2>2. Reloaded(r) \in [status : Ended, req : Requests \cup {NoRequest}, ended : Nat]
    BY <2>1 DEF IInv, TypeOK
  <2>. QED
    BY <1>2, <2>1, <2>2 DEF IInv, FilesFinal
<1>. QED
  BY <1>1, <1>2

\* The rebuilt index answers with ids: the newest holder of a key exists.
LEMMA RebuiltIndexType ==
  ASSUME IInv
  PROVE  IndexRebuilt \in [Keys -> Ids \cup {0}]
<1>1. SUFFICES ASSUME NEW k \in Keys PROVE IndexRebuilt[k] \in Ids \cup {0}
  BY DEF IndexRebuilt
<1>. DEFINE holders == {r \in OnDisk : Key(Reloaded(r).req) = k}
<1>2. holders \subseteq Ids
  BY DEF OnDisk
<1>3. CASE holders = {}
  BY <1>3 DEF IndexRebuilt
<1>4. CASE holders # {}
  <2>. DEFINE rank == [r \in holders |-> dirAt[r]]
  <2>1. MaxRuns \in Nat /\ rank \in [holders -> 0 .. MaxRuns]
    BY <1>2, RegistryAssumption DEF IInv, TypeOK, DirsFollowBoot
  <2>. HIDE DEF holders
  <2>2. \E r \in holders : \A s \in holders : rank[s] <= rank[r]
    <3>. HIDE DEF rank
    <3>. QED
      BY <1>4, <2>1, GreatestValue
  <2>3. \E r \in holders : \A s \in holders : dirAt[s] <= dirAt[r]
    BY <2>2
  <2>4. (CHOOSE r \in holders : \A s \in holders : dirAt[s] <= dirAt[r]) \in holders
    BY <2>3
  <2>. QED
    BY <1>2, <1>4, <2>4 DEF IndexRebuilt, holders
<1>. QED
  BY <1>3, <1>4

LEMMA RestartPreserves ==
  ASSUME IInv, Restart
  PROVE  IInv'
<1>. USE DEF IInv, historyVars
<1>1. \A r \in Ids :
        /\ Reloaded(r).status \in Ended
        /\ Reloaded(r).req \in Requests \cup {NoRequest}
        /\ Reloaded(r).ended \in Nat
        /\ \/ Reloaded(r).status = "interrupted"
           \/ child[r] = "gone" /\ Reloaded(r).req = origin[r]
  BY ReloadedRecord
<1>2. /\ file' = [r \in Ids |-> IF r \in OnDisk THEN Reloaded(r) ELSE NoFile]
      /\ status' = [r \in Ids |-> IF r \notin OnDisk THEN "absent"
                                  ELSE IF Suspect(r) THEN "failed" ELSE Reloaded(r).status]
      /\ req' = [r \in Ids |-> IF r \in OnDisk THEN Reloaded(r).req ELSE NoRequest]
      /\ order' = dirAt
      /\ endedAt' = [r \in Ids |-> IF r \in OnDisk THEN Reloaded(r).ended ELSE 0]
      /\ marked' = {r \in OnDisk : Reloaded(r).status = "cancelled"}
      /\ index' = IndexRebuilt
      /\ clock' = clock + 1
      /\ UNCHANGED <<config, crashes, child, dirAt, closed, chainKey, historyVars>>
      /\ ~up /\ up'
  BY DEF Restart
<1>3. OnDisk \subseteq Ids /\ \A r \in Ids : r \in OnDisk <=> dirAt[r] # 0
  BY DEF OnDisk
<1>4. TypeOK'
  <2>1. file' \in [Ids -> [status : Ended \cup {"none"},
                          req : Requests \cup {NoRequest}, ended : Nat]]
    BY <1>2, ReloadedRecord DEF NoFile
  <2>2. /\ status' \in [Ids -> Ended \cup {"running", "absent"}]
        /\ req' \in [Ids -> Requests \cup {NoRequest}]
        /\ endedAt' \in [Ids -> Nat]
        /\ marked' \subseteq Ids
    BY <1>1, <1>2, <1>3 DEF Ended
  <2>3. index' \in [Keys -> Ids \cup {0}]
    BY <1>2, RebuiltIndexType
  <2>. QED
    BY <1>2, <2>1, <2>2, <2>3 DEF TypeOK
<1>5. FreshClean'
  BY <1>2, <1>3 DEF FreshClean, DirsFollowBoot
<1>6. DirsFollowBoot' /\ DownShowsNothing'
  BY <1>2 DEF DirsFollowBoot, DownShowsNothing
<1>7. \A r \in Ids : status'[r] # "running"
  BY <1>1, <1>2 DEF Ended
<1>8. ProcessesRecorded'
  <2>1. \A r \in Alive : r \in orphans
    BY <1>2 DEF ProcessesRecorded, DownShowsNothing, Alive
  <2>2. {r \in Ids : status'[r] = "running"} = {}
    BY <1>7
  <2>3. inFlight' = 0
    BY <2>2, FS_EmptySet DEF inFlight
  <2>4. config' \in Settings
    BY <1>2, ConfigType DEF TypeOK
  <2>. QED
    BY <1>2, <2>1, <2>3, <2>4 DEF ProcessesRecorded, Alive, Settings
<1>9. FilesFinal'
  BY <1>1, <1>2, <1>3, <1>7 DEF FilesFinal
<1>10. MarkedGone'
  BY <1>1, <1>2, <1>3 DEF MarkedGone, Ended
<1>11. RecordsKeepOrigin'
  BY <1>1, <1>2, <1>3 DEF RecordsKeepOrigin, Known
<1>12. CancelDecides'
  BY <1>2, <1>3 DEF CancelDecides, Suspect
<1>. QED
  BY <1>4, <1>5, <1>6, <1>8, <1>9, <1>10, <1>11, <1>12

-----------------------------------------------------------------------------
LEMMA NextPreserves == IInv /\ [Next]_vars => IInv'
<1>1. SUFFICES ASSUME IInv, [Next]_vars PROVE IInv'
  OBVIOUS
<1>2. CASE UNCHANGED vars
  BY <1>1, <1>2
     DEF vars, recordVars, diskVars, historyVars, IInv, TypeOK, FreshClean, DirsFollowBoot,
         DownShowsNothing, ProcessesRecorded, FilesFinal, MarkedGone, RecordsKeepOrigin,
         CancelDecides, Known, Alive, inFlight, Suspect
<1>3. ASSUME NEW q \in Requests, CreateRun(q) PROVE IInv'
  BY <1>1, <1>3, CreatePreserves
<1>4. CASE (\E r \in Ids : Cancel(r)) \/ CancelAll
  BY <1>1, <1>4, CancelPreserves
<1>5. ASSUME NEW r \in Ids, Boot(r) PROVE IInv'
  BY <1>1, <1>5, BootPreserves
<1>6. ASSUME NEW r \in Ids, Complete(r) \/ Die(r) PROVE IInv'
  BY <1>1, <1>6, ProcessEndPreserves
<1>7. ASSUME NEW r \in Ids, Finalize(r) \/ FinalizeError(r) PROVE IInv'
  BY <1>1, <1>7, FinalizePreserves
<1>8. CASE Crash \/ Restart
  BY <1>1, <1>8, CrashPreserves, RestartPreserves
<1>. QED
  BY <1>1, <1>2, <1>3, <1>4, <1>5, <1>6, <1>7, <1>8 DEF Next

LEMMA Invariance == SafeSpec => []IInv
<1>. QED
  BY InitInvariant, NextPreserves, PTL DEF SafeSpec

\* The records, the index and what is on disk keep their types in every
\* interleaving of clients, processes, evictions, deaths and restarts.
THEOREM TypeCorrect == SafeSpec => []TypeOK
<1>1. IInv => TypeOK
  BY DEF IInv
<1>. QED
  BY <1>1, Invariance, PTL

\* maxConcurrent bounds the workflow processes a server started that live,
\* whatever was cancelled, evicted, killed or reloaded (createRun's inFlight).
THEOREM ProcessesBounded == SafeSpec => []CapBoundsProcesses
<1>1. IInv => CapBoundsProcesses
  <2>1. SUFFICES ASSUME IInv, up PROVE Cardinality(Alive \ orphans) <= config.cap
    BY DEF CapBoundsProcesses
  <2>2. Alive \ orphans \subseteq {r \in Ids : status[r] = "running"}
    BY <2>1 DEF IInv, ProcessesRecorded, Alive
  <2>3. /\ Cardinality(Alive \ orphans) <= inFlight
        /\ Cardinality(Alive \ orphans) \in Nat /\ inFlight \in Nat
    BY <2>2, IdsFinite, FS_Subset DEF inFlight
  <2>4. inFlight <= config.cap /\ config.cap \in Nat
    BY <2>1, ConfigType DEF IInv, ProcessesRecorded, TypeOK, Settings
  <2>. QED
    BY <2>3, <2>4
<1>. QED
  BY <1>1, Invariance, PTL

\* A shown record tells the owner, key and arguments the run was created
\* with, across evictions and reloads, or is known to have been interrupted.
THEOREM OriginKept == SafeSpec => []RecordsKeepOrigin
<1>1. IInv => RecordsKeepOrigin
  BY DEF IInv
<1>. QED
  BY <1>1, Invariance, PTL

\* A cancel that was accepted decides what the run is reported as, however
\* its process ended and however often the server restarts (handler.ts,
\* finalize and reloadRun).
THEOREM CancelsDecide == SafeSpec => []CancelDecides
<1>1. IInv => CancelDecides
  BY DEF IInv
<1>. QED
  BY <1>1, Invariance, PTL

\* A run.json that was written is never written again.
THEOREM WrittenOnce == SafeSpec => RecordsWrittenOnce
<1>1. ASSUME IInv, [Next]_vars, NEW r \in Ids, file[r] # NoFile
      PROVE  file'[r] = file[r]
  <2>1. CASE file' = file
    BY <2>1
  <2>2. ASSUME NEW s \in Ids, Finalize(s) PROVE file'[r] = file[r]
    BY <1>1, <2>2 DEF Finalize, IInv, TypeOK, FilesFinal
  <2>3. CASE Restart
    BY <1>1, <2>3 DEF Restart, OnDisk, Reloaded, IInv, FilesFinal
  <2>. QED
    BY <1>1, <2>1, <2>2, <2>3
       DEF Next, vars, diskVars, CreateRun, Cancel, CancelAll, Boot, Complete, Die,
           FinalizeError, Crash
<1>2. IInv /\ [Next]_vars => [\A r \in Ids : file[r] # NoFile => file'[r] = file[r]]_vars
  BY <1>1
<1>. QED
  BY <1>2, Invariance, PTL DEF SafeSpec, RecordsWrittenOnce

-----------------------------------------------------------------------------
(***************************************************************************)
(* Which run a key answers with.  The records of a key are all ended when  *)
(* there are two, and those created later ended later; the same holds of   *)
(* what run.json says, by the rank of the dirs, so the order survives a    *)
(* restart.  Eviction by age or by count then never drops a run of a key   *)
(* and keeps an older one.                                                 *)
(***************************************************************************)
KeyOf(r) == Key(req[r])
FileKey(r) == Key(file[r].req)

Forgotten == \A r \in Ids : status[r] = "absent" => req[r] = NoRequest

SoleRunning ==
  \A r, s \in Known :
    r # s /\ status[r] = "running" /\ KeyOf(r) # NoKey => KeyOf(s) # KeyOf(r)

NewerEndedLater ==
  \A r, s \in Known :
    r # s /\ KeyOf(r) = KeyOf(s) /\ KeyOf(r) # NoKey =>
      order[r] # order[s] /\ (order[r] < order[s] => endedAt[r] < endedAt[s])

\* A new run dir ranks above all others.
RanksCounted == \A r \in Ids : dirAt[r] <= Cardinality({s \in Ids : dirAt[s] # 0})

FilesDated ==
  \A r \in Ids : /\ file[r].ended <= clock
                 /\ file[r].status = "interrupted" => file[r].req = NoRequest

FilesOrdered ==
  \A r, s \in Ids :
    r # s /\ FileKey(r) = FileKey(s) /\ FileKey(r) # NoKey =>
      dirAt[r] # dirAt[s] /\ (dirAt[r] < dirAt[s] => file[r].ended < file[s].ended)

\* The running run of a key is newer than every run.json under that key.
RunningNewest ==
  \A r, s \in Ids :
    status[s] = "running" /\ FileKey(r) = KeyOf(s) /\ FileKey(r) # NoKey =>
      dirAt[s] = 0 \/ dirAt[r] < dirAt[s]

OnDiskOrder == RanksCounted /\ FilesDated /\ FilesOrdered /\ RunningNewest
InMemoryOrder == Forgotten /\ SoleRunning /\ NewerEndedLater /\ IndexAnswersNewest
KInv == IInv /\ OnDiskOrder /\ InMemoryOrder

LEMMA KeyFacts ==
  /\ Key(NoRequest) = NoKey
  /\ \A q \in Requests : Key(q) # NoKey => Key(q) \in Keys
  /\ NoKey \notin Keys
BY DEF Key, Keys

LEMMA KInit == Init => KInv
<1>1. SUFFICES ASSUME Init PROVE KInv
  OBVIOUS
<1>2. IInv
  BY <1>1, InitInvariant
<1>3. \A r \in Ids : /\ dirAt[r] = 0 /\ file[r] = NoFile /\ status[r] = "absent"
                     /\ req[r] = NoRequest
  BY <1>1 DEF Init
<1>4. FilesDated /\ FilesOrdered /\ RunningNewest /\ Forgotten
  BY <1>1, <1>3, KeyFacts
     DEF Init, FilesDated, FilesOrdered, RunningNewest, Forgotten, FileKey, NoFile
<1>5. RanksCounted
  BY <1>3, IdsFinite DEF RanksCounted
<1>6. Known = {}
  BY <1>3 DEF Known
<1>7. SoleRunning /\ NewerEndedLater /\ IndexAnswersNewest
  BY <1>1, <1>6 DEF Init, SoleRunning, NewerEndedLater, IndexAnswersNewest
<1>. QED
  BY <1>2, <1>4, <1>5, <1>7 DEF KInv, OnDiskOrder, InMemoryOrder

\* No shown run carries the key of a create that is admitted.
LEMMA AdmittedKeyIsFree ==
  ASSUME KInv, NEW q \in Requests, Existing(q) = {}, Key(q) # NoKey, NEW s \in Known
  PROVE  KeyOf(s) # Key(q)
<1>1. Key(q) \in Keys
  BY KeyFacts
<1>2. ~ (index[Key(q)] \in Known)
  BY <1>1 DEF Existing
<1>. QED
  BY <1>1, <1>2 DEF KInv, InMemoryOrder, IndexAnswersNewest, KeyOf

LEMMA CreateKeepsOrder ==
  ASSUME KInv, NEW q \in Requests, CreateRun(q)
  PROVE  KInv'
<1>1. IInv /\ IInv'
  BY CreatePreserves DEF KInv
<1>2. MaxRuns \in Nat /\ config \in Settings
  BY <1>1, RegistryAssumption, ConfigType DEF IInv, TypeOK
<1>3. PICK r \in Ids : r = started + 1 /\ r > started
  BY <1>1, <1>2 DEF CreateRun, IInv, TypeOK, Settings, Ids
<1>4. status[r] = "absent" /\ dirAt[r] = 0 /\ file[r] = NoFile
  BY <1>1, <1>3 DEF IInv, FreshClean, DirsFollowBoot
<1>5. /\ status' = [status EXCEPT ![r] = "running"]
      /\ req' = [req EXCEPT ![r] = q]
      /\ order' = [order EXCEPT ![r] = MaxRuns + r]
      /\ index' = [k \in Keys |-> IF k = Key(q) THEN r ELSE index[k]]
      /\ UNCHANGED <<endedAt, clock, dirAt, closed, chainKey, file>>
      /\ Existing(q) = {}
  BY <1>3 DEF CreateRun, diskVars
<1>6. /\ \A s \in Ids : status'[s] = IF s = r THEN "running" ELSE status[s]
      /\ \A s \in Ids : req'[s] = IF s = r THEN q ELSE req[s]
      /\ \A s \in Ids : s # r => order'[s] = order[s]
  BY <1>1, <1>3, <1>5 DEF IInv, TypeOK
<1>7. Known' = Known \cup {r} /\ r \notin Known /\ r \in Ids
  BY <1>3, <1>4, <1>6 DEF Known
<1>8. \A s \in Known : KeyOf(s)' = KeyOf(s) /\ (KeyOf(r)' # NoKey => KeyOf(s) # KeyOf(r)')
  BY <1>5, <1>6, <1>7, AdmittedKeyIsFree DEF KeyOf, Known
<1>9. OnDiskOrder'
  <2>1. RanksCounted' /\ FilesDated' /\ FilesOrdered'
    BY <1>5 DEF KInv, OnDiskOrder, RanksCounted, FilesDated, FilesOrdered, FileKey
  <2>2. RunningNewest'
    BY <1>4, <1>5, <1>6 DEF KInv, OnDiskOrder, RunningNewest, FileKey, KeyOf
  <2>. QED
    BY <2>1, <2>2 DEF OnDiskOrder
<1>10. Forgotten'
  BY <1>6 DEF KInv, InMemoryOrder, Forgotten
<1>11. SoleRunning'
  <2>1. SUFFICES ASSUME NEW s \in Known', NEW t \in Known', s # t, status'[s] = "running",
                        KeyOf(s)' # NoKey
                 PROVE  KeyOf(t)' # KeyOf(s)'
    BY DEF SoleRunning
  <2>2. CASE s # r /\ t # r
    <3>1. s \in Known /\ t \in Known /\ status[s] = "running"
      BY <2>1, <2>2, <1>6, <1>7 DEF Known
    <3>. QED
      BY <2>1, <3>1, <1>8 DEF KInv, InMemoryOrder, SoleRunning
  <2>3. CASE s = r \/ t = r
    BY <2>1, <2>3, <1>7, <1>8
  <2>. QED
    BY <2>2, <2>3
<1>12. NewerEndedLater'
  <2>1. SUFFICES ASSUME NEW s \in Known', NEW t \in Known', s # t, KeyOf(s)' = KeyOf(t)',
                        KeyOf(s)' # NoKey
                 PROVE  /\ order'[s] # order'[t]
                        /\ order'[s] < order'[t] => endedAt'[s] < endedAt'[t]
    BY DEF NewerEndedLater
  <2>2. s # r /\ t # r
    BY <2>1, <1>7, <1>8
  <2>3. s \in Known /\ t \in Known /\ s \in Ids /\ t \in Ids
    BY <2>1, <2>2, <1>7 DEF Known
  <2>. QED
    BY <2>1, <2>2, <2>3, <1>5, <1>6, <1>8 DEF KInv, InMemoryOrder, NewerEndedLater
<1>13. IndexAnswersNewest'
  <2>1. SUFFICES ASSUME NEW k \in Keys
                 PROVE  LET holders == {s \in Known' : KeyOf(s)' = k}
                        IN IF holders = {} THEN index'[k] = 0
                           ELSE /\ index'[k] \in holders
                                /\ \A s \in holders : order'[s] <= order'[index'[k]]
    BY DEF IndexAnswersNewest, KeyOf
  <2>2. KeyOf(r)' = Key(q) /\ k # NoKey
    BY <1>3, <1>6, KeyFacts DEF KeyOf
  <2>3. CASE k = Key(q)
    <3>1. {s \in Known' : KeyOf(s)' = k} = {r}
      BY <2>2, <2>3, <1>7, <1>8
    <3>2. index'[k] = r /\ order'[r] \in Nat
      BY <2>3, <1>1, <1>3, <1>5 DEF IInv, TypeOK
    <3>. QED
      BY <3>1, <3>2
  <2>4. CASE k # Key(q)
    <3>. DEFINE now == {s \in Known' : KeyOf(s)' = k}
                before == {s \in Known : KeyOf(s) = k}
    <3>1. now = before
      BY <2>2, <2>4, <1>7, <1>8
    <3>2. index'[k] = index[k]
      BY <2>4, <1>5
    <3>3. \A s \in before : s \in Ids /\ order'[s] = order[s]
      BY <1>6, <1>7 DEF Known
    <3>4. IF before = {} THEN index[k] = 0
          ELSE index[k] \in before /\ \A s \in before : order[s] <= order[index[k]]
      BY DEF KInv, InMemoryOrder, IndexAnswersNewest, KeyOf
    <3>. HIDE DEF now, before
    <3>5. IF now = {} THEN index'[k] = 0
          ELSE index'[k] \in now /\ \A s \in now : order'[s] <= order'[index'[k]]
      BY <3>1, <3>2, <3>3, <3>4
    <3>. QED
      BY <3>5 DEF now
  <2>. QED
    BY <2>3, <2>4
<1>. QED
  BY <1>1, <1>9, <1>10, <1>11, <1>12, <1>13 DEF KInv, InMemoryOrder

\* A cancel, and a process that ends, disturb neither records nor files.
LEMMA QuietKeepsOrder ==
  ASSUME KInv, IInv', UNCHANGED <<status, req, order, endedAt, clock, index, dirAt, file>>
  PROVE  KInv'
<1>1. OnDiskOrder'
  BY DEF KInv, OnDiskOrder, RanksCounted, FilesDated, FilesOrdered, RunningNewest, FileKey,
         KeyOf
<1>2. InMemoryOrder'
  BY DEF KInv, InMemoryOrder, Forgotten, SoleRunning, NewerEndedLater, IndexAnswersNewest,
         Known, KeyOf
<1>. QED
  BY <1>1, <1>2 DEF KInv

\* The dir of a run that boots is the newest; no run.json is the run's own.
LEMMA BootKeepsOrder ==
  ASSUME KInv, NEW r \in Ids, Boot(r)
  PROVE  KInv'
<1>. DEFINE dirs == {s \in Ids : dirAt[s] # 0}
<1>1. IInv /\ IInv'
  BY BootPreserves DEF KInv
<1>2. /\ UNCHANGED <<status, req, order, endedAt, clock, index, file>>
      /\ child[r] = "booting"
      /\ dirAt' = [dirAt EXCEPT ![r] = 1 + Cardinality(dirs)]
  BY DEF Boot, recordVars
<1>3. dirAt \in [Ids -> Nat] /\ dirAt[r] = 0 /\ Cardinality(dirs) \in Nat
  BY <1>1, <1>2, IdsFinite DEF IInv, TypeOK, DirsFollowBoot
<1>4. \A s \in Ids : dirAt[s] <= Cardinality(dirs)
  BY DEF KInv, OnDiskOrder, RanksCounted
<1>5. Cardinality(dirs \cup {r}) = Cardinality(dirs) + 1
  BY <1>3, IdsFinite, FS_AddElement
<1>6. \A s \in Ids : dirAt'[s] = IF s = r THEN 1 + Cardinality(dirs) ELSE dirAt[s]
  BY <1>2, <1>3
<1>7. {s \in Ids : dirAt'[s] # 0} = dirs \cup {r}
  BY <1>3, <1>6
<1>8. FileKey(r) = NoKey /\ FileKey(r)' = NoKey
  BY <1>1, <1>2, KeyFacts DEF KInv, OnDiskOrder, FilesDated, IInv, FilesFinal, FileKey, NoFile
<1>. HIDE DEF dirs
<1>9. RanksCounted'
  BY <1>3, <1>4, <1>5, <1>6, <1>7 DEF RanksCounted
<1>10. FilesDated'
  BY <1>2 DEF KInv, OnDiskOrder, FilesDated
<1>11. FilesOrdered'
  BY <1>2, <1>6, <1>8 DEF KInv, OnDiskOrder, FilesOrdered, FileKey
<1>12. RunningNewest'
  <2>1. SUFFICES ASSUME NEW t \in Ids, NEW s \in Ids, status[s] = "running",
                        FileKey(t) = KeyOf(s), FileKey(t) # NoKey
                 PROVE  dirAt'[s] = 0 \/ dirAt'[t] < dirAt'[s]
    BY <1>2 DEF RunningNewest, FileKey, KeyOf
  <2>2. t # r
    BY <2>1, <1>8
  <2>3. dirAt[s] = 0 \/ dirAt[t] < dirAt[s]
    BY <2>1 DEF KInv, OnDiskOrder, RunningNewest
  <2>. QED
    BY <2>2, <2>3, <1>3, <1>4, <1>6
<1>13. InMemoryOrder'
  BY <1>2 DEF KInv, InMemoryOrder, Forgotten, SoleRunning, NewerEndedLater,
              IndexAnswersNewest, Known, KeyOf
<1>. QED
  BY <1>1, <1>9, <1>10, <1>11, <1>12, <1>13 DEF KInv, OnDiskOrder

\* Eviction, by age and by count, takes the oldest first: with an ended run
\* goes every other that both started and ended before it.
LEMMA OldestGoFirst ==
  ASSUME TypeOK, NEW r \in Ids, status[r] = "running", NEW how \in Ended,
         EndAndEvict(r, how)
  PROVE  \E gone \in SUBSET Ids :
           /\ \A s \in gone : s = r \/ status[s] \in Ended
           /\ status' = [s \in Ids |-> IF s \in gone THEN "absent"
                                       ELSE IF s = r THEN how ELSE status[s]]
           /\ req' = [s \in Ids |-> IF s \in gone THEN NoRequest ELSE req[s]]
           /\ order' = [s \in Ids |-> IF s \in gone THEN 0 ELSE order[s]]
           /\ endedAt' = [s \in Ids |-> IF s \in gone THEN 0
                                        ELSE IF s = r THEN clock + 1 ELSE endedAt[s]]
           /\ index' = IndexWithout(gone)
           /\ clock' = clock + 1
           /\ \A s \in gone \ {r} : \A t \in Ids \ {r} :
                status[t] \in Ended /\ order[t] < order[s] /\ endedAt[t] < endedAt[s]
                  => t \in gone
<1>. DEFINE now == clock + 1
            st == [status EXCEPT ![r] = how]
            ends == [endedAt EXCEPT ![r] = now]
<1>1. /\ \A s \in Ids : st[s] = IF s = r THEN how ELSE status[s]
      /\ \A s \in Ids : ends[s] = IF s = r THEN now ELSE endedAt[s]
      /\ now \in Nat /\ endedAt \in [Ids -> Nat] /\ order \in [Ids -> Nat]
  BY DEF TypeOK
<1>2. PICK cutoff \in 0 .. now :
        LET aged == {s \in Terminal(st) : ends[s] < cutoff}
            gone == aged \cup Surplus(Terminal(st) \ aged)
        IN /\ status' = [s \in Ids |-> IF s \in gone THEN "absent" ELSE st[s]]
           /\ req' = [s \in Ids |-> IF s \in gone THEN NoRequest ELSE req[s]]
           /\ order' = [s \in Ids |-> IF s \in gone THEN 0 ELSE order[s]]
           /\ endedAt' = [s \in Ids |-> IF s \in gone THEN 0 ELSE ends[s]]
           /\ marked' = marked \ gone
           /\ index' = IndexWithout(gone)
           /\ clock' = now
  BY DEF EndAndEvict
<1>. DEFINE aged == {s \in Terminal(st) : ends[s] < cutoff}
            gone == aged \cup Surplus(Terminal(st) \ aged)
<1>3. /\ status' = [s \in Ids |-> IF s \in gone THEN "absent" ELSE st[s]]
      /\ req' = [s \in Ids |-> IF s \in gone THEN NoRequest ELSE req[s]]
      /\ order' = [s \in Ids |-> IF s \in gone THEN 0 ELSE order[s]]
      /\ endedAt' = [s \in Ids |-> IF s \in gone THEN 0 ELSE ends[s]]
      /\ index' = IndexWithout(gone)
      /\ clock' = now
  BY <1>2
<1>4. gone \subseteq Terminal(st)
  BY DEF Surplus
<1>5. gone \in SUBSET Ids /\ \A s \in gone : st[s] \in Ended
  BY <1>4 DEF Terminal
<1>6. ASSUME NEW s \in gone \ {r}, NEW t \in Ids \ {r}, status[t] \in Ended,
             order[t] < order[s], endedAt[t] < endedAt[s]
      PROVE  t \in gone
  <2>1. t \in Terminal(st) /\ s \in Ids
    BY <1>1, <1>5, <1>6 DEF Terminal
  <2>2. CASE s \in aged
    <3>1. ends[t] < cutoff
      BY <2>1, <2>2, <1>1, <1>6
    <3>. QED
      BY <2>1, <3>1
  <2>3. CASE s \notin aged /\ t \notin aged
    <3>. DEFINE old == Terminal(st) \ aged
                newer(x) == {u \in old : order[u] > order[x]}
    <3>1. s \in Surplus(old) /\ t \in old
      BY <2>1, <2>3, <1>6
    <3>2. old \subseteq Ids
      BY DEF Terminal
    <3>. HIDE DEF old
    <3>3. newer(s) \subseteq newer(t) /\ newer(t) \subseteq Ids
      BY <3>2, <2>1, <1>1, <1>6
    <3>4. /\ Cardinality(newer(s)) <= Cardinality(newer(t))
          /\ Cardinality(newer(s)) \in Nat /\ Cardinality(newer(t)) \in Nat
      <4>. HIDE DEF newer
      <4>. QED
        BY <3>3, IdsFinite, FS_Subset
    <3>5. config.retain > 0 /\ Cardinality(newer(s)) >= config.retain
      BY <3>1 DEF Surplus
    <3>6. config.retain \in Nat
      BY ConfigType DEF TypeOK, Settings
    <3>7. Cardinality(newer(t)) >= config.retain
      <4>. HIDE DEF newer
      <4>. QED
        BY <3>4, <3>5, <3>6
    <3>8. t \in Surplus(old)
      BY <3>1, <3>5, <3>7 DEF Surplus
    <3>. QED
      BY <3>8 DEF old
  <2>4. CASE t \in aged
    BY <2>4
  <2>. QED
    BY <2>2, <2>3, <2>4
<1>. HIDE DEF gone, st, ends
<1>7. \A s \in gone : s = r \/ status[s] \in Ended
  BY <1>1, <1>5
<1>8. /\ status' = [s \in Ids |-> IF s \in gone THEN "absent"
                                  ELSE IF s = r THEN how ELSE status[s]]
      /\ endedAt' = [s \in Ids |-> IF s \in gone THEN 0
                                   ELSE IF s = r THEN clock + 1 ELSE endedAt[s]]
  BY <1>1, <1>3
<1>. USE <1>5
<1>9. WITNESS gone \in SUBSET Ids
<1>. QED
  BY <1>3, <1>6, <1>7, <1>8

\* Among the records of a key, eviction takes the newest last: the index
\* entry goes only when no record of the key is left.
LEMMA EndKeepsAnswers ==
  ASSUME KInv, NEW r \in Ids, status[r] = "running", NEW how \in Ended,
         EndAndEvict(r, how)
  PROVE  InMemoryOrder'
<1>1. TypeOK /\ Forgotten /\ SoleRunning /\ NewerEndedLater /\ IndexAnswersNewest
  BY DEF KInv, IInv, InMemoryOrder
<1>2. PICK gone \in SUBSET Ids :
           /\ \A s \in gone : s = r \/ status[s] \in Ended
           /\ status' = [s \in Ids |-> IF s \in gone THEN "absent"
                                       ELSE IF s = r THEN how ELSE status[s]]
           /\ req' = [s \in Ids |-> IF s \in gone THEN NoRequest ELSE req[s]]
           /\ order' = [s \in Ids |-> IF s \in gone THEN 0 ELSE order[s]]
           /\ endedAt' = [s \in Ids |-> IF s \in gone THEN 0
                                        ELSE IF s = r THEN clock + 1 ELSE endedAt[s]]
           /\ index' = IndexWithout(gone)
           /\ clock' = clock + 1
           /\ \A s \in gone \ {r} : \A t \in Ids \ {r} :
                status[t] \in Ended /\ order[t] < order[s] /\ endedAt[t] < endedAt[s]
                  => t \in gone
  BY <1>1, OldestGoFirst
<1>3. \A s \in Ids : /\ s \in gone => status'[s] = "absent" /\ req'[s] = NoRequest
                     /\ s \notin gone => /\ req'[s] = req[s] /\ order'[s] = order[s]
                                         /\ s # r => /\ status'[s] = status[s]
                                                     /\ endedAt'[s] = endedAt[s]
                     /\ s = r => status'[s] # "running"
  BY <1>2 DEF Ended
<1>4. Known' = Known \ gone /\ r \in Known
  BY <1>2 DEF Known, Ended
<1>5. \A s \in Known : s \in Ids /\ (s = r \/ status[s] \in Ended \/ status[s] = "running")
  BY <1>1 DEF Known, TypeOK
<1>6. Forgotten'
  BY <1>1, <1>2, <1>3 DEF Forgotten, Ended
<1>7. SoleRunning'
  BY <1>1, <1>3, <1>4, <1>5 DEF SoleRunning, KeyOf
<1>8. NewerEndedLater'
  <2>1. SUFFICES ASSUME NEW s \in Known', NEW t \in Known', s # t,
                        KeyOf(s)' = KeyOf(t)', KeyOf(s)' # NoKey
                 PROVE  /\ order'[s] # order'[t]
                        /\ order'[s] < order'[t] => endedAt'[s] < endedAt'[t]
    BY DEF NewerEndedLater
  <2>2. /\ s \in Known \ gone /\ t \in Known \ gone
        /\ KeyOf(s) = KeyOf(t) /\ KeyOf(s) # NoKey
    BY <2>1, <1>3, <1>4, <1>5 DEF KeyOf
  <2>3. s # r /\ t # r
    BY <2>1, <2>2, <1>1 DEF SoleRunning
  <2>. QED
    BY <2>1, <2>2, <2>3, <1>1, <1>3, <1>5 DEF NewerEndedLater
<1>9. IndexAnswersNewest'
  <2>1. SUFFICES ASSUME NEW k \in Keys
                 PROVE  LET holders == {s \in Known' : Key(req'[s]) = k}
                        IN IF holders = {} THEN index'[k] = 0
                           ELSE /\ index'[k] \in holders
                                /\ \A s \in holders : order'[s] <= order'[index'[k]]
    BY DEF IndexAnswersNewest
  <2>. DEFINE before == {s \in Known : Key(req[s]) = k}
              left == {s \in Known' : Key(req'[s]) = k}
  <2>2. left = before \ gone
    BY <1>3, <1>4, <1>5
  <2>3. before \subseteq Known /\ \A s \in before : KeyOf(s) = k
    BY DEF KeyOf
  <2>4. index'[k] = IF \E s \in gone : KeyOf(s) = k /\ index[k] = s THEN 0 ELSE index[k]
    BY <1>2 DEF IndexWithout, KeyOf
  <2>5. IF before = {} THEN index[k] = 0
        ELSE index[k] \in before /\ \A s \in before : order[s] <= order[index[k]]
    BY <1>1 DEF IndexAnswersNewest
  <2>6. k # NoKey /\ 0 \notin Ids
    BY KeyFacts DEF Ids
  <2>. HIDE DEF before, left
  <2>7. CASE before = {}
    <3>1. left = {} /\ index'[k] = 0
      BY <2>2, <2>4, <2>5, <2>7
    <3>. QED
      BY <3>1 DEF left
  <2>8. CASE before # {} /\ index[k] \notin gone
    <3>1. index'[k] = index[k] /\ index[k] \in left
      BY <2>2, <2>4, <2>5, <2>8
    <3>2. \A s \in left : order'[s] = order[s] /\ s \in before
      BY <2>2, <2>3, <1>3, <1>5
    <3>3. \A s \in left : order'[s] <= order'[index'[k]]
      BY <3>1, <3>2, <2>5, <2>8
    <3>. QED
      BY <3>1, <3>3 DEF left
  <2>9. CASE before # {} /\ index[k] \in gone
    <3>. DEFINE newest == index[k]
    <3>1. newest \in before /\ newest \in gone /\ index'[k] = 0
      BY <2>3, <2>4, <2>5, <2>9
    <3>2. ASSUME NEW s \in before, s # newest
          PROVE  s \in gone
      <4>1. s \in Known /\ newest \in Known /\ KeyOf(s) = k /\ KeyOf(newest) = k
        BY <3>1, <3>2, <2>3
      <4>2. s # r /\ newest # r /\ status[s] # "running"
        BY <4>1, <3>2, <2>6, <1>1, <1>4 DEF SoleRunning
      <4>3. status[s] \in Ended /\ s \in Ids
        BY <4>1, <4>2, <1>5
      <4>4. order[s] # order[newest]
            /\ (order[s] < order[newest] => endedAt[s] < endedAt[newest])
        BY <4>1, <3>2, <2>6, <1>1 DEF NewerEndedLater
      <4>5. order[s] <= order[newest] /\ order[s] \in Nat /\ order[newest] \in Nat
        BY <4>1, <3>1, <3>2, <2>5, <1>1, <1>5 DEF TypeOK
      <4>6. order[s] < order[newest]
        BY <4>4, <4>5
      <4>. QED
        BY <4>2, <4>3, <4>4, <4>6, <3>1, <1>2
    <3>3. left = {}
      BY <3>1, <3>2, <2>2
    <3>. QED
      BY <3>1, <3>3 DEF left
  <2>. QED
    BY <2>7, <2>8, <2>9
<1>. QED
  BY <1>6, <1>7, <1>8, <1>9 DEF InMemoryOrder

\* The run.json a finalization writes is the newest under its key: by its dir
\* and by its ending.
LEMMA EndKeepsFiles ==
  ASSUME KInv, IInv', NEW r \in Ids, status[r] = "running", NEW how \in Ended,
         how # "interrupted", EndAndEvict(r, how), UNCHANGED dirAt,
         \/ file' = file
         \/ /\ dirAt[r] # 0
            /\ file' = [file EXCEPT ![r] =
                          [status |-> how, req |-> req[r], ended |-> clock + 1]]
  PROVE  OnDiskOrder'
<1>1. TypeOK /\ MarkedGone /\ SoleRunning /\ OnDiskOrder
  BY DEF KInv, IInv, InMemoryOrder
<1>2. /\ clock' = clock + 1 /\ clock \in Nat
      /\ \A s \in Ids : status'[s] = "running" =>
           s # r /\ status[s] = "running" /\ req'[s] = req[s]
  <2>1. /\ \A s \in Ids : status'[s] # "absent" => req'[s] = req[s]
        /\ \A s \in Ids : status'[s] = "running" <=> s # r /\ status[s] = "running"
    BY <1>1, EndingRecords
  <2>2. clock' = clock + 1
    BY DEF EndAndEvict
  <2>. QED
    BY <2>1, <2>2, <1>1 DEF TypeOK
<1>3. \A s \in Ids : /\ file[s].ended <= clock /\ file[s].ended \in Nat /\ dirAt[s] \in Nat
                     /\ s # r => file'[s] = file[s]
  BY <1>1 DEF OnDiskOrder, FilesDated, TypeOK
<1>4. \/ file'[r] = file[r]
      \/ /\ dirAt[r] # 0
         /\ file'[r].status = how /\ file'[r].req = req[r] /\ file'[r].ended = clock + 1
  BY <1>1 DEF TypeOK
<1>5. RanksCounted'
  BY <1>1 DEF OnDiskOrder, RanksCounted
<1>6. FilesDated'
  <2>1. \A s \in Ids : file'[s].status = "interrupted" => file'[s].req = NoRequest
    BY <1>1, <1>3, <1>4 DEF OnDiskOrder, FilesDated
  <2>2. \A s \in Ids : file'[s].ended <= clock'
    BY <1>2, <1>3, <1>4
  <2>. QED
    BY <2>1, <2>2 DEF FilesDated
<1>7. file[r] = NoFile /\ FileKey(r) = NoKey
  BY KeyFacts DEF KInv, IInv, FilesFinal, FileKey, NoFile
\* Another run's file under the key of the file just written is older.
<1>8. ASSUME NEW s \in Ids, s # r, FileKey(s)' = FileKey(r)', FileKey(r)' # NoKey
      PROVE  dirAt[s] < dirAt[r] /\ file'[s].ended < file'[r].ended
  <2>1. dirAt[r] # 0 /\ FileKey(r)' = KeyOf(r) /\ file'[r].ended = clock + 1
    BY <1>4, <1>7, <1>8 DEF FileKey, KeyOf
  <2>2. FileKey(s) = KeyOf(r) /\ FileKey(s) # NoKey
    BY <2>1, <1>3, <1>8 DEF FileKey
  <2>. QED
    BY <2>1, <2>2, <1>1, <1>3, <1>2, <1>8 DEF OnDiskOrder, RunningNewest
<1>9. FilesOrdered'
  <2>1. SUFFICES ASSUME NEW s \in Ids, NEW t \in Ids, s # t, FileKey(s)' = FileKey(t)',
                        FileKey(s)' # NoKey
                 PROVE  /\ dirAt[s] # dirAt[t]
                        /\ dirAt[s] < dirAt[t] => file'[s].ended < file'[t].ended
    BY DEF FilesOrdered
  <2>2. CASE s # r /\ t # r
    BY <2>1, <2>2, <1>1, <1>3 DEF OnDiskOrder, FilesOrdered, FileKey
  <2>3. CASE s = r
    BY <2>1, <2>3, <1>3, <1>8
  <2>4. CASE t = r
    BY <2>1, <2>4, <1>3, <1>8
  <2>. QED
    BY <2>2, <2>3, <2>4
<1>10. RunningNewest'
  <2>1. SUFFICES ASSUME NEW t \in Ids, NEW s \in Ids, status'[s] = "running",
                        FileKey(t)' = KeyOf(s)', FileKey(t)' # NoKey
                 PROVE  dirAt[s] = 0 \/ dirAt[t] < dirAt[s]
    BY DEF RunningNewest
  <2>2. s # r /\ status[s] = "running" /\ KeyOf(s)' = KeyOf(s)
    BY <2>1, <1>2 DEF KeyOf
  <2>3. s \in Known /\ r \in Known
    BY <2>2 DEF Known
  <2>4. FileKey(t) = KeyOf(s) /\ FileKey(t) # NoKey
    BY <2>1, <2>2, <2>3, <1>1, <1>3, <1>4, <1>7 DEF SoleRunning, FileKey, KeyOf
  <2>. QED
    BY <2>2, <2>4, <1>1 DEF OnDiskOrder, RunningNewest
<1>. QED
  BY <1>5, <1>6, <1>9, <1>10 DEF OnDiskOrder

LEMMA FinalizeKeepsOrder ==
  ASSUME KInv, NEW r \in Ids, Finalize(r) \/ FinalizeError(r)
  PROVE  KInv'
<1>1. IInv'
  BY FinalizePreserves DEF KInv
<1>2. CASE Finalize(r)
  <2>1. EndStatus(r) \in Ended /\ EndStatus(r) # "interrupted"
    BY DEF EndStatus, Ended
  <2>2. /\ status[r] = "running" /\ EndAndEvict(r, EndStatus(r)) /\ UNCHANGED dirAt
        /\ \/ file' = file
           \/ /\ dirAt[r] # 0
              /\ file' = [file EXCEPT ![r] =
                            [status |-> EndStatus(r), req |-> req[r], ended |-> clock + 1]]
    BY <1>2 DEF Finalize, Persisted, RunDirKnown
  <2>. QED
    BY <1>1, <2>1, <2>2, EndKeepsAnswers, EndKeepsFiles DEF KInv
<1>3. CASE FinalizeError(r)
  <2>. DEFINE how == IF r \in marked THEN "cancelled" ELSE "failed"
  <2>1. how \in Ended /\ how # "interrupted"
    BY DEF Ended
  <2>2. status[r] = "running" /\ EndAndEvict(r, how) /\ UNCHANGED <<dirAt, file>>
    BY <1>3 DEF FinalizeError
  <2>. HIDE DEF how
  <2>. QED
    BY <1>1, <2>1, <2>2, EndKeepsAnswers, EndKeepsFiles DEF KInv
<1>. QED
  BY <1>2, <1>3

LEMMA CrashKeepsOrder ==
  ASSUME KInv, Crash
  PROVE  KInv'
<1>1. IInv'
  BY CrashPreserves DEF KInv
<1>2. OnDiskOrder'
  BY DEF KInv, OnDiskOrder, RanksCounted, FilesDated, FilesOrdered, RunningNewest, FileKey,
         Crash, diskVars
<1>3. Known' = {} /\ Forgotten' /\ \A k \in Keys : index'[k] = 0
  BY DEF Crash, Known, Forgotten
<1>4. SoleRunning' /\ NewerEndedLater' /\ IndexAnswersNewest'
  BY <1>3 DEF SoleRunning, NewerEndedLater, IndexAnswersNewest
<1>. QED
  BY <1>1, <1>2, <1>3, <1>4 DEF KInv, InMemoryOrder

\* The rebuilt index answers with a holder of the key whose dir ranks highest.
LEMMA RebuiltIndexNewest ==
  ASSUME IInv, NEW k \in Keys
  PROVE  LET holders == {r \in OnDisk : Key(Reloaded(r).req) = k}
         IN IF holders = {} THEN IndexRebuilt[k] = 0
            ELSE /\ IndexRebuilt[k] \in holders
                 /\ \A s \in holders : dirAt[s] <= dirAt[IndexRebuilt[k]]
<1>. DEFINE holders == {r \in OnDisk : Key(Reloaded(r).req) = k}
<1>1. CASE holders = {}
  BY <1>1 DEF IndexRebuilt
<1>2. CASE holders # {}
  <2>. DEFINE rank == [r \in holders |-> dirAt[r]]
  <2>1. MaxRuns \in Nat /\ rank \in [holders -> 0 .. MaxRuns]
    BY RegistryAssumption DEF IInv, TypeOK, DirsFollowBoot, OnDisk
  <2>2. IndexRebuilt[k] = CHOOSE r \in holders : \A s \in holders : dirAt[s] <= dirAt[r]
    BY <1>2 DEF IndexRebuilt
  <2>. HIDE DEF holders
  <2>3. \E r \in holders : \A s \in holders : rank[s] <= rank[r]
    <3>. HIDE DEF rank
    <3>. QED
      BY <1>2, <2>1, GreatestValue
  <2>4. \E r \in holders : \A s \in holders : dirAt[s] <= dirAt[r]
    BY <2>3
  <2>5. /\ IndexRebuilt[k] \in holders
        /\ \A s \in holders : dirAt[s] <= dirAt[IndexRebuilt[k]]
    BY <2>2, <2>4
  <2>. QED
    BY <1>2, <2>5 DEF holders
<1>. QED
  BY <1>1, <1>2

\* What is read back orders the records of a key as it ordered their files.
LEMMA RestartKeepsOrder ==
  ASSUME KInv, Restart
  PROVE  KInv'
<1>1. IInv /\ IInv' /\ OnDiskOrder
  BY RestartPreserves DEF KInv
<1>2. /\ file' = [r \in Ids |-> IF r \in OnDisk THEN Reloaded(r) ELSE NoFile]
      /\ status' = [r \in Ids |-> IF r \notin OnDisk THEN "absent"
                                  ELSE IF Suspect(r) THEN "failed" ELSE Reloaded(r).status]
      /\ req' = [r \in Ids |-> IF r \in OnDisk THEN Reloaded(r).req ELSE NoRequest]
      /\ order' = dirAt
      /\ endedAt' = [r \in Ids |-> IF r \in OnDisk THEN Reloaded(r).ended ELSE 0]
      /\ index' = IndexRebuilt
      /\ clock' = clock + 1
      /\ UNCHANGED dirAt
  BY DEF Restart
<1>3. OnDisk \subseteq Ids /\ clock \in Nat /\ \A r \in Ids : file[r].ended \in Nat
  BY <1>1 DEF OnDisk, IInv, TypeOK
<1>4. \A r \in OnDisk : status'[r] \in Ended
  BY <1>1, <1>2, <1>3, ReloadedRecord DEF Ended
<1>5. Known' = OnDisk
  BY <1>2, <1>3, <1>4 DEF Known, Ended
\* A record that came back with a key is one its file told.
<1>6. ASSUME NEW r \in Ids, FileKey(r)' # NoKey
      PROVE  /\ r \in OnDisk /\ file'[r] = file[r] /\ Reloaded(r) = file[r]
             /\ FileKey(r) = FileKey(r)'
  BY <1>2, <1>6, KeyFacts DEF FileKey, Reloaded, NoFile
<1>7. \A r \in OnDisk : KeyOf(r)' = FileKey(r)' /\ KeyOf(r)' = Key(Reloaded(r).req)
                        /\ endedAt'[r] = file'[r].ended
  BY <1>2, <1>3 DEF KeyOf, FileKey
<1>8. RanksCounted'
  BY <1>1, <1>2 DEF OnDiskOrder, RanksCounted
<1>9. FilesDated'
  <2>1. SUFFICES ASSUME NEW r \in Ids
                 PROVE  /\ file'[r].ended <= clock'
                        /\ file'[r].status = "interrupted" => file'[r].req = NoRequest
    BY DEF FilesDated
  <2>2. \/ file'[r] = file[r]
        \/ file'[r].req = NoRequest /\ file'[r].ended \in {0, clock + 1}
    BY <1>2 DEF Reloaded, NoFile
  <2>. QED
    BY <2>2, <1>1, <1>2, <1>3 DEF OnDiskOrder, FilesDated
<1>10. FilesOrdered'
  <2>1. SUFFICES ASSUME NEW r \in Ids, NEW s \in Ids, r # s, FileKey(r)' = FileKey(s)',
                        FileKey(r)' # NoKey
                 PROVE  /\ dirAt'[r] # dirAt'[s]
                        /\ dirAt'[r] < dirAt'[s] => file'[r].ended < file'[s].ended
    BY DEF FilesOrdered
  <2>2. /\ FileKey(r) = FileKey(s) /\ FileKey(r) # NoKey
        /\ file'[r] = file[r] /\ file'[s] = file[s]
    BY <2>1, <1>6
  <2>. QED
    BY <2>1, <2>2, <1>1, <1>2 DEF OnDiskOrder, FilesOrdered
<1>11. \A r \in Ids : status'[r] # "running"
  BY <1>2, <1>4 DEF Ended
<1>12. RunningNewest' /\ SoleRunning'
  BY <1>5, <1>3, <1>11 DEF RunningNewest, SoleRunning
<1>13. Forgotten'
  BY <1>2, <1>3, <1>4 DEF Forgotten, Ended
<1>14. NewerEndedLater'
  <2>1. SUFFICES ASSUME NEW r \in OnDisk, NEW s \in OnDisk, r # s, KeyOf(r)' = KeyOf(s)',
                        KeyOf(r)' # NoKey
                 PROVE  /\ order'[r] # order'[s]
                        /\ order'[r] < order'[s] => endedAt'[r] < endedAt'[s]
    BY <1>5 DEF NewerEndedLater
  <2>. QED
    BY <2>1, <1>2, <1>3, <1>7, <1>10, ZenonT(60) DEF FilesOrdered
<1>15. IndexAnswersNewest'
  <2>1. SUFFICES ASSUME NEW k \in Keys
                 PROVE  LET holders == {r \in Known' : Key(req'[r]) = k}
                        IN IF holders = {} THEN index'[k] = 0
                           ELSE /\ index'[k] \in holders
                                /\ \A r \in holders : order'[r] <= order'[index'[k]]
    BY DEF IndexAnswersNewest
  <2>2. {r \in Known' : Key(req'[r]) = k} = {r \in OnDisk : Key(Reloaded(r).req) = k}
    BY <1>5, <1>7 DEF KeyOf
  <2>. QED
    BY <2>2, <1>1, <1>2, RebuiltIndexNewest
<1>. QED
  BY <1>1, <1>8, <1>9, <1>10, <1>12, <1>13, <1>14, <1>15
     DEF KInv, OnDiskOrder, InMemoryOrder

LEMMA NextKeepsOrder == KInv /\ [Next]_vars => KInv'
<1>1. SUFFICES ASSUME KInv, [Next]_vars PROVE KInv'
  OBVIOUS
<1>2. IInv'
  BY <1>1, NextPreserves DEF KInv
<1>3. CASE UNCHANGED <<status, req, order, endedAt, clock, index, dirAt, file>>
  BY <1>1, <1>2, <1>3, QuietKeepsOrder
<1>4. ASSUME NEW q \in Requests, CreateRun(q) PROVE KInv'
  BY <1>1, <1>4, CreateKeepsOrder
<1>5. ASSUME NEW r \in Ids, Boot(r) PROVE KInv'
  BY <1>1, <1>5, BootKeepsOrder
<1>6. ASSUME NEW r \in Ids, Finalize(r) \/ FinalizeError(r) PROVE KInv'
  BY <1>1, <1>6, FinalizeKeepsOrder
<1>7. CASE Crash \/ Restart
  BY <1>1, <1>7, CrashKeepsOrder, RestartKeepsOrder
<1>. QED
  BY <1>1, <1>3, <1>4, <1>5, <1>6, <1>7
     DEF Next, vars, recordVars, diskVars, Cancel, CancelAll, Complete, Die

LEMMA OrderInvariance == SafeSpec => []KInv
<1>. QED
  BY KInit, NextKeepsOrder, PTL DEF SafeSpec

\* A create with a key some shown run carries is answered with the newest such
\* run: through reservations, evictions by age and by count, deaths of the
\* server and rebuilt indexes (handler.ts, createRun, evict, the constructor).
THEOREM NewestAnswers == SafeSpec => []IndexAnswersNewest
<1>1. KInv => IndexAnswersNewest
  BY DEF KInv, InMemoryOrder
<1>. QED
  BY <1>1, OrderInvariance, PTL

-----------------------------------------------------------------------------
(***************************************************************************)
(* The registry implements the service.  A created run is shown running, a *)
(* finalization ends it and hides what it evicts, the death of the server  *)
(* hides everything, and a restart shows what ended; cancels and the steps *)
(* of the workflow processes change nothing a client is shown.             *)
(***************************************************************************)
svcView == [r \in Ids |-> View(r)]
svcKey == [r \in Ids |-> Key(req[r])]

\* The statuses of runs past the last created one are not shown.
LEMMA ViewValues ==
  ASSUME IInv, NEW r \in Ids
  PROVE  /\ r > started => svcView[r] = "unused"
         /\ r <= started /\ status[r] = "absent" => svcView[r] = "hidden"
         /\ status[r] # "absent" => r <= started /\ svcView[r] = status[r]
BY DEF IInv, TypeOK, FreshClean, svcView, View, Ids

LEMMA ShownAreKnown == IInv => Service!Shown = Known
<1>1. SUFFICES ASSUME IInv PROVE Service!Shown = Known
  OBVIOUS
<1>2. ASSUME NEW r \in Ids
      PROVE  svcView[r] \in Service!Ended \cup {"running"} <=> status[r] # "absent"
  <2>1. status[r] \in Ended \cup {"running", "absent"} /\ (r > started \/ r <= started)
    BY <1>1 DEF IInv, TypeOK, Ids
  <2>. QED
    BY <1>1, <2>1, ViewValues DEF Service!Ended, Ended
<1>. QED
  BY <1>2 DEF Service!Shown, Known, svcView

LEMMA ServiceStarts == Init => Service!ServiceInit
BY KeyFacts DEF Init, Service!ServiceInit, View, Ids

\* The steps a client cannot see.
LEMMA ServiceStutters ==
  ASSUME UNCHANGED <<up, started, status, req>>
  PROVE  UNCHANGED Service!svcVars
BY DEF Service!svcVars, View

LEMMA CreateImplementsCreate ==
  ASSUME KInv, NEW q \in Requests, CreateRun(q)
  PROVE  \E r \in Ids : \E k \in Keys \cup {NoKey} : Service!Create(r, k)
<1>1. IInv /\ IInv'
  BY CreatePreserves DEF KInv
<1>2. MaxRuns \in Nat /\ config \in Settings /\ started \in Nat
  BY <1>1, RegistryAssumption, ConfigType DEF IInv, TypeOK
<1>3. PICK r \in Ids : r = started + 1
  BY <1>2 DEF CreateRun, Settings, Ids
<1>4. /\ up /\ up' = up
      /\ status' = [status EXCEPT ![r] = "running"]
      /\ req' = [req EXCEPT ![r] = q]
      /\ started' = r
      /\ Existing(q) = {}
  BY <1>3 DEF CreateRun
<1>5. /\ \A s \in Ids : status'[s] = IF s = r THEN "running" ELSE status[s]
      /\ \A s \in Ids : req'[s] = IF s = r THEN q ELSE req[s]
      /\ status \in [Ids -> Ended \cup {"running", "absent"}]
  BY <1>1, <1>4 DEF IInv, TypeOK
<1>6. Key(q) \in Keys \cup {NoKey}
  BY KeyFacts
<1>7. svcView[r] = "unused"
  BY <1>1, <1>2, <1>3, ViewValues
<1>8. Key(q) = NoKey \/ \A s \in Service!Shown : svcKey[s] # Key(q)
  BY <1>1, <1>4, ShownAreKnown, AdmittedKeyIsFree DEF KeyOf, svcKey, Known
<1>9. svcView' = [svcView EXCEPT ![r] = "running"]
  <2>1. ASSUME NEW s \in Ids
        PROVE  View(s)' = IF s = r THEN "running" ELSE View(s)
    <3>1. s \in Nat /\ r = started + 1 /\ started \in Nat
      BY <1>2, <1>3 DEF Ids
    <3>. QED
      BY <3>1, <1>3, <1>4, <1>5 DEF View
  <2>. QED
    BY <2>1 DEF svcView
<1>10. svcKey' = [svcKey EXCEPT ![r] = Key(q)]
  BY <1>5 DEF svcKey
<1>. QED
  BY <1>4, <1>6, <1>7, <1>8, <1>9, <1>10 DEF Service!Create, svcView, svcKey

LEMMA FinalizeImplementsEnd ==
  ASSUME KInv, NEW r \in Ids, Finalize(r) \/ FinalizeError(r)
  PROVE  Service!End(r)
<1>1. IInv /\ IInv' /\ InMemoryOrder /\ InMemoryOrder'
  BY FinalizeKeepsOrder DEF KInv
<1>2. PICK how \in Ended : EndAndEvict(r, how)
  BY DEF Finalize, FinalizeError, EndStatus, Ended
<1>3. status[r] = "running" /\ up /\ up' = up /\ started' = started
  BY DEF Finalize, FinalizeError, historyVars
<1>4. \A s \in Ids :
        /\ status'[s] # "absent" => /\ status'[s] = IF s = r THEN how ELSE status[s]
                                    /\ req'[s] = req[s]
        /\ status'[s] = "running" <=> s # r /\ status[s] = "running"
        /\ status[s] \in Ended \cup {"running", "absent"}
        /\ status'[s] \in Ended \cup {"running", "absent"}
  BY <1>1, <1>2, <1>3, EndingRecords DEF IInv, TypeOK
<1>5. \A s \in Ids : /\ status[s] = "absent" => req[s] = NoRequest /\ status'[s] = "absent"
                     /\ status'[s] = "absent" => req'[s] = NoRequest
  BY <1>1, <1>3, <1>4 DEF InMemoryOrder, Forgotten
<1>6. r <= started
  BY <1>1, <1>3, ViewValues
<1>7. \A s \in Ids :
        /\ s > started => svcView[s] = "unused" /\ svcView'[s] = "unused"
        /\ s <= started /\ status[s] = "absent" => svcView[s] = "hidden"
        /\ s <= started /\ status[s] # "absent" => svcView[s] = status[s]
        /\ s <= started /\ status'[s] = "absent" => svcView'[s] = "hidden"
        /\ s <= started /\ status'[s] # "absent" => svcView'[s] = status'[s]
  <2>1. \A s \in Ids : svcView[s] = View(s) /\ svcView'[s] = View(s)'
    BY DEF svcView
  <2>2. started \in Nat /\ \A s \in Ids : s \in Nat
    BY <1>1 DEF IInv, TypeOK, Ids
  <2>. QED
    BY <2>1, <2>2, <1>3 DEF View
<1>8. \A s \in Ids : s > started => status[s] = "absent" /\ status'[s] = "absent"
  BY <1>1, <1>3 DEF IInv, FreshClean
<1>9. started \in Nat /\ \A s \in Ids : s > started \/ s <= started
  BY <1>1 DEF IInv, TypeOK, Ids
<1>10. svcView[r] = "running" /\ svcView'[r] \in Service!Ended \cup {"hidden"}
  BY <1>3, <1>4, <1>6, <1>7 DEF Service!Ended, Ended
<1>11. \A s \in Ids \ {r} : \/ svcView'[s] = svcView[s]
                            \/ svcView[s] \in Service!Ended /\ svcView'[s] = "hidden"
  BY <1>4, <1>5, <1>7, <1>9 DEF Service!Ended, Ended
<1>12. \A s \in Ids : svcKey'[s] = IF svcView'[s] = "hidden" THEN NoKey ELSE svcKey[s]
  <2>1. SUFFICES ASSUME NEW s \in Ids
                 PROVE  svcKey'[s] = IF svcView'[s] = "hidden" THEN NoKey ELSE svcKey[s]
    OBVIOUS
  <2>2. svcKey[s] = Key(req[s]) /\ svcKey'[s] = Key(req'[s])
    BY DEF svcKey
  <2>3. CASE s > started
    BY <2>2, <2>3, <1>5, <1>7, <1>8, KeyFacts
  <2>4. CASE s <= started /\ status'[s] = "absent"
    BY <2>2, <2>4, <1>5, <1>7, KeyFacts
  <2>5. CASE s <= started /\ status'[s] # "absent"
    BY <2>2, <2>5, <1>4, <1>7 DEF Ended
  <2>. QED
    BY <2>3, <2>4, <2>5, <1>9
<1>13. svcKey' = [s \in Ids |-> IF svcView'[s] = "hidden" THEN NoKey ELSE svcKey[s]]
  <2>1. svcKey' = [s \in Ids |-> svcKey'[s]]
    BY DEF svcKey
  <2>. QED
    BY <2>1, <1>12
<1>14. DOMAIN svcView' = Ids
  BY DEF svcView
<1>. QED
  BY <1>3, <1>10, <1>11, <1>13, <1>14 DEF Service!End, svcView, svcKey

LEMMA CrashImplementsStop ==
  ASSUME KInv, Crash
  PROVE  Service!Stop
<1>1. IInv
  BY DEF KInv
<1>2. /\ up /\ up' = FALSE /\ started' = started
      /\ \A r \in Ids : status'[r] = "absent" /\ req'[r] = NoRequest
  BY DEF Crash
<1>3. ASSUME NEW r \in Ids
      PROVE  View(r)' = IF r \in Service!Shown THEN "hidden" ELSE View(r)
  <2>1. r \in Service!Shown <=> status[r] # "absent"
    BY <1>1, ShownAreKnown DEF Known
  <2>2. status[r] # "absent" => r <= started /\ started \in Nat
    BY <1>1, ViewValues DEF IInv, TypeOK
  <2>3. CASE r > started
    <3>1. r \notin Service!Shown
      BY <2>1, <2>2, <2>3 DEF Ids
    <3>. QED
      BY <2>3, <3>1, <1>2 DEF View
  <2>4. CASE ~ (r > started)
    BY <2>1, <2>4, <1>2 DEF View
  <2>. QED
    BY <2>3, <2>4
<1>. QED
  BY <1>2, <1>3, KeyFacts DEF Service!Stop

LEMMA RestartImplementsResume ==
  ASSUME KInv, Restart
  PROVE  Service!Resume
<1>1. IInv /\ IInv' /\ InMemoryOrder'
  BY RestartKeepsOrder DEF KInv
<1>2. ~up /\ up' = TRUE /\ started' = started
  BY DEF Restart, historyVars
<1>3. \A r \in Ids : /\ status'[r] \in Ended \cup {"absent"}
                     /\ status'[r] = "absent" => req'[r] = NoRequest
                     /\ req'[r] \in Requests \cup {NoRequest}
  <2>1. \A r \in Ids : status'[r] \in Ended \cup {"absent"}
    BY <1>1, ReloadedRecord DEF Restart, Ended
  <2>. QED
    BY <2>1, <1>1 DEF InMemoryOrder, Forgotten, IInv, TypeOK
<1>4. \A r \in Ids : r > started => status'[r] = "absent"
  BY <1>1, <1>2 DEF IInv, FreshClean
<1>5. \A r \in Ids : /\ View(r)' \in Service!Ended \cup {"hidden", "unused"}
                     /\ View(r)' = "unused" <=> View(r) = "unused"
                     /\ View(r)' \in {"hidden", "unused"} => status'[r] = "absent"
  <2>1. SUFFICES ASSUME NEW r \in Ids
                 PROVE  /\ View(r)' \in Service!Ended \cup {"hidden", "unused"}
                        /\ View(r)' = "unused" <=> View(r) = "unused"
                        /\ View(r)' \in {"hidden", "unused"} => status'[r] = "absent"
    OBVIOUS
  <2>2. status[r] = "absent"
    BY <1>1, <1>2 DEF IInv, DownShowsNothing
  <2>. QED
    BY <2>2, <1>2, <1>3, <1>4 DEF View, Service!Ended, Ended
<1>6. \A r \in Ids : /\ Key(req'[r]) \in Keys \cup {NoKey}
                     /\ status'[r] = "absent" => Key(req'[r]) = NoKey
  BY <1>3, KeyFacts
<1>7. svcView' \in [Ids -> Service!Ended \cup {"hidden", "unused"}]
  BY <1>5 DEF svcView
<1>8. \A r \in Ids : /\ svcView'[r] = View(r)' /\ svcView[r] = View(r)
                     /\ svcKey'[r] = Key(req'[r])
  BY DEF svcView, svcKey
<1>9. svcKey' \in [Ids -> Keys \cup {NoKey}]
  BY <1>6 DEF svcKey
<1>. QED
  BY <1>2, <1>5, <1>6, <1>7, <1>8, <1>9 DEF Service!Resume, svcView, svcKey

\* Every step of the registry is a step of the service, or none a client sees.
LEMMA StepImplements == KInv /\ [Next]_vars => [Service!ServiceNext]_(Service!svcVars)
<1>1. SUFFICES ASSUME KInv, [Next]_vars PROVE [Service!ServiceNext]_(Service!svcVars)
  OBVIOUS
<1>2. CASE UNCHANGED <<up, started, status, req>>
  BY <1>2, ServiceStutters
<1>3. ASSUME NEW q \in Requests, CreateRun(q) PROVE Service!ServiceNext
  BY <1>1, <1>3, CreateImplementsCreate DEF Service!ServiceNext
<1>4. ASSUME NEW r \in Ids, Finalize(r) \/ FinalizeError(r) PROVE Service!ServiceNext
  BY <1>1, <1>4, FinalizeImplementsEnd DEF Service!ServiceNext
<1>5. CASE Crash \/ Restart
  BY <1>1, <1>5, CrashImplementsStop, RestartImplementsResume DEF Service!ServiceNext
<1>. QED
  BY <1>1, <1>2, <1>3, <1>4, <1>5
     DEF Next, vars, recordVars, historyVars, Cancel, CancelAll, Boot, Complete, Die

\* serve.md's promise to a client, kept through evictions, deaths and restarts:
\* a run is created under a key only when no shown run is remembered under it,
\* ends once, and a restart shows no run as running.
THEOREM ServiceImplemented == SafeSpec => ImplementsService
<1>. QED
  BY OrderInvariance, ServiceStarts, StepImplements, PTL
     DEF SafeSpec, ImplementsService, Service!ServiceSpec

=============================================================================
