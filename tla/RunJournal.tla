----------------------------- MODULE RunJournal -----------------------------
(***************************************************************************)
(* The journal of one run, run_summary.jsonl, and its keyed hash chain     *)
(* (src/src/runtime/kernel/emit.ts, runtime-event-emitter.ts): the kernel  *)
(* process appends lines, something else may damage the file meanwhile or  *)
(* afterwards, the host stores the chain key once the run is over, and the *)
(* read boundaries verify the file before they serve or export it.         *)
(*                                                                         *)
(* chainHmac is taken to be injective: the digest of a line is represented *)
(* by the number of the line, unique among all lines ever written.         *)
(***************************************************************************)
EXTENDS Integers, Sequences, SequencesExt

CONSTANTS
  MaxLines,   \* bound: lines the kernel writes, the first and the last counted
  MaxDamage,  \* bound: times the file is damaged
  Postures,   \* where the kernel runs: "host", "docker"
  ChannelUse  \* whether the workflow sends on channels: a subset of BOOLEAN

ASSUME JournalAssumption ==
  /\ MaxLines \in Nat \ {0, 1}
  /\ MaxDamage \in Nat
  /\ Postures \subseteq {"host", "docker"}
  /\ ChannelUse \subseteq BOOLEAN

VARIABLES
  posture,   \* where the kernel runs
  channels,  \* whether the workflow uses channels
  kernel,    \* the kernel process
  prevHash,  \* RuntimeEventEmitter.prevHash: the line it hashed last
  written,   \* lines written so far by anyone, which numbers them
  journal,   \* the file
  intended,  \* history: every line the kernel appended
  emitted,   \* history: those that went through the emitter, which keeps the chain
  store,     \* the run's entry in the audit key store
  hostDone,  \* callWorkflow is past writeChainKey
  served     \* history: the last read's verdict, and what it vouched for

vars == <<posture, channels, kernel, prevHash, written, journal, intended, emitted,
          store, hostDone, served>>

Genesis == 0
NoHash == -1   \* a line without a prev_hash field

Types == {"WORKFLOW_START", "STEP", "INBOX", "WORKFLOW_END"}
Lines == [id : 1 .. MaxLines + MaxDamage, type : Types, prev : -1 .. MaxLines + MaxDamage]
Nothing == [what |-> "nothing", lines |-> <<>>]

\* verifyRunSummaryChain before it asked for the terminal marker.
ChainLinksOk(lines) ==
  \A i \in DOMAIN lines :
    lines[i].prev = IF i = 1 THEN Genesis ELSE lines[i - 1].id

\* verifyRunSummaryChain with requireTerminal: every link holds, and the last
\* line is the terminal marker.
ChainOk(lines) ==
  /\ \A i \in DOMAIN lines :
       lines[i].prev = IF i = 1 THEN Genesis ELSE lines[i - 1].id
  /\ lines # <<>> /\ Last(lines).type = "WORKFLOW_END"

TypeOK ==
  /\ posture \in Postures
  /\ channels \in ChannelUse
  /\ kernel \in {"booting", "running", "returned", "killed"}
  /\ prevHash \in 0 .. MaxLines + MaxDamage
  /\ written \in 0 .. MaxLines + MaxDamage
  /\ journal \in Seq(Lines) /\ intended \in Seq(Lines) /\ emitted \in Seq(Lines)
  /\ store \in {"none", "stored", "keyless"}
  /\ hostDone \in BOOLEAN
  /\ served.what \in {"nothing", "unverified", "verified", "refused"}
  /\ served.lines \in Seq(Lines)

Init ==
  /\ posture \in Postures
  /\ channels \in ChannelUse
  /\ kernel = "booting"
  /\ prevHash = Genesis
  /\ written = 0
  /\ journal = <<>>
  /\ intended = <<>>
  /\ emitted = <<>>
  /\ store = "none"
  /\ hostDone = FALSE
  /\ served = Nothing

-----------------------------------------------------------------------------
(***************************************************************************)
(* The kernel                                                              *)
(***************************************************************************)

\* appendRunSummaryLine: one append of a whole line, whatever the file holds.
AppendLine(line) ==
  /\ journal' = Append(journal, line)
  /\ intended' = Append(intended, line)
  /\ written' = written + 1

\* serializeAndAppend that does not advance the hash.
ChainStuck(type) ==
  LET line == [id |-> written + 1, type |-> type, prev |-> prevHash]
  IN AppendLine(line) /\ emitted' = Append(emitted, line) /\ UNCHANGED prevHash

\* serializeAndAppend: the emitter keeps the hash of its own last line.
Chained(type) ==
  LET line == [id |-> written + 1, type |-> type, prev |-> prevHash]
  IN AppendLine(line) /\ emitted' = Append(emitted, line) /\ prevHash' = line.id

\* runRoot starts.
Start ==
  /\ kernel = "booting"
  /\ kernel' = "running"
  /\ Chained("WORKFLOW_START")
  /\ UNCHANGED <<posture, channels, store, hostDone, served>>

\* A step, prompt or log event of the emitter.
EmitStep ==
  /\ kernel = "running"
  /\ Len(intended) < MaxLines - 1
  /\ Chained("STEP")
  /\ UNCHANGED <<posture, channels, kernel, store, hostDone, served>>

\* The send step and the inbox drain append INBOX_* lines past the emitter:
\* they carry no prev_hash and do not move the emitter's.
EmitInbox ==
  /\ kernel = "running"
  /\ channels
  /\ Len(intended) < MaxLines - 1
  /\ AppendLine([id |-> written + 1, type |-> "INBOX", prev |-> NoHash])
  /\ UNCHANGED <<posture, channels, kernel, prevHash, emitted, store, hostDone, served>>

\* runRoot returns: the terminal marker is the last line.
Return ==
  /\ kernel = "running"
  /\ kernel' = "returned"
  /\ Chained("WORKFLOW_END")
  /\ UNCHANGED <<posture, channels, store, hostDone, served>>

\* The process ends some other way: cancel, timeout, a throw out of runRoot.
Killed ==
  /\ kernel \in {"booting", "running"}
  /\ kernel' = "killed"
  /\ UNCHANGED <<posture, channels, prevHash, written, journal, intended, emitted,
                 store, hostDone, served>>

-----------------------------------------------------------------------------
(***************************************************************************)
(* Damage to the file: it may lose lines anywhere, have one changed, or    *)
(* have two change places.  A changed line keeps its prev_hash.            *)
(***************************************************************************)
Damaged(lines) ==
  UNION {
    {SubSeq(lines, 1, n) : n \in 0 .. Len(lines) - 1},
    {RemoveAt(lines, i) : i \in DOMAIN lines},
    {[lines EXCEPT ![i].id = written + 1, ![i].type = t] :
       i \in DOMAIN lines, t \in {"STEP", "WORKFLOW_END"}},
    {[lines EXCEPT ![i] = lines[i + 1], ![i + 1] = lines[i]] :
       i \in 1 .. Len(lines) - 1}}

Damage ==
  /\ written - Len(intended) < MaxDamage
  /\ journal' \in Damaged(journal)
  /\ written' = written + 1
  /\ UNCHANGED <<posture, channels, kernel, prevHash, intended, emitted, store,
                 hostDone, served>>

-----------------------------------------------------------------------------
(***************************************************************************)
(* The host                                                                *)
(***************************************************************************)

(***************************************************************************)
(* callWorkflow stores the chain key when it knows the run dir: from the   *)
(* meta file, which only a kernel that returned wrote, or from the mount.  *)
(* The entry directory comes first, so a failed write leaves a keyed run   *)
(* without a key; if the directory itself cannot be made, the run stays    *)
(* one that was never keyed.  Either failure is thrown to the caller.      *)
(***************************************************************************)
StoreKey ==
  /\ kernel \in {"returned", "killed"}
  /\ ~hostDone
  /\ hostDone' = TRUE
  /\ IF kernel = "returned" \/ (posture = "docker" /\ intended # <<>>)
     THEN store' \in {"none", "keyless", "stored"}
     ELSE UNCHANGED store
  /\ UNCHANGED <<posture, channels, kernel, prevHash, written, journal, intended,
                 emitted, served>>

\* The key file disappears; the entry directory stays.
LoseKey ==
  /\ store = "stored"
  /\ store' = "keyless"
  /\ UNCHANGED <<posture, channels, kernel, prevHash, written, journal, intended,
                 emitted, hostDone, served>>

\* verifyRunJournal that calls a run without a key unverifiable.
VerdictOpen ==
  IF store # "stored" THEN "unverified"
  ELSE IF ChainOk(journal) THEN "verified" ELSE "refused"

\* verifyRunJournal.
Verdict ==
  IF store = "none" THEN "unverified"
  ELSE IF store = "stored" /\ ChainOk(journal) THEN "verified" ELSE "refused"

(***************************************************************************)
(* The boundaries that verify: the snapshot of runEvents, the OTLP and     *)
(* Sentry exports and the reload at startup hand the journal out unless    *)
(* the verdict refuses it.  The live stream of runEvents does not verify;  *)
(* it is RunEvents' own.                                                   *)
(***************************************************************************)
Read ==
  /\ served' = [what |-> Verdict,
                lines |-> IF Verdict = "verified" THEN journal ELSE <<>>]
  /\ UNCHANGED <<posture, channels, kernel, prevHash, written, journal, intended,
                 emitted, store, hostDone>>

Next ==
  \/ Start \/ EmitStep \/ EmitInbox \/ Return \/ Killed
  \/ Damage
  \/ StoreKey \/ LoseKey \/ Read

Spec == Init /\ [][Next]_vars

-----------------------------------------------------------------------------
(***************************************************************************)
(* Properties                                                              *)
(***************************************************************************)

(***************************************************************************)
(* What a reader gets with a verdict begins as the emitter wrote it,       *)
(* whatever happened to the file, while the kernel was appending to it or  *)
(* later (architecture.md: "any truncation *during* the run is caught      *)
(* because the kernel keeps appending").  No later line vouches for the    *)
(* last one.  And lost lines do not go unnoticed: a verified journal made  *)
(* of the kernel's own lines is all the emitter's lines, in order.         *)
(***************************************************************************)
VerifiedIsGenuine ==
  served.what = "verified" =>
    /\ IsPrefix(Front(served.lines), emitted)
    /\ ToSet(served.lines) \subseteq ToSet(intended) => served.lines = emitted

(***************************************************************************)
(* A run whose journal was once vouched for or refused is never served as  *)
(* one that cannot be verified, whatever becomes of its key (emit.ts: "a   *)
(* keyed run whose key vanished must not silently downgrade").  A run      *)
(* whose key directory could not be made was never keyed: its journal is   *)
(* handed out, as that of a killed host run is.                            *)
(***************************************************************************)
NoDowngrade ==
  [][served.what \in {"verified", "refused"} => served'.what # "unverified"]_vars

\* No false alarm: the journal of a run that returned, without channels, left
\* alone and with its key in place, verifies.
IntactVerifies ==
  kernel = "returned" /\ ~channels /\ store = "stored" /\ journal = intended
    => ChainOk(journal)

\* emit.ts: "each line's `prev_hash` is `chainHmac(key, previousRawLine)`", so
\* the journal of any run that returned verifies if it was left alone.  It does
\* not hold for a workflow that sends on a channel.
EveryLineChained ==
  kernel = "returned" /\ store = "stored" /\ journal = intended => ChainOk(journal)

=============================================================================
