------------------------------ MODULE RunEvents ------------------------------
(***************************************************************************)
(* The live stream of a run's journal, GET /v1/runs/{id}/events with       *)
(* Accept: text/event-stream (src/src/cli/serve/runfiles.ts): a follower   *)
(* polls the file while the kernel appends to it, and ends the stream when *)
(* the run is over.                                                        *)
(*                                                                         *)
(* A line is two halves, the second with the newline; the halves of the    *)
(* file are numbered.  A poll is one turn of the server's event loop, so   *)
(* a run does not become terminal in the middle of one.  The stream does   *)
(* not verify what it sends, although verifyRunJournal's comment counts it *)
(* among the boundaries that do (emit.ts:211), so of a file that something *)
(* else writes nothing is claimed: only a file left alone is followed.     *)
(***************************************************************************)
EXTENDS RunJournal, FiniteSets

VARIABLES
  stream,    \* "none", "open", "ended", or "gone" when the client hung up
  follower,  \* the stream's JournalFollower, and the lines it sent
  failed     \* history: how many reads of the last poll failed

eventVars == <<stream, follower, failed>>

EventsInit ==
  /\ Init
  /\ stream = "none"
  /\ follower = [resolved |-> FALSE, offset |-> 0, tail |-> <<>>, sent |-> <<>>]
  /\ failed = 0

-----------------------------------------------------------------------------

\* How much of the file there is to read: the last line may be on its way.
Sizes ==
  {n \in {2 * Len(journal), 2 * Len(journal) - 1} :
     n >= follower.offset /\ (n # 2 * Len(journal) => kernel = "running")}

\* findRunDir knows the run by its first line, which may lack its newline.
Finds(size) == IF size = 1 THEN {TRUE, FALSE} ELSE {size > 1}

\* Where a buffer's newlines are, and the k-th of them.
Newlines(buf) == {i \in DOMAIN buf : buf[i] % 2 = 0}
Newline(buf, k) ==
  IF k = 0 THEN 0
  ELSE CHOOSE i \in Newlines(buf) : Cardinality({j \in Newlines(buf) : j <= i}) = k

\* The whole lines of a buffer, and what is left of it.
Cut(buf) ==
  LET n == Cardinality(Newlines(buf))
  IN  [lines |-> [k \in 1 .. n |-> SubSeq(buf, Newline(buf, k - 1) + 1, Newline(buf, k))],
       rest  |-> SubSeq(buf, Newline(buf, n) + 1, Len(buf))]

\* A mutant: the rest of a buffer is not kept.
ReadAndForget(f, size) ==
  LET c == Cut([n \in 1 .. size - f.offset |-> f.offset + n])
  IN  [f EXCEPT !.offset = size, !.sent = @ \o c.lines]

\* readNewLines: what was appended is read once, its last half line kept.
ReadNewLines(f, size) ==
  LET c == Cut(f.tail \o [n \in 1 .. size - f.offset |-> f.offset + n])
  IN  [f EXCEPT !.offset = size, !.tail = c.rest, !.sent = @ \o c.lines]

\* flush: a run directory that was found once is not looked for again.
Flush(f, size, found, ok) ==
  IF ~(f.resolved \/ found) THEN f
  ELSE [(IF ok THEN ReadNewLines(f, size) ELSE f) EXCEPT !.resolved = TRUE]

\* A mutant: nothing is read once the run is known to be over.
LastFlushNone(f, size, found, ok) == f

\* What may still have landed is flushed before the stream ends.
LastFlush(f, size, found, ok) == Flush(f, size, found, ok)

-----------------------------------------------------------------------------

OpenStream ==
  /\ stream = "none"
  /\ written = Len(intended)
  /\ stream' = "open"
  /\ UNCHANGED <<vars, follower, failed>>

\* A turn of streamRunEventsSse that is not its last one.
Poll ==
  /\ stream = "open"
  /\ ~hostDone
  /\ \E size \in Sizes, ok \in BOOLEAN : \E found \in Finds(size) :
       /\ follower' = Flush(follower, size, found, ok)
       /\ failed' = IF ok THEN 0 ELSE 1
  /\ UNCHANGED <<vars, stream>>

LastPoll ==
  /\ stream = "open"
  /\ hostDone
  /\ \E size \in Sizes, ok1, ok2 \in BOOLEAN : \E found \in Finds(size) :
       /\ follower' = LastFlush(Flush(follower, size, found, ok1), size, found, ok2)
       /\ failed' = IF ok1 THEN 0 ELSE IF ok2 THEN 1 ELSE 2
  /\ stream' = "ended"
  /\ UNCHANGED vars

HangUp ==
  /\ stream = "open"
  /\ stream' = "gone"
  /\ UNCHANGED <<vars, follower, failed>>

EventsNext ==
  \/ Next /\ (stream # "none" => written' - Len(intended') = 0) /\ UNCHANGED eventVars
  \/ OpenStream \/ Poll \/ LastPoll \/ HangUp

EventsSpec == EventsInit /\ [][EventsNext]_<<vars, eventVars>>

-----------------------------------------------------------------------------

(***************************************************************************)
(* A client gets the lines of the journal as the kernel wrote them: whole, *)
(* in order, each once, none skipped, however the polls fall between the   *)
(* appends and whichever reads fail.                                       *)
(***************************************************************************)
WholeLinesOnce ==
  /\ Len(follower.sent) <= Len(journal)
  /\ \A i \in DOMAIN follower.sent : follower.sent[i] = <<2 * i - 1, 2 * i>>

(***************************************************************************)
(* `event: end` comes after every line: "flush once more so the stream is  *)
(* complete before closing" (runfiles.ts:213), unless both reads of the    *)
(* last turn fail.                                                         *)
(***************************************************************************)
EndIsComplete ==
  stream = "ended" /\ failed < 2 => Len(follower.sent) = Len(journal)

=============================================================================
