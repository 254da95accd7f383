-------------------------- MODULE RunJournalProofs --------------------------
(***************************************************************************)
(* A run's journal and its live stream, for any number of lines and        *)
(* damages: what verifies is what the emitter wrote, an intact journal     *)
(* verifies, a keyed run is never served as one without a key, and a       *)
(* client that follows the file gets every line whole and once.            *)
(*                                                                         *)
(* The chain argument needs no induction over the journal: a line that a   *)
(* later one vouches for is the emitter's, and the first one out of place  *)
(* would contradict the link to the line before it.                        *)
(***************************************************************************)
EXTENDS RunEvents, FiniteSetTheorems, SequenceTheorems, WellFoundedInduction, TLAPS

Ids == {emitted[i].id : i \in DOMAIN emitted}

\* The emitter's own lines make a chain of ascending numbers, whose end is the
\* hash it keeps.
EmitterChained ==
  /\ \A i \in DOMAIN emitted :
       /\ emitted[i].id \in 1 .. written
       /\ emitted[i].prev = IF i = 1 THEN Genesis ELSE emitted[i - 1].id
       /\ \A j \in DOMAIN emitted : j < i => emitted[j].id < emitted[i].id
  /\ prevHash = IF emitted = <<>> THEN Genesis ELSE emitted[Len(emitted)].id

\* It ends with the terminal marker exactly when the kernel returned.
MarkerLast ==
  /\ kernel = "booting" => intended = <<>> /\ emitted = <<>>
  /\ kernel = "returned" => emitted # <<>>
  /\ \A i \in DOMAIN emitted :
       emitted[i].type = "WORKFLOW_END" <=> i = Len(emitted) /\ kernel = "returned"

\* The kernel's lines are the emitter's and those past it.
KernelLines ==
  /\ \A i \in DOMAIN intended :
       intended[i].type = "INBOX" \/ \E j \in DOMAIN emitted : intended[i] = emitted[j]
  /\ ~channels => intended = emitted

\* The file, however damaged: every line links to nothing or to the emitter's
\* lines, and one with the number of the emitter's is that line.
FileLines ==
  \A i \in DOMAIN journal :
    /\ journal[i].id \in 1 .. written
    /\ journal[i].prev \in {NoHash, Genesis} \cup Ids
    /\ \A j \in DOMAIN emitted : journal[i].id = emitted[j].id => journal[i] = emitted[j]

\* The counters stay under their bounds.
Bounded ==
  /\ Len(intended) <= MaxLines
  /\ kernel = "running" => Len(intended) <= MaxLines - 1
  /\ written - Len(intended) \in 0 .. MaxDamage

\* The host comes after the kernel, and only a keyed run gets a verdict.
HostLast ==
  /\ store # "none" => hostDone
  /\ hostDone => kernel \in {"returned", "killed"}
  /\ served.what \in {"verified", "refused"} => store # "none"

\* What was vouched for is settled: the kernel writes no more.
VouchedSettled == served.what = "verified" => kernel \in {"returned", "killed"}

JInv ==
  /\ TypeOK
  /\ EmitterChained
  /\ MarkerLast
  /\ KernelLines
  /\ FileLines
  /\ Bounded
  /\ HostLast
  /\ VouchedSettled
  /\ VerifiedIsGenuine

-----------------------------------------------------------------------------
\* A follower that has read to an offset sent the whole lines up to it, and
\* keeps the half line that is left.
WholeLines(n) == [i \in 1 .. n \div 2 |-> <<2 * i - 1, 2 * i>>]
Rest(n) == IF n % 2 = 0 THEN <<>> ELSE <<n>>

Followers == [resolved : BOOLEAN, offset : Nat, tail : Seq(Nat), sent : Seq(Seq(Nat))]

InStep(f) ==
  /\ f \in Followers
  /\ f.tail = Rest(f.offset)
  /\ f.sent = WholeLines(f.offset)

FollowInv ==
  /\ stream \in {"none", "open", "ended", "gone"}
  /\ InStep(follower)
  /\ failed \in 0 .. 2
  /\ follower.offset <= 2 * Len(journal)
  /\ stream = "none" => follower.offset = 0
  /\ stream # "none" => written = Len(intended)
  /\ stream = "ended" => hostDone /\ (failed < 2 => follower.offset = 2 * Len(journal))

-----------------------------------------------------------------------------
(***************************************************************************)
(* The chain.                                                              *)
(***************************************************************************)

\* A set of naturals has a least member.
LEMMA Least ==
  ASSUME NEW S, S \subseteq Nat, S # {}
  PROVE  \E x \in S : \A y \in S : x <= y
<1> DEFINE Below == {p \in Nat \X Nat : p[1] < p[2]}
<1>1. IsWellFoundedOn(Below, Nat)
  BY NatLessThanWellFounded DEF OpToRel
<1>2. \E x \in S : \A y \in S : ~ (<<y, x>> \in Below)
  <2>. HIDE DEF Below
  <2>. QED
    BY <1>1, WFMin
<1>3. PICK x \in S : \A y \in S : ~ (<<y, x>> \in Below)
  BY <1>2
<1>4. ASSUME NEW y \in S PROVE x <= y
  <2>1. ~ (y < x)
    BY <1>3
  <2>. QED
    BY <2>1
<1>. QED
  BY <1>4

\* The emitter's numbers ascend, so no two of its lines share one.
LEMMA NumbersApart ==
  ASSUME TypeOK, EmitterChained,
         NEW a \in 1 .. Len(emitted), NEW b \in 1 .. Len(emitted),
         emitted[a].id = emitted[b].id
  PROVE  a = b
<1>1. emitted \in Seq(Lines)
  BY DEF TypeOK
<1>2. emitted[a].id \in Nat \ {0}
  BY <1>1 DEF EmitterChained, TypeOK
<1>3. ASSUME NEW x \in 1 .. Len(emitted), NEW y \in 1 .. Len(emitted), x < y
      PROVE  emitted[x].id < emitted[y].id
  BY <1>1, <1>3 DEF EmitterChained
<1>4. ~ (a < b)
  <2>1. a < b => emitted[a].id < emitted[b].id
    BY <1>3
  <2>. QED
    BY <2>1, <1>2
<1>5. ~ (b < a)
  <2>1. b < a => emitted[b].id < emitted[a].id
    BY <1>3
  <2>. QED
    BY <2>1, <1>2
<1>. QED
  BY <1>1, <1>4, <1>5

\* Every line of an unbroken chain but the last is the emitter's line of the
\* same place.
LEMMA ChainGenuine ==
  ASSUME TypeOK, EmitterChained, FileLines, ChainOk(journal)
  PROVE  /\ Len(journal) \in Nat \ {0}
         /\ \A i \in 1 .. Len(journal) - 1 : i \in DOMAIN emitted /\ journal[i] = emitted[i]
<1> DEFINE n == Len(journal)
           Wrong == {i \in 1 .. n - 1 : ~ (i \in DOMAIN emitted /\ journal[i] = emitted[i])}
<1>1. journal \in Seq(Lines) /\ emitted \in Seq(Lines) /\ n \in Nat \ {0}
  BY DEF TypeOK, ChainOk
<1>2. \A i \in 1 .. n : journal[i].prev = IF i = 1 THEN Genesis ELSE journal[i - 1].id
  BY <1>1 DEF ChainOk
<1>3. \A i \in 1 .. n :
        /\ journal[i].id \in Nat \ {0}
        /\ journal[i].prev \in {NoHash, Genesis} \cup Ids
        /\ \A j \in 1 .. Len(emitted) :
             journal[i].id = emitted[j].id => journal[i] = emitted[j]
  BY <1>1 DEF FileLines, TypeOK
<1>4. ASSUME NEW i \in 1 .. n - 1
      PROVE  \E k \in 1 .. Len(emitted) : journal[i] = emitted[k]
  <2>1. i + 1 \in 1 .. n /\ i \in 1 .. n /\ i + 1 # 1 /\ (i + 1) - 1 = i
    BY <1>1
  <2>2. journal[i + 1].prev = journal[i].id
    BY <1>2, <2>1
  <2>3. journal[i].id \in Ids
    BY <1>3, <2>1, <2>2 DEF NoHash, Genesis
  <2>4. PICK k \in 1 .. Len(emitted) : journal[i].id = emitted[k].id
    BY <1>1, <2>3 DEF Ids
  <2>. QED
    BY <1>3, <2>1, <2>4
<1>5. \A k \in 1 .. Len(emitted) :
        /\ emitted[k].id \in Nat \ {0}
        /\ emitted[k].prev = IF k = 1 THEN Genesis ELSE emitted[k - 1].id
        /\ \A j \in 1 .. Len(emitted) : j < k => emitted[j].id < emitted[k].id
  BY <1>1 DEF EmitterChained, TypeOK
<1>6. Wrong = {}
  <2>1. SUFFICES ASSUME Wrong # {} PROVE FALSE
    OBVIOUS
  <2>2. Wrong \subseteq Nat
    BY <1>1
  <2>3. PICK i \in Wrong : \A y \in Wrong : i <= y
    <3>. HIDE DEF Wrong
    <3>. QED
      BY <2>1, <2>2, Least
  <2>4. i \in 1 .. n - 1 /\ i \in 1 .. n
    BY <1>1
  <2>5. PICK k \in 1 .. Len(emitted) : journal[i] = emitted[k]
    BY <1>4, <2>4
  <2>6. CASE i = 1
    <3>1. emitted[k].prev = Genesis
      BY <1>2, <2>4, <2>5, <2>6
    <3>2. k = 1
      <4>1. SUFFICES ASSUME k # 1 PROVE FALSE
        OBVIOUS
      <4>2. k - 1 \in 1 .. Len(emitted)
        BY <4>1, <1>1
      <4>. QED
        BY <3>1, <1>5, <4>1, <4>2 DEF Genesis
    <3>. QED
      BY <3>2, <2>5, <2>6, <1>1
  <2>7. CASE i # 1
    <3>1. i - 1 \in 1 .. n - 1 /\ i - 1 \notin Wrong
      BY <2>3, <2>4, <2>7, <1>1
    <3>2. i - 1 \in DOMAIN emitted /\ journal[i - 1] = emitted[i - 1]
      BY <3>1
    <3>3. i - 1 \in 1 .. Len(emitted)
      BY <3>2, <1>1
    <3>4. emitted[k].prev = emitted[i - 1].id
      BY <1>2, <2>4, <2>5, <2>7, <3>2
    <3>5. k # 1
      BY <3>4, <1>5, <3>3 DEF Genesis
    <3>6. k - 1 \in 1 .. Len(emitted) /\ emitted[k - 1].id = emitted[i - 1].id
      BY <3>4, <3>5, <1>5, <1>1
    <3>7. k - 1 = i - 1
      BY <3>3, <3>6, NumbersApart
    <3>8. k = i
      BY <3>7, <2>4, <1>1
    <3>. QED
      BY <3>8, <2>5, <1>1
  <2>. QED
    BY <2>6, <2>7
<1>. QED
  BY <1>1, <1>6

\* The first m elements of a sequence.
LEMMA Beginning ==
  ASSUME NEW S, NEW s \in Seq(S), NEW m \in 0 .. Len(s)
  PROVE  /\ SubSeq(s, 1, m) \in Seq(S)
         /\ Len(SubSeq(s, 1, m)) = m
         /\ \A i \in 1 .. m : SubSeq(s, 1, m)[i] = s[i]
OBVIOUS

\* What verifies is genuine, and complete if it holds only the kernel's lines.
LEMMA VerifiedGenuine ==
  ASSUME TypeOK, EmitterChained, MarkerLast, KernelLines, FileLines, ChainOk(journal)
  PROVE  /\ IsPrefix(Front(journal), emitted)
         /\ ToSet(journal) \subseteq ToSet(intended) => journal = emitted
<1> DEFINE n == Len(journal)
<1>1. /\ journal \in Seq(Lines) /\ emitted \in Seq(Lines) /\ intended \in Seq(Lines)
      /\ n \in Nat \ {0}
      /\ \A i \in 1 .. n - 1 : i \in 1 .. Len(emitted) /\ journal[i] = emitted[i]
  BY ChainGenuine DEF TypeOK
<1>0. n \in Nat \ {0} /\ (n # 1 => n - 1 \in 1 .. n - 1) /\ n - 1 \in 0 .. n
  <2>. HIDE DEF n
  <2>. QED
    BY <1>1
<1>2. n - 1 <= Len(emitted)
  <2>1. CASE n = 1
    BY <2>1, <1>1
  <2>2. CASE n # 1
    BY <2>2, <1>0, <1>1
  <2>. QED
    BY <2>1, <2>2
<1>3. IsPrefix(Front(journal), emitted)
  <2>1. /\ Front(journal) \in Seq(Lines)
        /\ Len(Front(journal)) = n - 1
        /\ \A i \in 1 .. n - 1 : Front(journal)[i] = journal[i]
    BY <1>0, <1>1, Beginning DEF Front
  <2>2. /\ SubSeq(Front(journal), 1, n - 1) \in Seq(Lines)
        /\ Len(SubSeq(Front(journal), 1, n - 1)) = n - 1
        /\ \A i \in 1 .. n - 1 : SubSeq(Front(journal), 1, n - 1)[i] = Front(journal)[i]
    BY <2>1, <1>0, Beginning
  <2>4. /\ SubSeq(emitted, 1, n - 1) \in Seq(Lines)
        /\ Len(SubSeq(emitted, 1, n - 1)) = n - 1
        /\ \A i \in 1 .. n - 1 : SubSeq(emitted, 1, n - 1)[i] = emitted[i]
    <3>1. n - 1 \in 0 .. Len(emitted)
      BY <1>0, <1>1, <1>2
    <3>. QED
      BY <3>1, <1>1, Beginning
  <2>3. SubSeq(Front(journal), 1, n - 1) = SubSeq(emitted, 1, n - 1)
    BY <2>1, <2>2, <2>4, <1>1, SeqEqual
  <2>. QED
    BY <2>1, <2>3, <1>2 DEF IsPrefix
<1>4. ASSUME ToSet(journal) \subseteq ToSet(intended) PROVE journal = emitted
  <2>1. journal[n].type = "WORKFLOW_END" /\ n \in 1 .. n
    BY <1>1 DEF ChainOk, Last
  <2>2. PICK m \in 1 .. Len(intended) : journal[n] = intended[m]
    <3>1. journal[n] \in ToSet(intended)
      <4>1. n \in DOMAIN journal
        BY <1>1, <2>1
      <4>2. journal[n] \in ToSet(journal)
        BY <4>1, Zenon DEF ToSet
      <4>. QED
        BY <4>2, <1>4
    <3>. QED
      BY <3>1, <1>1 DEF ToSet
  <2>3. PICK k \in 1 .. Len(emitted) : journal[n] = emitted[k]
    <3>1. intended[m].type # "INBOX"
      BY <2>1, <2>2
    <3>. QED
      BY <3>1, <1>1, <2>2 DEF KernelLines
  <2>4. k = Len(emitted)
    BY <1>1, <2>1, <2>3 DEF MarkerLast
  <2>5. /\ journal[n].prev = IF n = 1 THEN Genesis ELSE journal[n - 1].id
        /\ emitted[k].prev = IF k = 1 THEN Genesis ELSE emitted[k - 1].id
    <3>1. n \in DOMAIN journal /\ k \in DOMAIN emitted
      BY <1>1, <2>1, <2>3
    <3>. QED
      BY <3>1 DEF ChainOk, EmitterChained
  <2>6. \A i \in 1 .. Len(emitted) :
          /\ emitted[i].id \in Nat \ {0}
          /\ \A j \in 1 .. Len(emitted) : j < i => emitted[j].id < emitted[i].id
    BY <1>1 DEF EmitterChained, TypeOK
  <2>7. k = n
    <3>1. CASE n = 1
      <4>1. k # 1 => k - 1 \in 1 .. Len(emitted)
        BY <1>1
      <4>. QED
        BY <3>1, <2>3, <2>5, <2>6, <4>1 DEF Genesis
    <3>2. CASE n # 1
      <4>1. n - 1 \in 1 .. n - 1
        BY <3>2, <1>0
      <4>2. n - 1 \in 1 .. Len(emitted) /\ journal[n - 1] = emitted[n - 1]
        BY <4>1, <1>1
      <4>3. emitted[k].prev = emitted[n - 1].id
        BY <3>2, <2>3, <2>5, <4>2
      <4>4. k # 1
        BY <4>2, <4>3, <2>5, <2>6 DEF Genesis
      <4>5. k - 1 \in 1 .. Len(emitted) /\ emitted[k - 1].id = emitted[n - 1].id
        BY <4>3, <4>4, <2>5, <1>1
      <4>6. k - 1 = n - 1
        BY <4>2, <4>5, NumbersApart
      <4>. QED
        BY <4>6, <1>1
    <3>. QED
      BY <3>1, <3>2
  <2>8. Len(emitted) = n /\ \A i \in 1 .. n : journal[i] = emitted[i]
    <3>1. \A i \in 1 .. n : i = n \/ i \in 1 .. n - 1
      BY <1>1
    <3>. QED
      BY <3>1, <2>3, <2>4, <2>7, <1>1
  <2>. QED
    BY <2>8, <1>1
<1>. QED
  BY <1>3, <1>4

-----------------------------------------------------------------------------
(***************************************************************************)
(* Damage.                                                                 *)
(***************************************************************************)

\* Every line of a damaged file was there, or is a changed one with a new number.
LEMMA DamagedLines ==
  ASSUME NEW lines \in Seq(Lines), NEW after \in Damaged(lines),
         written \in Nat, written + 1 \in 1 .. MaxLines + MaxDamage
  PROVE  /\ after \in Seq(Lines)
         /\ \A i \in 1 .. Len(after) : \E k \in 1 .. Len(lines) :
              \/ after[i] = lines[k]
              \/ after[i].id = written + 1 /\ after[i].prev = lines[k].prev
<1>1. CASE \E n \in 0 .. Len(lines) - 1 : after = SubSeq(lines, 1, n)
  <2>1. PICK n \in 0 .. Len(lines) - 1 : after = SubSeq(lines, 1, n)
    BY <1>1
  <2>2. /\ after \in Seq(Lines)
        /\ Len(after) = n
        /\ \A i \in 1 .. n : after[i] = lines[i] /\ i \in 1 .. Len(lines)
    BY <2>1
  <2>. QED
    BY <2>2
<1>2. CASE \E m \in 1 .. Len(lines) : after = RemoveAt(lines, m)
  <2>1. PICK m \in 1 .. Len(lines) : after = SubSeq(lines, 1, m - 1) \o SubSeq(lines, m + 1, Len(lines))
    BY <1>2, Zenon DEF RemoveAt
  <2> DEFINE a == SubSeq(lines, 1, m - 1)
             b == SubSeq(lines, m + 1, Len(lines))
  <2>2. /\ a \in Seq(Lines) /\ Len(a) = m - 1
        /\ \A i \in 1 .. m - 1 : a[i] = lines[i]
    OBVIOUS
  <2>3. /\ b \in Seq(Lines) /\ Len(b) = Len(lines) - m
        /\ \A i \in 1 .. Len(lines) - m : b[i] = lines[m + i]
    OBVIOUS
  <2>4. after = a \o b
    BY <2>1
  <2>. HIDE DEF a, b
  <2>5. /\ after \in Seq(Lines)
        /\ Len(after) = Len(lines) - 1
        /\ \A i \in 1 .. Len(after) : after[i] = IF i < m THEN lines[i] ELSE lines[i + 1]
    <3>1. /\ a \o b \in Seq(Lines)
          /\ Len(a \o b) = Len(a) + Len(b)
          /\ \A i \in 1 .. Len(a) + Len(b) :
               (a \o b)[i] = IF i <= Len(a) THEN a[i] ELSE b[i - Len(a)]
      BY <2>2, <2>3, ConcatProperties
    <3>2. Len(a) + Len(b) = Len(lines) - 1
      BY <2>2, <2>3
    <3>3. ASSUME NEW i \in 1 .. Len(lines) - 1
          PROVE  after[i] = IF i < m THEN lines[i] ELSE lines[i + 1]
      <4>1. CASE i < m
        BY <4>1, <2>2, <2>4, <3>1, <3>2
      <4>2. CASE ~ (i < m)
        <5>1. i - Len(a) \in 1 .. Len(lines) - m /\ m + (i - Len(a)) = i + 1 /\ ~ (i <= Len(a))
          BY <4>2, <2>2
        <5>2. after[i] = b[i - Len(a)]
          BY <5>1, <2>4, <3>1, <3>2
        <5>. QED
          BY <4>2, <5>1, <5>2, <2>3
      <4>. QED
        BY <4>1, <4>2
    <3>. QED
      BY <2>4, <3>1, <3>2, <3>3
  <2>6. ASSUME NEW i \in 1 .. Len(after)
        PROVE  \E k \in 1 .. Len(lines) : after[i] = lines[k]
    <3>1. i \in 1 .. Len(lines) /\ i + 1 \in 1 .. Len(lines)
      BY <2>5
    <3>. QED
      BY <3>1, <2>5
  <2>. QED
    BY <2>5, <2>6
<1>3. CASE \E m \in 1 .. Len(lines), t \in {"STEP", "WORKFLOW_END"} :
             after = [lines EXCEPT ![m].id = written + 1, ![m].type = t]
  <2>1. PICK m \in 1 .. Len(lines), t \in {"STEP", "WORKFLOW_END"} :
          after = [lines EXCEPT ![m].id = written + 1, ![m].type = t]
    BY <1>3, Zenon
  <2> DEFINE new == [lines[m] EXCEPT !.id = written + 1, !.type = t]
  <2>2. lines[m] \in Lines
    OBVIOUS
  <2>3. new \in Lines /\ new.id = written + 1 /\ new.prev = lines[m].prev
    BY <2>2 DEF Lines, Types
  <2>4. after = [lines EXCEPT ![m] = new]
    BY <2>1
  <2>. HIDE DEF new
  <2>5. /\ after \in Seq(Lines)
        /\ Len(after) = Len(lines)
        /\ \A i \in 1 .. Len(lines) : after[i] = IF i = m THEN new ELSE lines[i]
    BY <2>3, <2>4
  <2>. QED
    BY <2>5, <2>3
<1>4. CASE \E m \in 1 .. Len(lines) - 1 :
             after = [lines EXCEPT ![m] = lines[m + 1], ![m + 1] = lines[m]]
  <2>1. PICK m \in 1 .. Len(lines) - 1 :
          after = [lines EXCEPT ![m] = lines[m + 1], ![m + 1] = lines[m]]
    BY <1>4
  <2>2. m \in 1 .. Len(lines) /\ m + 1 \in 1 .. Len(lines)
    OBVIOUS
  <2>3. /\ after \in Seq(Lines)
        /\ Len(after) = Len(lines)
        /\ \A i \in 1 .. Len(lines) : after[i] \in {lines[i], lines[m], lines[m + 1]}
    BY <2>1, <2>2
  <2>. QED
    BY <2>2, <2>3
<1>5. DOMAIN lines = 1 .. Len(lines)
  OBVIOUS
<1> DEFINE Cuts == {SubSeq(lines, 1, n) : n \in 0 .. Len(lines) - 1}
           Losses == {RemoveAt(lines, i) : i \in DOMAIN lines}
           Changed(i, t) == [lines EXCEPT ![i].id = written + 1, ![i].type = t]
           Changes == {Changed(i, t) : i \in DOMAIN lines, t \in {"STEP", "WORKFLOW_END"}}
           Swaps == {[lines EXCEPT ![i] = lines[i + 1], ![i + 1] = lines[i]] :
                       i \in 1 .. Len(lines) - 1}
<1>6. after \in Cuts \/ after \in Losses \/ after \in Changes \/ after \in Swaps
  <2>1. Damaged(lines) = UNION {Cuts, Losses, Changes, Swaps}
    BY DEF Damaged
  <2>. HIDE DEF Cuts, Losses, Changes, Swaps
  <2>. QED
    BY <2>1
<1>7. ASSUME after \in Changes
      PROVE  \E m \in 1 .. Len(lines), t \in {"STEP", "WORKFLOW_END"} :
               after = [lines EXCEPT ![m].id = written + 1, ![m].type = t]
  <2>1. \E m \in 1 .. Len(lines), t \in {"STEP", "WORKFLOW_END"} : after = Changed(m, t)
    <3>. HIDE DEF Changed
    <3>. QED
      BY <1>5, <1>7
  <2>. QED
    BY <2>1, Zenon
<1>8. ASSUME after \in Losses PROVE \E m \in 1 .. Len(lines) : after = RemoveAt(lines, m)
  BY <1>5, <1>8, Zenon
<1>9. ASSUME after \in Swaps
      PROVE  \E m \in 1 .. Len(lines) - 1 :
               after = [lines EXCEPT ![m] = lines[m + 1], ![m + 1] = lines[m]]
  BY <1>9, Zenon
<1>10. ASSUME after \in Cuts PROVE \E n \in 0 .. Len(lines) - 1 : after = SubSeq(lines, 1, n)
  BY <1>10, Zenon
<1>. HIDE DEF Cuts, Losses, Changed, Changes, Swaps
<1>11. CASE after \in Cuts
  BY <1>1, <1>10, <1>11, Zenon
<1>12. CASE after \in Losses
  BY <1>2, <1>8, <1>12, Zenon
<1>13. CASE after \in Changes
  BY <1>3, <1>7, <1>13, Zenon
<1>14. CASE after \in Swaps
  BY <1>4, <1>9, <1>14, Zenon
<1>. QED
  BY <1>6, <1>11, <1>12, <1>13, <1>14, Zenon

-----------------------------------------------------------------------------
(***************************************************************************)
(* The steps.                                                              *)
(***************************************************************************)

LEMMA JInitially == Init => JInv
<1>1. SUFFICES ASSUME Init PROVE JInv
  OBVIOUS
<1>2. <<>> \in Seq(Lines) /\ Len(<<>>) = 0 /\ DOMAIN <<>> = {}
  OBVIOUS
<1>3. TypeOK
  <2>1. 0 \in 0 .. MaxLines + MaxDamage
    BY JournalAssumption
  <2>2. served.what = "nothing" /\ served.lines = <<>>
    BY <1>1 DEF Init, Nothing
  <2>. QED
    BY <1>1, <1>2, <2>1, <2>2 DEF Init, TypeOK, Genesis
<1>4. EmitterChained /\ MarkerLast /\ KernelLines /\ FileLines
  BY <1>1, <1>2 DEF Init, EmitterChained, MarkerLast, KernelLines, FileLines
<1>5. Bounded /\ HostLast /\ VouchedSettled /\ VerifiedIsGenuine
  BY <1>1, <1>2, JournalAssumption
     DEF Init, Bounded, HostLast, VouchedSettled, VerifiedIsGenuine, Nothing
<1>. QED
  BY <1>3, <1>4, <1>5 DEF JInv

LEMMA Longer ==
  ASSUME NEW S, NEW s \in Seq(S), NEW e \in S
  PROVE  /\ Append(s, e) \in Seq(S)
         /\ Len(s) \in Nat /\ Len(Append(s, e)) = Len(s) + 1
         /\ Append(s, e)[Len(s) + 1] = e
         /\ \A i \in 1 .. Len(s) : i \in 1 .. Len(s) + 1 /\ Append(s, e)[i] = s[i]
         /\ \A i \in 1 .. Len(s) + 1 : i \in 1 .. Len(s) \/ i = Len(s) + 1
OBVIOUS

\* The emitter appends a line: the chain is one longer.
LEMMA ChainedKeeps ==
  ASSUME JInv, NEW type \in Types, Chained(type), channels' = channels, served' = served,
         kernel \in {"booting", "running"}, kernel' \in {"running", "returned"},
         type = "WORKFLOW_END" <=> kernel' = "returned",
         kernel = "running" => Len(intended) < MaxLines,
         kernel' = "running" => Len(intended) < MaxLines - 1
  PROVE  /\ journal' \in Seq(Lines) /\ intended' \in Seq(Lines) /\ emitted' \in Seq(Lines)
         /\ prevHash' \in 0 .. MaxLines + MaxDamage /\ written' \in 0 .. MaxLines + MaxDamage
         /\ EmitterChained' /\ MarkerLast' /\ KernelLines' /\ FileLines' /\ Bounded'
         /\ VerifiedIsGenuine'
<1> DEFINE line == [id |-> written + 1, type |-> type, prev |-> prevHash]
<1>1. /\ journal' = Append(journal, line) /\ intended' = Append(intended, line)
      /\ emitted' = Append(emitted, line)
      /\ written' = written + 1 /\ prevHash' = written + 1
  BY DEF Chained, AppendLine
<1>2. /\ journal \in Seq(Lines) /\ intended \in Seq(Lines) /\ emitted \in Seq(Lines)
      /\ written \in Nat /\ prevHash \in 0 .. MaxLines + MaxDamage
      /\ Len(intended) \in Nat /\ Len(intended) < MaxLines
      /\ written - Len(intended) \in 0 .. MaxDamage
      /\ MaxLines \in Nat /\ MaxDamage \in Nat
  <2>1. Len(intended) < MaxLines
    <3>1. CASE kernel = "booting"
      BY <3>1, JournalAssumption DEF JInv, MarkerLast
    <3>. QED
      BY <3>1
  <2>. QED
    BY <2>1, JournalAssumption DEF JInv, TypeOK, Bounded
<1>3. written + 1 \in 1 .. MaxLines + MaxDamage
  BY <1>2
<1>4. line \in Lines /\ line.id = written + 1 /\ line.type = type /\ line.prev = prevHash
  BY <1>2, <1>3 DEF Lines, Types
<1>. HIDE DEF line
<1>5. /\ emitted' \in Seq(Lines) /\ Len(emitted) \in Nat /\ Len(emitted') = Len(emitted) + 1
      /\ emitted'[Len(emitted) + 1] = line
      /\ \A i \in 1 .. Len(emitted) : i \in 1 .. Len(emitted) + 1 /\ emitted'[i] = emitted[i]
      /\ \A i \in 1 .. Len(emitted) + 1 : i \in 1 .. Len(emitted) \/ i = Len(emitted) + 1
      /\ DOMAIN emitted = 1 .. Len(emitted) /\ DOMAIN emitted' = 1 .. Len(emitted) + 1
  <2>1. emitted' \in Seq(Lines) /\ Len(emitted') = Len(emitted) + 1
    BY <1>1, <1>2, <1>4, Longer
  <2>2. DOMAIN emitted = 1 .. Len(emitted) /\ DOMAIN emitted' = 1 .. Len(emitted) + 1
    BY <2>1, <1>2
  <2>. QED
    BY <2>1, <2>2, <1>1, <1>2, <1>4, Longer
<1>6. /\ intended' \in Seq(Lines) /\ Len(intended') = Len(intended) + 1
      /\ \A i \in 1 .. Len(intended) + 1 : \/ i \in 1 .. Len(intended) /\ intended'[i] = intended[i]
                                           \/ intended'[i] = line
      /\ DOMAIN intended = 1 .. Len(intended) /\ DOMAIN intended' = 1 .. Len(intended) + 1
  <2>1. intended' \in Seq(Lines) /\ Len(intended') = Len(intended) + 1
    BY <1>1, <1>2, <1>4, Longer
  <2>2. DOMAIN intended = 1 .. Len(intended) /\ DOMAIN intended' = 1 .. Len(intended) + 1
    BY <2>1, <1>2
  <2>. QED
    BY <2>1, <2>2, <1>1, <1>2, <1>4, Longer
<1>7. /\ journal' \in Seq(Lines) /\ Len(journal') = Len(journal) + 1
      /\ \A i \in 1 .. Len(journal) + 1 : \/ i \in 1 .. Len(journal) /\ journal'[i] = journal[i]
                                          \/ journal'[i] = line
      /\ DOMAIN journal = 1 .. Len(journal) /\ DOMAIN journal' = 1 .. Len(journal) + 1
  <2>1. journal' \in Seq(Lines) /\ Len(journal') = Len(journal) + 1
    BY <1>1, <1>2, <1>4, Longer
  <2>2. DOMAIN journal = 1 .. Len(journal) /\ DOMAIN journal' = 1 .. Len(journal) + 1
    BY <2>1, <1>2
  <2>. QED
    BY <2>1, <2>2, <1>1, <1>2, <1>4, Longer
<1>8. /\ \A i \in 1 .. Len(emitted) :
           /\ emitted[i].id \in 1 .. written
           /\ emitted[i].prev = IF i = 1 THEN Genesis ELSE emitted[i - 1].id
           /\ \A j \in 1 .. Len(emitted) : j < i => emitted[j].id < emitted[i].id
      /\ prevHash = IF emitted = <<>> THEN Genesis ELSE emitted[Len(emitted)].id
  BY <1>5 DEF JInv, EmitterChained
<1>9. EmitterChained'
  <2>1. ASSUME NEW i \in 1 .. Len(emitted) + 1
        PROVE  /\ emitted'[i].id \in 1 .. written + 1
               /\ emitted'[i].prev = IF i = 1 THEN Genesis ELSE emitted'[i - 1].id
               /\ \A j \in 1 .. Len(emitted) + 1 : j < i => emitted'[j].id < emitted'[i].id
    <3>1. CASE i \in 1 .. Len(emitted)
      <4>1. i # 1 => i - 1 \in 1 .. Len(emitted)
        BY <3>1, <1>5
      <4>2. \A j \in 1 .. Len(emitted) + 1 : j < i => j \in 1 .. Len(emitted)
        BY <3>1, <1>5
      <4>3. emitted'[i] = emitted[i] /\ (i # 1 => emitted'[i - 1] = emitted[i - 1])
        BY <3>1, <4>1, <1>5
      <4>4. emitted'[i].id \in 1 .. written + 1
        BY <3>1, <4>3, <1>8, <1>2
      <4>5. emitted'[i].prev = IF i = 1 THEN Genesis ELSE emitted'[i - 1].id
        BY <3>1, <4>3, <1>8
      <4>6. ASSUME NEW j \in 1 .. Len(emitted) + 1, j < i
            PROVE  emitted'[j].id < emitted'[i].id
        <5>1. j \in 1 .. Len(emitted) /\ emitted'[j] = emitted[j]
          BY <4>2, <4>6, <1>5
        <5>. QED
          BY <5>1, <4>3, <4>6, <3>1, <1>8
      <4>. QED
        BY <4>4, <4>5, <4>6
    <3>2. CASE i = Len(emitted) + 1
      <4>1. emitted'[i].id = written + 1 /\ emitted'[i].prev = prevHash
        BY <3>2, <1>4, <1>5
      <4>2. \A j \in 1 .. Len(emitted) + 1 : j < i =>
              emitted'[j] = emitted[j] /\ emitted[j].id \in 1 .. written
        BY <3>2, <1>5, <1>8
      <4>3. CASE emitted = <<>>
        BY <4>1, <4>2, <4>3, <3>2, <1>8, <1>2
      <4>4. CASE emitted # <<>>
        <5>1. i # 1 /\ i - 1 = Len(emitted) /\ Len(emitted) \in 1 .. Len(emitted)
          BY <4>4, <3>2, <1>2, <1>5
        <5>2. emitted'[i].prev = IF i = 1 THEN Genesis ELSE emitted'[i - 1].id
          BY <4>1, <4>4, <5>1, <1>5, <1>8
        <5>3. emitted'[i].id \in 1 .. written + 1
          BY <4>1, <1>2
        <5>4. ASSUME NEW j \in 1 .. Len(emitted) + 1, j < i
              PROVE  emitted'[j].id < emitted'[i].id
          <6>1. emitted'[j].id \in 1 .. written
            BY <4>2, <5>4
          <6>. QED
            BY <6>1, <4>1, <1>2
        <5>. QED
          BY <5>2, <5>3, <5>4
      <4>. QED
        BY <4>3, <4>4
    <3>. QED
      BY <3>1, <3>2, <1>5
  <2>2. prevHash' = IF emitted' = <<>> THEN Genesis ELSE emitted'[Len(emitted')].id
    <3>1. emitted' # <<>>
      BY <1>5
    <3>. QED
      BY <3>1, <1>1, <1>4, <1>5
  <2>. QED
    BY <2>1, <2>2, <1>1, <1>5 DEF EmitterChained
<1>10. MarkerLast'
  <2>1. \A i \in 1 .. Len(emitted) : emitted[i].type # "WORKFLOW_END"
    BY <1>5 DEF JInv, MarkerLast
  <2>2. \A i \in 1 .. Len(emitted) + 1 :
          emitted'[i].type = "WORKFLOW_END" <=> i = Len(emitted) + 1 /\ kernel' = "returned"
    BY <2>1, <1>4, <1>5
  <2>3. emitted' # <<>>
    BY <1>5
  <2>. QED
    BY <2>2, <2>3, <1>5 DEF MarkerLast
<1>11. KernelLines'
  <2>1. ASSUME NEW i \in 1 .. Len(intended) + 1
        PROVE  \/ intended'[i].type = "INBOX"
               \/ \E j \in 1 .. Len(emitted) + 1 : intended'[i] = emitted'[j]
    <3>1. CASE i \in 1 .. Len(intended) /\ intended'[i] = intended[i]
      <4>1. intended[i].type = "INBOX" \/ \E j \in 1 .. Len(emitted) : intended[i] = emitted[j]
        BY <3>1, <1>5, <1>6 DEF JInv, KernelLines
      <4>. QED
        BY <3>1, <4>1, <1>5
    <3>2. CASE intended'[i] = line
      BY <3>2, <1>5
    <3>. QED
      BY <3>1, <3>2, <1>6
  <2>2. ~channels' => intended' = emitted'
    BY <1>1 DEF JInv, KernelLines
  <2>. QED
    BY <2>1, <2>2, <1>5, <1>6 DEF KernelLines
<1>12. FileLines'
  <2>1. Ids \subseteq Ids'
    <3>1. \A x \in Ids : \E i \in 1 .. Len(emitted) : x = emitted[i].id
      BY <1>5 DEF Ids
    <3>2. \A i \in 1 .. Len(emitted) : i \in DOMAIN emitted' /\ emitted'[i].id = emitted[i].id
      BY <1>5
    <3>. QED
      BY <3>1, <3>2 DEF Ids
  <2>2. prevHash \in {NoHash, Genesis} \cup Ids
    <3>1. CASE emitted = <<>>
      BY <3>1, <1>8
    <3>2. CASE emitted # <<>>
      <4>1. Len(emitted) \in DOMAIN emitted
        BY <3>2, <1>2, <1>5
      <4>. QED
        BY <3>2, <4>1, <1>8 DEF Ids
    <3>. QED
      BY <3>1, <3>2
  <2>3. \A i \in 1 .. Len(journal) :
          /\ journal[i].id \in 1 .. written
          /\ journal[i].prev \in {NoHash, Genesis} \cup Ids
          /\ \A j \in 1 .. Len(emitted) : journal[i].id = emitted[j].id => journal[i] = emitted[j]
    BY <1>5, <1>7 DEF JInv, FileLines
  <2>4. ASSUME NEW i \in 1 .. Len(journal) + 1
        PROVE  /\ journal'[i].id \in 1 .. written + 1
               /\ journal'[i].prev \in {NoHash, Genesis} \cup Ids'
               /\ \A j \in 1 .. Len(emitted) + 1 :
                    journal'[i].id = emitted'[j].id => journal'[i] = emitted'[j]
    <3>1. CASE i \in 1 .. Len(journal) /\ journal'[i] = journal[i]
      <4>1. journal[i].id \in 1 .. written /\ journal[i].id # written + 1
        BY <3>1, <2>3, <1>2
      <4>2. ASSUME NEW j \in 1 .. Len(emitted) + 1, journal'[i].id = emitted'[j].id
            PROVE  journal'[i] = emitted'[j]
        <5>1. j # Len(emitted) + 1
          BY <4>1, <4>2, <3>1, <1>4, <1>5
        <5>2. j \in 1 .. Len(emitted) /\ emitted'[j] = emitted[j]
          BY <5>1, <1>5
        <5>3. journal[i].id = emitted[j].id
          BY <4>2, <5>2, <3>1
        <5>. QED
          BY <5>2, <5>3, <3>1, <2>3
      <4>3. journal'[i].id \in 1 .. written + 1
        BY <4>1, <3>1, <1>2
      <4>4. journal'[i].prev \in {NoHash, Genesis} \cup Ids'
        BY <3>1, <2>1, <2>3
      <4>. QED
        BY <4>2, <4>3, <4>4
    <3>2. CASE journal'[i] = line
      <4>1. ASSUME NEW j \in 1 .. Len(emitted) + 1, line.id = emitted'[j].id
            PROVE  line = emitted'[j]
        <5>1. \A k \in 1 .. Len(emitted) : emitted[k].id # written + 1
          <6>1. TAKE k \in 1 .. Len(emitted)
          <6>2. emitted[k].id \in 1 .. written
            BY <1>8
          <6>. QED
            BY <6>2, <1>2
        <5>2. line.id = written + 1
          BY <1>4
        <5>3. j \in 1 .. Len(emitted) => emitted'[j] = emitted[j]
          BY <1>5
        <5>4. j \notin 1 .. Len(emitted)
          BY <4>1, <5>1, <5>2, <5>3
        <5>. QED
          BY <5>4, <1>5
      <4>2. line.id \in 1 .. written + 1 /\ line.prev \in {NoHash, Genesis} \cup Ids'
        BY <1>2, <1>4, <2>1, <2>2
      <4>. QED
        BY <3>2, <4>1, <4>2
    <3>. QED
      BY <3>1, <3>2, <1>7
  <2>5. \A i \in DOMAIN journal' :
          /\ journal'[i].id \in 1 .. written'
          /\ journal'[i].prev \in {NoHash, Genesis} \cup Ids'
          /\ \A j \in DOMAIN emitted' : journal'[i].id = emitted'[j].id => journal'[i] = emitted'[j]
    <3>1. /\ written' = written + 1
          /\ DOMAIN journal' = 1 .. Len(journal) + 1 /\ DOMAIN emitted' = 1 .. Len(emitted) + 1
      BY <1>1, <1>5, <1>7
    <3>. QED
      BY <2>4, <3>1, Zenon
  <2>. QED
    BY <2>5, Zenon DEF FileLines, NoHash, Genesis
<1>13. Bounded'
  BY <1>1, <1>2, <1>6 DEF Bounded
<1>14. VerifiedIsGenuine'
  BY DEF JInv, VouchedSettled, VerifiedIsGenuine
<1>. QED
  BY <1>1, <1>2, <1>3, <1>5, <1>6, <1>7, <1>9, <1>10, <1>11, <1>12, <1>13, <1>14

\* A line goes past the emitter.
LEMMA InboxKeeps ==
  ASSUME JInv, EmitInbox
  PROVE  JInv'
<1> DEFINE line == [id |-> written + 1, type |-> "INBOX", prev |-> NoHash]
<1>1. /\ journal' = Append(journal, line) /\ intended' = Append(intended, line)
      /\ written' = written + 1 /\ channels /\ kernel = "running"
      /\ Len(intended) < MaxLines - 1
  BY DEF EmitInbox, AppendLine
<1>2. UNCHANGED <<posture, channels, kernel, prevHash, emitted, store, hostDone, served>>
  BY DEF EmitInbox
<1>3. /\ journal \in Seq(Lines) /\ intended \in Seq(Lines) /\ emitted \in Seq(Lines)
      /\ written \in Nat /\ Len(intended) \in Nat
      /\ written - Len(intended) \in 0 .. MaxDamage
      /\ MaxLines \in Nat /\ MaxDamage \in Nat
  BY JournalAssumption DEF JInv, TypeOK, Bounded
<1>4. written + 1 \in 1 .. MaxLines + MaxDamage
  BY <1>1, <1>3
<1>5. /\ line \in Lines /\ line.id = written + 1 /\ line.prev = NoHash
      /\ line.type = "INBOX" /\ line.type # "WORKFLOW_END"
  BY <1>3, <1>4 DEF Lines, Types, NoHash
<1>. HIDE DEF line
<1>6. /\ intended' \in Seq(Lines) /\ Len(intended') = Len(intended) + 1
      /\ \A i \in 1 .. Len(intended) + 1 : \/ i \in 1 .. Len(intended) /\ intended'[i] = intended[i]
                                           \/ intended'[i] = line
      /\ DOMAIN intended = 1 .. Len(intended) /\ DOMAIN intended' = 1 .. Len(intended) + 1
  <2>1. intended' \in Seq(Lines) /\ Len(intended') = Len(intended) + 1
    BY <1>1, <1>3, <1>5, Longer
  <2>2. DOMAIN intended = 1 .. Len(intended) /\ DOMAIN intended' = 1 .. Len(intended) + 1
    BY <2>1, <1>3
  <2>. QED
    BY <2>1, <2>2, <1>1, <1>3, <1>5, Longer
<1>7. /\ journal' \in Seq(Lines)
      /\ \A i \in 1 .. Len(journal) + 1 : \/ i \in 1 .. Len(journal) /\ journal'[i] = journal[i]
                                          \/ journal'[i] = line
      /\ DOMAIN journal = 1 .. Len(journal) /\ DOMAIN journal' = 1 .. Len(journal) + 1
  <2>1. journal' \in Seq(Lines) /\ Len(journal') = Len(journal) + 1
    BY <1>1, <1>3, <1>5, Longer
  <2>2. DOMAIN journal = 1 .. Len(journal) /\ DOMAIN journal' = 1 .. Len(journal) + 1
    BY <2>1, <1>3
  <2>. QED
    BY <2>1, <2>2, <1>1, <1>3, <1>5, Longer
<1>8. /\ prevHash = IF emitted = <<>> THEN Genesis ELSE emitted[Len(emitted)].id
      /\ \A i \in DOMAIN emitted :
           /\ emitted[i].id \in 1 .. written /\ emitted[i].id # written + 1
           /\ emitted[i].prev = IF i = 1 THEN Genesis ELSE emitted[i - 1].id
           /\ \A j \in DOMAIN emitted : j < i => emitted[j].id < emitted[i].id
  BY <1>3 DEF JInv, EmitterChained
<1>9. EmitterChained'
  <2>1. \A i \in DOMAIN emitted : emitted[i].id \in 1 .. written + 1
    BY <1>3, <1>8
  <2>. QED
    BY <2>1, <1>1, <1>2, <1>8 DEF EmitterChained
<1>10. MarkerLast'
  BY <1>1, <1>2 DEF JInv, MarkerLast
<1>11. KernelLines'
  <2>1. \A i \in 1 .. Len(intended) :
          intended[i].type = "INBOX" \/ \E j \in DOMAIN emitted : intended[i] = emitted[j]
    BY <1>6 DEF JInv, KernelLines
  <2>. QED
    BY <2>1, <1>1, <1>2, <1>5, <1>6 DEF KernelLines
<1>12. FileLines'
  <2>1. Ids' = Ids
    BY <1>2 DEF Ids
  <2>2. \A i \in 1 .. Len(journal) :
          /\ journal[i].id \in 1 .. written + 1
          /\ journal[i].prev \in {NoHash, Genesis} \cup Ids
          /\ \A j \in DOMAIN emitted : journal[i].id = emitted[j].id => journal[i] = emitted[j]
    <3>1. 1 .. written \subseteq 1 .. written + 1 /\ DOMAIN journal = 1 .. Len(journal)
      BY <1>3
    <3>2. FileLines
      BY DEF JInv
    <3>. QED
      BY <3>1, <3>2, Zenon DEF FileLines
  <2>3. ASSUME NEW i \in 1 .. Len(journal) + 1
        PROVE  /\ journal'[i].id \in 1 .. written + 1
               /\ journal'[i].prev \in {NoHash, Genesis} \cup Ids
               /\ \A j \in DOMAIN emitted : journal'[i].id = emitted[j].id => journal'[i] = emitted[j]
    <3>1. CASE i \in 1 .. Len(journal) /\ journal'[i] = journal[i]
      BY <3>1, <2>2
    <3>2. CASE journal'[i] = line
      BY <3>2, <1>3, <1>5, <1>8
    <3>. QED
      BY <3>1, <3>2, <1>7
  <2>4. DOMAIN journal' = 1 .. Len(journal) + 1 /\ emitted' = emitted /\ written' = written + 1
    BY <1>1, <1>2, <1>7
  <2>. QED
    BY <2>1, <2>3, <2>4, Zenon DEF FileLines
<1>13. Bounded'
  BY <1>1, <1>2, <1>3, <1>6 DEF Bounded
<1>14. VouchedSettled' /\ VerifiedIsGenuine' /\ HostLast'
  BY <1>1, <1>2 DEF JInv, VouchedSettled, VerifiedIsGenuine, HostLast
<1>15. TypeOK'
  <2>1. written' \in 0 .. MaxLines + MaxDamage
    BY <1>1, <1>3, <1>4
  <2>. QED
    BY <2>1, <1>2, <1>6, <1>7 DEF JInv, TypeOK
<1>. QED
  BY <1>9, <1>10, <1>11, <1>12, <1>13, <1>14, <1>15 DEF JInv

\* The file is damaged: what the emitter knows is untouched.
LEMMA DamageKeeps ==
  ASSUME JInv, Damage
  PROVE  JInv'
<1>1. /\ written - Len(intended) < MaxDamage
      /\ journal' \in Damaged(journal) /\ written' = written + 1
      /\ UNCHANGED <<posture, channels, kernel, prevHash, intended, emitted, store, hostDone,
                     served>>
  BY DEF Damage
<1>2. /\ journal \in Seq(Lines) /\ intended \in Seq(Lines) /\ emitted \in Seq(Lines)
      /\ written \in Nat /\ Len(intended) \in Nat /\ Len(intended) <= MaxLines
      /\ written - Len(intended) \in 0 .. MaxDamage
      /\ MaxLines \in Nat /\ MaxDamage \in Nat
  BY JournalAssumption DEF JInv, TypeOK, Bounded
<1>3. written + 1 \in 1 .. MaxLines + MaxDamage
  BY <1>1, <1>2
<1>4. /\ journal' \in Seq(Lines)
      /\ \A i \in 1 .. Len(journal') : \E k \in 1 .. Len(journal) :
           \/ journal'[i] = journal[k]
           \/ journal'[i].id = written + 1 /\ journal'[i].prev = journal[k].prev
  BY <1>1, <1>2, <1>3, DamagedLines
<1>5. \A i \in DOMAIN emitted :
        /\ emitted[i].id \in 1 .. written + 1 /\ emitted[i].id # written + 1
        /\ emitted[i].prev = IF i = 1 THEN Genesis ELSE emitted[i - 1].id
        /\ \A j \in DOMAIN emitted : j < i => emitted[j].id < emitted[i].id
  BY <1>2 DEF JInv, EmitterChained
<1>6. EmitterChained'
  BY <1>1, <1>5 DEF JInv, EmitterChained
<1>7. FileLines'
  <2>1. Ids' = Ids
    BY <1>1 DEF Ids
  <2>2. \A k \in 1 .. Len(journal) :
          /\ journal[k].id \in 1 .. written + 1
          /\ journal[k].prev \in {NoHash, Genesis} \cup Ids
          /\ \A j \in DOMAIN emitted : journal[k].id = emitted[j].id => journal[k] = emitted[j]
    BY <1>2 DEF JInv, FileLines
  <2>3. ASSUME NEW i \in 1 .. Len(journal')
        PROVE  /\ journal'[i].id \in 1 .. written + 1
               /\ journal'[i].prev \in {NoHash, Genesis} \cup Ids
               /\ \A j \in DOMAIN emitted : journal'[i].id = emitted[j].id => journal'[i] = emitted[j]
    <3>1. PICK k \in 1 .. Len(journal) :
            \/ journal'[i] = journal[k]
            \/ journal'[i].id = written + 1 /\ journal'[i].prev = journal[k].prev
      BY <1>4
    <3>2. CASE journal'[i] = journal[k]
      BY <3>2, <2>2
    <3>3. CASE journal'[i].id = written + 1 /\ journal'[i].prev = journal[k].prev
      BY <3>3, <2>2, <1>2, <1>5
    <3>. QED
      BY <3>1, <3>2, <3>3
  <2>4. DOMAIN journal' = 1 .. Len(journal') /\ emitted' = emitted /\ written' = written + 1
    BY <1>1, <1>4
  <2>. QED
    BY <2>1, <2>3, <2>4, Zenon DEF FileLines
<1>8. MarkerLast' /\ KernelLines' /\ HostLast' /\ VouchedSettled' /\ VerifiedIsGenuine'
  BY <1>1 DEF JInv, MarkerLast, KernelLines, HostLast, VouchedSettled, VerifiedIsGenuine
<1>9. Bounded'
  BY <1>1, <1>2 DEF JInv, Bounded
<1>10. TypeOK'
  <2>1. written' \in 0 .. MaxLines + MaxDamage
    BY <1>1, <1>2, <1>3
  <2>. QED
    BY <2>1, <1>1, <1>4 DEF JInv, TypeOK
<1>. QED
  BY <1>6, <1>7, <1>8, <1>9, <1>10 DEF JInv

-----------------------------------------------------------------------------
LEMMA JStep == JInv /\ [Next]_vars => JInv'
<1>1. SUFFICES ASSUME JInv, [Next]_vars PROVE JInv'
  OBVIOUS
<1>2. /\ Len(intended) \in Nat /\ MaxLines \in Nat \ {0, 1}
      /\ kernel = "booting" => Len(intended) = 0
      /\ kernel = "running" => Len(intended) < MaxLines
  <2>1. intended \in Seq(Lines) /\ MaxLines \in Nat \ {0, 1}
    BY <1>1, JournalAssumption DEF JInv, TypeOK
  <2>. QED
    BY <2>1, <1>1 DEF JInv, MarkerLast, Bounded
<1>3. ASSUME NEW type \in Types, Chained(type),
             kernel' \in {"running", "returned"}, kernel \in {"booting", "running"},
             type = "WORKFLOW_END" <=> kernel' = "returned",
             kernel' = "running" => Len(intended) < MaxLines - 1,
             UNCHANGED <<posture, channels, store, hostDone, served>>
      PROVE  JInv'
  <2>1. /\ journal' \in Seq(Lines) /\ intended' \in Seq(Lines) /\ emitted' \in Seq(Lines)
        /\ prevHash' \in 0 .. MaxLines + MaxDamage /\ written' \in 0 .. MaxLines + MaxDamage
        /\ EmitterChained' /\ MarkerLast' /\ KernelLines' /\ FileLines' /\ Bounded'
        /\ VerifiedIsGenuine'
    BY <1>1, <1>2, <1>3, ChainedKeeps
  <2>2. TypeOK'
    BY <2>1, <1>1, <1>3 DEF JInv, TypeOK
  <2>3. HostLast' /\ VouchedSettled'
    BY <1>1, <1>3 DEF JInv, HostLast, VouchedSettled
  <2>. QED
    BY <2>1, <2>2, <2>3 DEF JInv
<1>4. CASE Start
  BY <1>2, <1>3, <1>4 DEF Start, Types
<1>5. CASE EmitStep
  BY <1>2, <1>3, <1>5 DEF EmitStep, Types
<1>6. CASE Return
  BY <1>2, <1>3, <1>6 DEF Return, Types
<1>7. ASSUME UNCHANGED <<posture, channels, prevHash, written, journal, intended, emitted>>
      PROVE  EmitterChained' /\ KernelLines' /\ FileLines'
  BY <1>1, <1>7 DEF JInv, EmitterChained, KernelLines, FileLines, Ids
<1>8. CASE Killed
  <2>1. EmitterChained' /\ KernelLines' /\ FileLines'
    BY <1>7, <1>8 DEF Killed
  <2>2. MarkerLast' /\ Bounded' /\ HostLast' /\ VouchedSettled' /\ VerifiedIsGenuine'
    BY <1>1, <1>8 DEF Killed, JInv, MarkerLast, Bounded, HostLast, VouchedSettled, VerifiedIsGenuine
  <2>3. TypeOK'
    BY <1>1, <1>8 DEF Killed, JInv, TypeOK
  <2>. QED
    BY <2>1, <2>2, <2>3 DEF JInv
<1>9. CASE StoreKey
  <2>1. EmitterChained' /\ KernelLines' /\ FileLines'
    BY <1>7, <1>9 DEF StoreKey
  <2>2. MarkerLast' /\ Bounded' /\ HostLast' /\ VouchedSettled' /\ VerifiedIsGenuine'
    BY <1>1, <1>9
       DEF StoreKey, JInv, MarkerLast, Bounded, HostLast, VouchedSettled, VerifiedIsGenuine
  <2>3. TypeOK'
    BY <1>1, <1>9 DEF StoreKey, JInv, TypeOK
  <2>. QED
    BY <2>1, <2>2, <2>3 DEF JInv
<1>10. CASE LoseKey
  <2>1. EmitterChained' /\ KernelLines' /\ FileLines'
    BY <1>7, <1>10 DEF LoseKey
  <2>2. MarkerLast' /\ Bounded' /\ HostLast' /\ VouchedSettled' /\ VerifiedIsGenuine'
    BY <1>1, <1>10
       DEF LoseKey, JInv, MarkerLast, Bounded, HostLast, VouchedSettled, VerifiedIsGenuine
  <2>3. TypeOK'
    BY <1>1, <1>10 DEF LoseKey, JInv, TypeOK
  <2>. QED
    BY <2>1, <2>2, <2>3 DEF JInv
<1>11. CASE Read
  <2>1. /\ served' = [what |-> Verdict, lines |-> IF Verdict = "verified" THEN journal ELSE <<>>]
        /\ UNCHANGED <<posture, channels, kernel, prevHash, written, journal, intended, emitted,
                       store, hostDone>>
    BY <1>11 DEF Read
  <2>2. EmitterChained' /\ KernelLines' /\ FileLines'
    BY <1>7, <2>1
  <2>3. Verdict = "verified" => store = "stored" /\ ChainOk(journal)
    BY DEF Verdict
  <2>8. Verdict \in {"verified", "refused"} => store # "none"
    BY DEF Verdict
  <2>4. MarkerLast' /\ Bounded' /\ HostLast'
    BY <1>1, <2>1, <2>8 DEF JInv, MarkerLast, Bounded, HostLast
  <2>5. VouchedSettled'
    BY <1>1, <2>1, <2>3 DEF JInv, HostLast, VouchedSettled
  <2>6. VerifiedIsGenuine'
    <3>1. CASE Verdict = "verified"
      <4>1. served'.lines = journal
        BY <2>1, <3>1
      <4>2. /\ IsPrefix(Front(journal), emitted)
            /\ ToSet(journal) \subseteq ToSet(intended) => journal = emitted
        BY <1>1, <2>3, <3>1, VerifiedGenuine DEF JInv
      <4>3. emitted' = emitted /\ intended' = intended
        BY <2>1
      <4>. QED
        BY <4>1, <4>2, <4>3 DEF VerifiedIsGenuine
    <3>2. CASE Verdict # "verified"
      BY <2>1, <3>2 DEF VerifiedIsGenuine
    <3>. QED
      BY <3>1, <3>2
  <2>7. TypeOK'
    <3>1. Verdict \in {"unverified", "verified", "refused"}
      BY DEF Verdict
    <3>2. served'.what = Verdict /\ served'.lines \in {journal, <<>>}
      BY <2>1
    <3>3. <<>> \in Seq(Lines)
      OBVIOUS
    <3>. QED
      BY <1>1, <2>1, <3>1, <3>2, <3>3 DEF JInv, TypeOK
  <2>. QED
    BY <2>2, <2>4, <2>5, <2>6, <2>7 DEF JInv
<1>12. CASE UNCHANGED vars
  BY <1>1, <1>12
     DEF vars, JInv, TypeOK, EmitterChained, MarkerLast, KernelLines, FileLines, Ids, Bounded,
         HostLast, VouchedSettled, VerifiedIsGenuine
<1>. QED
  BY <1>1, <1>4, <1>5, <1>6, <1>8, <1>9, <1>10, <1>11, <1>12, InboxKeeps, DamageKeeps DEF Next

LEMMA JAlways == Spec => []JInv
<1>1. Init => JInv
  BY JInitially
<1>2. JInv /\ [Next]_vars => JInv'
  BY JStep
<1>. QED
  BY <1>1, <1>2, PTL DEF Spec

-----------------------------------------------------------------------------
(***************************************************************************)
(* What a reader may rely on.                                              *)
(***************************************************************************)

\* The variables keep their types, whatever the kernel writes and whatever is
\* damaged.
THEOREM Typing == Spec => []TypeOK
<1>1. JInv => TypeOK
  BY DEF JInv
<1>. QED
  BY <1>1, JAlways, PTL

\* verifyRunSummaryChain vouches for what the emitter wrote and for nothing
\* else but the last line, for any number of lines and damages.
THEOREM Genuine == Spec => []VerifiedIsGenuine
<1>1. JInv => VerifiedIsGenuine
  BY DEF JInv
<1>. QED
  BY <1>1, JAlways, PTL

\* An intact journal of a run that returned and used no channel verifies.
THEOREM NoFalseAlarm == Spec => []IntactVerifies
<1>1. ASSUME JInv PROVE IntactVerifies
  <2>1. SUFFICES ASSUME kernel = "returned", ~channels, journal = intended
                 PROVE  ChainOk(journal)
    BY DEF IntactVerifies
  <2>2. journal = emitted /\ emitted \in Seq(Lines)
    BY <1>1, <2>1 DEF JInv, KernelLines, TypeOK
  <2>3. emitted # <<>> /\ Len(emitted) \in DOMAIN emitted
    BY <1>1, <2>1, <2>2 DEF JInv, MarkerLast
  <2>4. emitted[Len(emitted)].type = "WORKFLOW_END"
    BY <1>1, <2>1, <2>3 DEF JInv, MarkerLast
  <2>5. \A i \in DOMAIN emitted :
          emitted[i].prev = IF i = 1 THEN Genesis ELSE emitted[i - 1].id
    BY <1>1 DEF JInv, EmitterChained
  <2>. QED
    BY <2>2, <2>3, <2>4, <2>5 DEF ChainOk, Last
<1>. QED
  BY <1>1, JAlways, PTL

\* verifyRunJournal never falls back to unverifiable for a run it once vouched
\* for or refused, though the key write fails half way or the key is lost.
THEOREM VerdictNotDowngraded == Spec => NoDowngrade
<1>1. ASSUME JInv, [Next]_vars
      PROVE  [served.what \in {"verified", "refused"} => served'.what # "unverified"]_vars
  <2>1. SUFFICES ASSUME served.what \in {"verified", "refused"}, served' # served
                 PROVE  served'.what # "unverified"
    OBVIOUS
  <2>2. Read
    BY <1>1, <2>1
       DEF Next, vars, Start, EmitStep, EmitInbox, Return, Killed, Damage, StoreKey, LoseKey
  <2>3. store # "none"
    BY <1>1, <2>1 DEF JInv, HostLast
  <2>. QED
    BY <2>2, <2>3 DEF Read, Verdict
<1>. QED
  BY <1>1, JAlways, PTL DEF Spec, NoDowngrade

-----------------------------------------------------------------------------
(***************************************************************************)
(* The live stream.                                                        *)
(***************************************************************************)

LEMMA Halving ==
  ASSUME NEW n \in Nat
  PROVE  /\ n \div 2 \in Nat /\ n % 2 \in {0, 1}
         /\ n = 2 * (n \div 2) + (n % 2)
         /\ \A q \in Nat, r \in {0, 1} : n = 2 * q + r => q = n \div 2 /\ r = n % 2
<1>1. n \div 2 \in Nat /\ n % 2 \in {0, 1}
  OBVIOUS
<1>2. n = 2 * (n \div 2) + (n % 2)
  OBVIOUS
<1>3. ASSUME NEW q \in Nat, NEW r \in {0, 1}, n = 2 * q + r
      PROVE  q = n \div 2 /\ r = n % 2
  BY <1>1, <1>2, <1>3
<1>. QED
  BY <1>1, <1>2, <1>3

LEMMA EvensCounted ==
  ASSUME NEW q \in Nat
  PROVE  Cardinality({2 * i : i \in 1 .. q}) = q
<1> DEFINE f == [i \in 1 .. q |-> 2 * i]
           T == {2 * i : i \in 1 .. q}
<1>1. f \in [1 .. q -> T]
  OBVIOUS
<1>2. \A i, j \in 1 .. q : f[i] = f[j] => i = j
  OBVIOUS
<1>3. \A t \in T : \E i \in 1 .. q : f[i] = t
  OBVIOUS
<1>4. f \in Bijection(1 .. q, T)
  <2>. HIDE DEF f, T
  <2>. QED
    BY <1>1, <1>2, <1>3 DEF Bijection, Injection, Surjection, IsInjective
<1>5. ExistsBijection(1 .. q, T)
  BY <1>4 DEF ExistsBijection
<1>. HIDE DEF T
<1>6. Cardinality(T) = q
  BY <1>5, FS_CountingElements
<1>. QED
  BY <1>6 DEF T

\* In a buffer that starts after an even offset, the newlines are at the even
\* places, the k-th of them at 2k.
LEMMA NewlinesEven ==
  ASSUME NEW b \in Nat, NEW L \in Nat
  PROVE  LET buf == [i \in 1 .. L |-> 2 * b + i]
             q == L \div 2
         IN  /\ Cardinality(Newlines(buf)) = q
             /\ \A k \in 0 .. q : Newline(buf, k) = 2 * k
<1> DEFINE buf == [i \in 1 .. L |-> 2 * b + i]
           q == L \div 2
<1>1. q \in Nat /\ (L = 2 * q \/ L = 2 * q + 1)
  BY Halving
<1>2. \A i \in 1 .. L : (2 * b + i) % 2 = 0 <=> \E m \in 1 .. q : i = 2 * m
  <2>1. ASSUME NEW i \in 1 .. L
        PROVE  (2 * b + i) % 2 = 0 <=> \E m \in 1 .. q : i = 2 * m
    <3>1. (2 * b + i) % 2 = i % 2
      OBVIOUS
    <3>2. ASSUME i % 2 = 0 PROVE \E m \in 1 .. q : i = 2 * m
      <4>1. i = 2 * (i \div 2) /\ i \div 2 \in Nat
        BY <3>2, Halving
      <4>2. i \div 2 \in 1 .. q
        BY <4>1, <1>1
      <4>. QED
        BY <4>1, <4>2
    <3>3. ASSUME NEW m \in 1 .. q, i = 2 * m PROVE i % 2 = 0
      BY <3>3
    <3>. QED
      BY <3>1, <3>2, <3>3
  <2>. QED
    BY <2>1
<1>3. \A m \in 1 .. q : 2 * m \in 1 .. L
  BY <1>1
<1>4. Newlines(buf) = {2 * m : m \in 1 .. q}
  <2>1. DOMAIN buf = 1 .. L /\ \A i \in 1 .. L : buf[i] = 2 * b + i
    OBVIOUS
  <2>. HIDE DEF buf, q
  <2>2. Newlines(buf) = {i \in 1 .. L : (2 * b + i) % 2 = 0}
    BY <2>1 DEF Newlines
  <2>. QED
    BY <2>2, <1>2, <1>3
<1>5. ASSUME NEW k \in 1 .. q PROVE Newline(buf, k) = 2 * k
  <2>. HIDE DEF buf, q
  <2>1. ASSUME NEW m \in 1 .. q
        PROVE  Cardinality({j \in Newlines(buf) : j <= 2 * m}) = m
    <3>1. {j \in Newlines(buf) : j <= 2 * m} = {2 * i : i \in 1 .. m}
      BY <1>1, <1>4
    <3>. QED
      BY <3>1, EvensCounted
  <2>2. \E i \in Newlines(buf) : Cardinality({j \in Newlines(buf) : j <= i}) = k
    BY <2>1, <1>4
  <2> DEFINE c == CHOOSE i \in Newlines(buf) : Cardinality({j \in Newlines(buf) : j <= i}) = k
  <2>3. c \in Newlines(buf) /\ Cardinality({j \in Newlines(buf) : j <= c}) = k
    BY <2>2
  <2>4. Newline(buf, k) = c
    BY <1>1 DEF Newline
  <2>. HIDE DEF c
  <2>5. PICK m \in 1 .. q : c = 2 * m
    BY <2>3, <1>4
  <2>. QED
    BY <2>1, <2>3, <2>4, <2>5
<1>6. Newline(buf, 0) = 0
  BY DEF Newline
<1>7. Cardinality(Newlines(buf)) = q
  <2>. HIDE DEF buf, q
  <2>. QED
    BY <1>1, <1>4, EvensCounted
<1>. QED
  <2>. HIDE DEF q
  <2>1. \A k \in 0 .. q : Newline(buf, k) = 2 * k
    BY <1>1, <1>5, <1>6
  <2>. QED
    BY <2>1, <1>7 DEF q

\* What readNewLines cuts: the half line it kept goes before what it read.
LEMMA Buffered ==
  ASSUME NEW o \in Nat, NEW size \in Nat, o <= size
  PROVE  Rest(o) \o [n \in 1 .. size - o |-> o + n]
           = [i \in 1 .. size - 2 * (o \div 2) |-> 2 * (o \div 2) + i]
<1> DEFINE new == [n \in 1 .. size - o |-> o + n]
           b == o \div 2
           L == size - 2 * b
           buf == [i \in 1 .. L |-> 2 * b + i]
<1>1. b \in Nat /\ o % 2 \in {0, 1} /\ o = 2 * b + (o % 2)
  BY Halving
<1>2. L \in Nat /\ size - o \in Nat
  <2>. HIDE DEF b
  <2>. QED
    BY <1>1
<1>3. /\ new \in Seq(Nat) /\ Len(new) = size - o
      /\ \A n \in 1 .. size - o : new[n] = o + n
  BY <1>2
<1>. HIDE DEF b
<1>4. /\ buf \in Seq(Nat) /\ Len(buf) = L
      /\ \A i \in 1 .. L : buf[i] = 2 * b + i
  <2>. HIDE DEF L
  <2>. QED
    BY <1>1, <1>2
<1>. HIDE DEF new, buf
<1>5. CASE o % 2 = 0
  <2>1. o = 2 * b /\ L = size - o /\ Rest(o) = <<>>
    BY <1>1, <1>5 DEF Rest
  <2>2. <<>> \o new = new
    BY <1>3, ConcatEmptySeq
  <2>3. new = buf
    BY <2>1, <1>2, <1>3, <1>4, SeqEqual
  <2>. QED
    BY <2>1, <2>2, <2>3 DEF new, buf, b
<1>6. CASE o % 2 = 1
  <2>1. o = 2 * b + 1 /\ L = (size - o) + 1 /\ Rest(o) = <<o>>
    BY <1>1, <1>6 DEF Rest
  <2> DEFINE half == <<o>>
  <2>2. half \in Seq(Nat) /\ Len(half) = 1 /\ half[1] = o
    OBVIOUS
  <2>. HIDE DEF half
  <2>3. /\ half \o new \in Seq(Nat)
        /\ Len(half \o new) = 1 + (size - o)
        /\ \A i \in 1 .. 1 + (size - o) :
             (half \o new)[i] = IF i <= 1 THEN half[i] ELSE new[i - 1]
    <3>1. /\ half \o new \in Seq(Nat)
          /\ Len(half \o new) = Len(half) + Len(new)
          /\ \A i \in 1 .. Len(half) + Len(new) :
               (half \o new)[i] = IF i <= Len(half) THEN half[i] ELSE new[i - Len(half)]
      BY <2>2, <1>3, ConcatProperties
    <3>. QED
      BY <3>1, <2>2, <1>3
  <2>4. ASSUME NEW i \in 1 .. L PROVE (half \o new)[i] = buf[i]
    <3>1. CASE i = 1
      <4>1. 1 \in 1 .. L /\ 1 \in 1 .. 1 + (size - o) /\ 2 * b + 1 = o
        BY <3>1, <1>1, <1>2, <2>1
      <4>2. (half \o new)[1] = o
        <5>1. (half \o new)[1] = half[1]
          BY <4>1, <2>3
        <5>. QED
          BY <5>1, <2>2
      <4>. QED
        BY <3>1, <4>1, <4>2, <1>4
    <3>2. CASE i # 1
      <4>1. i - 1 \in 1 .. size - o /\ ~ (i <= 1) /\ i \in 1 .. 1 + (size - o)
        BY <3>2, <1>2, <2>1
      <4>2. (half \o new)[i] = new[i - 1]
        BY <4>1, <2>3
      <4>3. new[i - 1] = o + (i - 1)
        BY <4>1, <1>3
      <4>4. o + (i - 1) = 2 * b + i
        BY <1>1, <1>2, <2>1
      <4>. QED
        BY <4>2, <4>3, <4>4, <1>4
    <3>. QED
      BY <3>1, <3>2
  <2>5. half \o new = buf
    <3>1. Len(half \o new) = Len(buf)
      BY <1>2, <1>4, <2>1, <2>3
    <3>. QED
      BY <3>1, <1>4, <2>3, <2>4, SeqEqual
  <2>. QED
    BY <2>1, <2>5 DEF new, buf, b, half
<1>. QED
  BY <1>1, <1>5, <1>6

\* It cuts it into whole lines, and keeps the half line that is left.
LEMMA CutWhole ==
  ASSUME NEW b \in Nat, NEW L \in Nat
  PROVE  LET c == Cut([i \in 1 .. L |-> 2 * b + i])
         IN  /\ c.lines = [k \in 1 .. L \div 2 |-> <<2 * (b + k) - 1, 2 * (b + k)>>]
             /\ c.rest = Rest(2 * b + L)
<1> DEFINE buf == [i \in 1 .. L |-> 2 * b + i]
           q == L \div 2
<1>1. q \in Nat /\ L % 2 \in {0, 1} /\ L = 2 * q + (L % 2)
  BY Halving
<1>2. Cardinality(Newlines(buf)) = q /\ \A k \in 0 .. q : Newline(buf, k) = 2 * k
  BY NewlinesEven
<1>3. buf \in Seq(Nat) /\ Len(buf) = L /\ \A i \in 1 .. L : buf[i] = 2 * b + i
  OBVIOUS
<1>. HIDE DEF buf, q
<1>4. /\ Cut(buf).lines = [k \in 1 .. q |-> SubSeq(buf, Newline(buf, k - 1) + 1, Newline(buf, k))]
      /\ Cut(buf).rest = SubSeq(buf, Newline(buf, q) + 1, L)
  BY <1>2, <1>3 DEF Cut
<1>5. ASSUME NEW k \in 1 .. q
      PROVE  SubSeq(buf, Newline(buf, k - 1) + 1, Newline(buf, k)) = <<2 * (b + k) - 1, 2 * (b + k)>>
  <2>1. Newline(buf, k - 1) + 1 = 2 * k - 1 /\ Newline(buf, k) = 2 * k
    <3>1. k - 1 \in 0 .. q /\ k \in 0 .. q
      BY <1>1
    <3>. QED
      BY <3>1, <1>2
  <2>2. 2 * k - 1 \in 1 .. L /\ 2 * k \in 1 .. L
    BY <1>1
  <2> DEFINE s == SubSeq(buf, 2 * k - 1, 2 * k)
  <2>3. s \in Seq(Nat) /\ Len(s) = 2 /\ \A i \in 1 .. 2 : s[i] = buf[(2 * k - 1) + i - 1]
    <3>1. \A i \in 2 * k - 1 .. 2 * k : buf[i] \in Nat
      BY <2>2, <1>3
    <3>. QED
      BY <3>1, <2>2, SubSeqProperties
  <2>4. s[1] = 2 * (b + k) - 1 /\ s[2] = 2 * (b + k)
    <3>1. s[1] = buf[2 * k - 1] /\ s[2] = buf[2 * k]
      <4>1. s[1] = buf[(2 * k - 1) + 1 - 1] /\ s[2] = buf[(2 * k - 1) + 2 - 1]
        <5>. HIDE DEF s
        <5>. QED
          BY <2>3
      <4>2. (2 * k - 1) + 1 - 1 = 2 * k - 1 /\ (2 * k - 1) + 2 - 1 = 2 * k
        BY <1>1
      <4>. QED
        BY <4>1, <4>2
    <3>2. buf[2 * k - 1] = 2 * b + (2 * k - 1) /\ buf[2 * k] = 2 * b + 2 * k
      BY <2>2, <1>3
    <3>. QED
      BY <3>1, <3>2
  <2>. HIDE DEF s
  <2>5. s = <<2 * (b + k) - 1, 2 * (b + k)>>
    BY <2>3, <2>4
  <2>. QED
    BY <2>1, <2>5 DEF s
<1>6. Cut(buf).rest = Rest(2 * b + L)
  <2>1. Newline(buf, q) + 1 = 2 * q + 1
    BY <1>1, <1>2
  <2>2. CASE L % 2 = 0
    <3>1. SubSeq(buf, 2 * q + 1, L) = <<>>
      BY <2>2, <1>1, SubSeqEmpty
    <3>2. (2 * b + L) % 2 = 0
      BY <2>2
    <3>. QED
      BY <3>1, <3>2, <2>1, <1>4 DEF Rest
  <2>3. CASE L % 2 = 1
    <3>1. 2 * q + 1 = L /\ L \in 1 .. L
      BY <2>3, <1>1
    <3>2. /\ SubSeq(buf, L, L) \in Seq(Nat) /\ Len(SubSeq(buf, L, L)) = 1
          /\ SubSeq(buf, L, L)[1] = 2 * b + L
      <4>1. \A i \in L .. L : buf[i] \in Nat
        BY <3>1, <1>3
      <4>2. /\ SubSeq(buf, L, L) \in Seq(Nat) /\ Len(SubSeq(buf, L, L)) = 1
            /\ \A i \in 1 .. (L - L) + 1 : SubSeq(buf, L, L)[i] = buf[L + i - 1]
        BY <4>1, SubSeqProperties
      <4>3. SubSeq(buf, L, L)[1] = buf[L]
        BY <4>2
      <4>. QED
        BY <4>2, <4>3, <3>1, <1>3
    <3>3. (2 * b + L) % 2 # 0
      BY <2>3
    <3>4. SubSeq(buf, L, L) = <<2 * b + L>>
      <4> DEFINE s == SubSeq(buf, L, L)
                 t == <<2 * b + L>>
      <4>1. t \in Seq(Nat) /\ Len(t) = 1 /\ t[1] = 2 * b + L
        OBVIOUS
      <4>2. s \in Seq(Nat) /\ Len(s) = 1 /\ s[1] = 2 * b + L
        BY <3>2
      <4>. HIDE DEF s, t
      <4>3. s = t
        BY <4>1, <4>2, SeqEqual
      <4>. QED
        BY <4>3 DEF s, t
    <3>5. Cut(buf).rest = SubSeq(buf, L, L)
      BY <3>1, <2>1, <1>4
    <3>. QED
      BY <3>3, <3>4, <3>5 DEF Rest
  <2>. QED
    BY <2>2, <2>3, <1>1
<1>7. Cut(buf).lines = [k \in 1 .. q |-> <<2 * (b + k) - 1, 2 * (b + k)>>]
  BY <1>4, <1>5
<1>. QED
  BY <1>6, <1>7 DEF buf, q

\* A read brings the follower in step with the size it read.
LEMMA ReadInStep ==
  ASSUME NEW f, InStep(f), NEW size \in Nat, f.offset <= size
  PROVE  /\ InStep(ReadNewLines(f, size))
         /\ ReadNewLines(f, size).offset = size
<1> DEFINE o == f.offset
           b == o \div 2
           L == size - 2 * b
           c == Cut(f.tail \o [n \in 1 .. size - f.offset |-> f.offset + n])
           q == L \div 2
<1>1. /\ f \in Followers /\ o \in Nat /\ o <= size
      /\ f.tail = Rest(o) /\ f.sent = WholeLines(o)
  BY DEF InStep, Followers
<1>2. b \in Nat /\ o % 2 \in {0, 1} /\ o = 2 * b + (o % 2)
  <2>. HIDE DEF o
  <2>. QED
    BY <1>1, Halving
<1>3. L \in Nat
  <2>. HIDE DEF o, b
  <2>. QED
    BY <1>1, <1>2
<1>4. /\ c.lines = [k \in 1 .. q |-> <<2 * (b + k) - 1, 2 * (b + k)>>]
      /\ c.rest = Rest(size)
  <2>1. f.tail \o [n \in 1 .. size - f.offset |-> f.offset + n] = [i \in 1 .. L |-> 2 * b + i]
    BY <1>1, Buffered
  <2>2. 2 * b + L = size
    <3>. HIDE DEF o, b
    <3>. QED
      BY <1>2
  <2> DEFINE d == Cut([i \in 1 .. L |-> 2 * b + i])
  <2>3. c = d
    BY <2>1
  <2>. HIDE DEF o, b, L
  <2>4. d.lines = [k \in 1 .. q |-> <<2 * (b + k) - 1, 2 * (b + k)>>] /\ d.rest = Rest(2 * b + L)
    BY <1>2, <1>3, CutWhole
  <2>. HIDE DEF c, d, q
  <2>. QED
    BY <2>2, <2>3, <2>4
<1>5. q \in Nat /\ L % 2 \in {0, 1} /\ L = 2 * q + (L % 2)
  <2>. HIDE DEF L
  <2>. QED
    BY <1>3, Halving
<1>6. size \div 2 = b + q
  <2>1. size = 2 * (b + q) + (L % 2) /\ b + q \in Nat
    <3>1. size = 2 * b + L
      <4>. HIDE DEF b
      <4>. QED
        BY <1>2
    <3>. HIDE DEF b, L, q
    <3>. QED
      BY <3>1, <1>2, <1>5
  <2>. HIDE DEF b, L, q
  <2>. QED
    BY <2>1, <1>5, Halving
<1>. HIDE DEF c
<1>7. f.sent \o c.lines = WholeLines(size) /\ WholeLines(size) \in Seq(Seq(Nat))
  <2> DEFINE s == f.sent
             t == c.lines
             w == WholeLines(size)
             Pair(i) == <<2 * i - 1, 2 * i>>
  <2>. HIDE DEF b, q
  <2>1. s = [i \in 1 .. b |-> Pair(i)]
    BY <1>1 DEF WholeLines, b
  <2>2. t = [k \in 1 .. q |-> Pair(b + k)]
    BY <1>4
  <2>3. w = [i \in 1 .. b + q |-> Pair(i)]
    BY <1>6 DEF WholeLines
  <2>4. \A i \in Nat : i > 0 => Pair(i) \in Seq(Nat)
    OBVIOUS
  <2>. HIDE DEF s, t, w, Pair
  <2>5. s \in Seq(Seq(Nat)) /\ Len(s) = b /\ \A i \in 1 .. b : s[i] = Pair(i)
    BY <1>2, <2>1, <2>4
  <2>6. t \in Seq(Seq(Nat)) /\ Len(t) = q /\ \A i \in 1 .. q : t[i] = Pair(b + i)
    BY <1>2, <1>5, <2>2, <2>4
  <2>7. w \in Seq(Seq(Nat)) /\ Len(w) = b + q /\ \A i \in 1 .. b + q : w[i] = Pair(i)
    <3>1. b + q \in Nat /\ \A i \in 1 .. b + q : Pair(i) \in Seq(Nat)
      BY <1>2, <1>5, <2>4
    <3>. QED
      BY <3>1, <2>3
  <2>8. /\ s \o t \in Seq(Seq(Nat)) /\ Len(s \o t) = Len(s) + Len(t)
        /\ \A i \in 1 .. Len(s) + Len(t) : (s \o t)[i] = IF i <= Len(s) THEN s[i] ELSE t[i - Len(s)]
    BY <2>5, <2>6, ConcatProperties
  <2>9. ASSUME NEW i \in 1 .. b + q PROVE (s \o t)[i] = w[i]
    <3>1. CASE i <= b
      BY <3>1, <1>2, <1>5, <2>5, <2>6, <2>7, <2>8
    <3>2. CASE ~ (i <= b)
      <4>1. i - b \in 1 .. q /\ b + (i - b) = i
        BY <3>2, <1>2, <1>5
      <4>2. (s \o t)[i] = t[i - b]
        BY <3>2, <2>5, <2>6, <2>8
      <4>. QED
        BY <4>1, <4>2, <2>6, <2>7
    <3>. QED
      BY <3>1, <3>2
  <2>10. s \o t = w
    <3>1. Len(s \o t) = Len(w)
      BY <2>5, <2>6, <2>7, <2>8
    <3>. QED
      BY <3>1, <2>5, <2>6, <2>7, <2>8, <2>9, SeqEqual
  <2>. QED
    BY <2>7, <2>10 DEF s, t, w
<1>8. ReadNewLines(f, size) = [f EXCEPT !.offset = size, !.tail = Rest(size), !.sent = WholeLines(size)]
  BY <1>4, <1>7 DEF ReadNewLines, c
<1>9. Rest(size) \in Seq(Nat)
  BY DEF Rest
<1>10. ASSUME NEW t \in Seq(Nat), NEW s \in Seq(Seq(Nat))
       PROVE  LET g == [f EXCEPT !.offset = size, !.tail = t, !.sent = s]
              IN  g \in Followers /\ g.offset = size /\ g.tail = t /\ g.sent = s
  BY <1>1 DEF Followers
<1> DEFINE g == [f EXCEPT !.offset = size, !.tail = Rest(size), !.sent = WholeLines(size)]
<1>11. g \in Followers /\ g.offset = size /\ g.tail = Rest(size) /\ g.sent = WholeLines(size)
  BY <1>7, <1>9, <1>10
<1>12. ReadNewLines(f, size) = g
  BY <1>8
<1>. HIDE DEF g
<1>13. InStep(g) /\ g.offset = size
  BY <1>11 DEF InStep
<1>. QED
  BY <1>12, <1>13

\* So does a flush that finds the run directory, if its read succeeds.
LEMMA FlushInStep ==
  ASSUME NEW f, InStep(f), NEW size \in Nat, f.offset <= size,
         NEW found \in BOOLEAN, NEW ok \in BOOLEAN
  PROVE  LET g == Flush(f, size, found, ok)
         IN  /\ InStep(g)
             /\ g.offset \in {f.offset, size}
             /\ ok /\ found => g.offset = size
<1> DEFINE read == IF ok THEN ReadNewLines(f, size) ELSE f
           g == [read EXCEPT !.resolved = TRUE]
<1>1. InStep(read) /\ read.offset \in {f.offset, size} /\ (ok => read.offset = size)
  BY ReadInStep
<1>2. /\ read \in Followers
      /\ read.tail = Rest(read.offset) /\ read.sent = WholeLines(read.offset)
  BY <1>1 DEF InStep
<1>. HIDE DEF read
<1>3. g \in Followers /\ g.offset = read.offset /\ g.tail = read.tail /\ g.sent = read.sent
  BY <1>2 DEF Followers
<1>. HIDE DEF g
<1>4. InStep(g) /\ g.offset = read.offset
  BY <1>2, <1>3 DEF InStep
<1>5. CASE f.resolved \/ found
  <2>1. Flush(f, size, found, ok) = g
    BY <1>5 DEF Flush, g, read
  <2>. QED
    BY <2>1, <1>1, <1>4
<1>6. CASE ~ (f.resolved \/ found)
  <2>1. Flush(f, size, found, ok) = f
    BY <1>6 DEF Flush
  <2>. QED
    BY <2>1, <1>6
<1>. QED
  BY <1>5, <1>6

-----------------------------------------------------------------------------
LEMMA FollowInitially == EventsInit => FollowInv
<1>1. SUFFICES ASSUME EventsInit PROVE FollowInv
  OBVIOUS
<1>2. /\ stream = "none" /\ failed = 0 /\ journal = <<>>
      /\ follower = [resolved |-> FALSE, offset |-> 0, tail |-> <<>>, sent |-> <<>>]
  BY <1>1 DEF EventsInit, Init
<1>3. Rest(0) = <<>> /\ WholeLines(0) = <<>>
  BY DEF Rest, WholeLines
<1>4. InStep(follower) /\ follower.offset = 0
  BY <1>2, <1>3 DEF InStep, Followers
<1>5. Len(journal) = 0
  BY <1>2
<1>. QED
  BY <1>2, <1>4, <1>5 DEF FollowInv

\* Under a stream the journal only grows, and not any more once the host is done.
LEMMA JournalGrows ==
  ASSUME JInv, Next, written = Len(intended), written' - Len(intended') = 0
  PROVE  /\ Len(journal) <= Len(journal')
         /\ written' = Len(intended')
         /\ hostDone => hostDone' /\ journal' = journal
<1>1. /\ journal \in Seq(Lines) /\ intended \in Seq(Lines) /\ written \in Nat
      /\ Len(journal) \in Nat /\ Len(intended) \in Nat
      /\ hostDone => kernel \in {"returned", "killed"}
  BY DEF JInv, TypeOK, HostLast
<1>2. ASSUME NEW line \in Lines, AppendLine(line), kernel \in {"booting", "running"},
             hostDone' = hostDone
      PROVE  /\ Len(journal) <= Len(journal') /\ written' = Len(intended') /\ ~hostDone
  <2>1. Len(journal') = Len(journal) + 1 /\ Len(intended') = Len(intended) + 1 /\ written' = written + 1
    BY <1>1, <1>2, Longer DEF AppendLine
  <2>. QED
    BY <2>1, <1>1, <1>2
<1>3. JInv'
  BY JStep
<1>4. ASSUME NEW type \in Types, Chained(type), kernel \in {"booting", "running"},
             hostDone' = hostDone
      PROVE  Len(journal) <= Len(journal') /\ written' = Len(intended') /\ ~hostDone
  <2> DEFINE line == [id |-> written + 1, type |-> type, prev |-> prevHash]
  <2>1. AppendLine(line) /\ written' = written + 1
    BY <1>4 DEF Chained, AppendLine
  <2>2. written' \in 0 .. MaxLines + MaxDamage /\ prevHash \in 0 .. MaxLines + MaxDamage
    BY <1>3 DEF JInv, TypeOK
  <2>3. written + 1 \in 1 .. MaxLines + MaxDamage /\ prevHash \in -1 .. MaxLines + MaxDamage
    BY <2>1, <2>2, <1>1, JournalAssumption
  <2>4. line \in Lines
    BY <2>3 DEF Lines
  <2>. HIDE DEF line
  <2>. QED
    BY <1>2, <1>4, <2>1, <2>4
<1>5. CASE Start
  BY <1>4, <1>5 DEF Start, Types
<1>6. CASE EmitStep
  BY <1>4, <1>6 DEF EmitStep, Types
<1>7. CASE EmitInbox
  <2> DEFINE line == [id |-> written + 1, type |-> "INBOX", prev |-> NoHash]
  <2>1. AppendLine(line) /\ written' = written + 1 /\ kernel = "running" /\ hostDone' = hostDone
    BY <1>7 DEF EmitInbox, AppendLine
  <2>2. written' \in 0 .. MaxLines + MaxDamage
    BY <1>3 DEF JInv, TypeOK
  <2>3. written + 1 \in 1 .. MaxLines + MaxDamage /\ NoHash \in -1 .. MaxLines + MaxDamage
    BY <2>1, <2>2, <1>1, JournalAssumption DEF NoHash
  <2>4. line \in Lines
    BY <2>3 DEF Lines, Types
  <2>. HIDE DEF line
  <2>. QED
    BY <1>2, <2>1, <2>4
<1>8. CASE Return
  BY <1>4, <1>8 DEF Return, Types
<1>9. CASE Damage
  BY <1>1, <1>9 DEF Damage
<1>10. CASE Killed \/ StoreKey \/ LoseKey \/ Read
  <2>1. UNCHANGED <<journal, written, intended>> /\ (hostDone => hostDone')
    BY <1>10 DEF Killed, StoreKey, LoseKey, Read
  <2>. QED
    BY <2>1, <1>1
<1>. QED
  BY <1>5, <1>6, <1>7, <1>8, <1>9, <1>10 DEF Next

LEMMA FollowStep ==
  ASSUME JInv, FollowInv, [EventsNext]_<<vars, eventVars>>
  PROVE  FollowInv'
<1>1. /\ stream \in {"none", "open", "ended", "gone"} /\ failed \in 0 .. 2
      /\ InStep(follower) /\ follower.offset \in Nat
      /\ Len(journal) \in Nat /\ follower.offset <= 2 * Len(journal)
      /\ stream = "none" => follower.offset = 0
      /\ stream # "none" => written = Len(intended)
      /\ stream = "ended" => hostDone /\ (failed < 2 => follower.offset = 2 * Len(journal))
  <2>1. journal \in Seq(Lines)
    BY DEF JInv, TypeOK
  <2>. QED
    BY <2>1 DEF FollowInv, InStep, Followers
<1>2. CASE Next /\ (stream # "none" => written' - Len(intended') = 0) /\ UNCHANGED eventVars
  <2>1. stream' = stream /\ follower' = follower /\ failed' = failed
    BY <1>2 DEF eventVars
  <2>2. Len(journal') \in Nat
    <3>1. JInv'
      BY <1>2, JStep
    <3>2. journal' \in Seq(Lines)
      BY <3>1 DEF JInv, TypeOK
    <3>. QED
      BY <3>2
  <2>3. CASE stream = "none"
    BY <2>1, <2>2, <2>3, <1>1 DEF FollowInv
  <2>4. CASE stream # "none"
    <3>1. /\ Len(journal) <= Len(journal') /\ written' = Len(intended')
          /\ hostDone => hostDone' /\ journal' = journal
      BY <1>1, <1>2, <2>4, JournalGrows
    <3>. QED
      BY <3>1, <2>1, <2>2, <2>4, <1>1 DEF FollowInv
  <2>. QED
    BY <2>3, <2>4
<1>3. CASE OpenStream
  BY <1>1, <1>3 DEF OpenStream, vars, FollowInv
<1>4. \A size \in Sizes :
        /\ size \in Nat /\ follower.offset <= size /\ size <= 2 * Len(journal)
        /\ kernel # "running" => size = 2 * Len(journal)
        /\ Finds(size) \subseteq BOOLEAN
  <2>1. ASSUME NEW size \in Sizes
        PROVE  /\ size \in Nat /\ follower.offset <= size /\ size <= 2 * Len(journal)
               /\ kernel # "running" => size = 2 * Len(journal)
    BY <1>1 DEF Sizes
  <2>2. ASSUME NEW size \in Sizes PROVE Finds(size) \subseteq BOOLEAN
    <3>1. Finds(size) = {TRUE, FALSE} \/ Finds(size) = {size > 1}
      BY DEF Finds
    <3>2. (size > 1) \in BOOLEAN
      OBVIOUS
    <3>. QED
      BY <3>1, <3>2
  <2>. QED
    BY <2>1, <2>2
<1>5. CASE Poll
  <2>1. PICK size \in Sizes, ok \in BOOLEAN : \E found \in Finds(size) :
          follower' = Flush(follower, size, found, ok) /\ failed' = IF ok THEN 0 ELSE 1
    BY <1>5 DEF Poll
  <2>2. PICK found \in Finds(size) :
          follower' = Flush(follower, size, found, ok) /\ failed' = IF ok THEN 0 ELSE 1
    BY <2>1
  <2>3. InStep(follower') /\ follower'.offset \in {follower.offset, size}
    BY <2>2, <1>1, <1>4, FlushInStep
  <2>4. stream = "open" /\ UNCHANGED <<vars, stream>>
    BY <1>5 DEF Poll
  <2>5. failed' \in 0 .. 2
    BY <2>2
  <2>. QED
    BY <2>3, <2>4, <2>5, <1>1, <1>4 DEF FollowInv, vars
<1>6. CASE LastPoll
  <2>1. hostDone /\ stream = "open" /\ stream' = "ended" /\ UNCHANGED vars
    BY <1>6 DEF LastPoll
  <2>2. PICK size \in Sizes, ok1 \in BOOLEAN, ok2 \in BOOLEAN : \E found \in Finds(size) :
          /\ follower' = LastFlush(Flush(follower, size, found, ok1), size, found, ok2)
          /\ failed' = IF ok1 THEN 0 ELSE IF ok2 THEN 1 ELSE 2
    BY <1>6 DEF LastPoll
  <2>3. PICK found \in Finds(size) :
          /\ follower' = LastFlush(Flush(follower, size, found, ok1), size, found, ok2)
          /\ failed' = IF ok1 THEN 0 ELSE IF ok2 THEN 1 ELSE 2
    BY <2>2
  <2> DEFINE f1 == Flush(follower, size, found, ok1)
  <2>4. InStep(f1) /\ f1.offset \in {follower.offset, size} /\ (ok1 /\ found => f1.offset = size)
    BY <1>1, <1>4, FlushInStep
  <2>. HIDE DEF f1
  <2>5. follower' = Flush(f1, size, found, ok2)
    BY <2>3 DEF LastFlush, f1
  <2>6. f1.offset <= size
    BY <2>4, <1>4
  <2>7. /\ InStep(follower') /\ follower'.offset \in {f1.offset, size}
        /\ ok2 /\ found => follower'.offset = size
    BY <2>4, <2>5, <2>6, <1>4, FlushInStep
  <2>8. size = 2 * Len(journal)
    BY <2>1, <1>4 DEF JInv, HostLast
  <2>9. failed' \in 0 .. 2 /\ (failed' < 2 => ok1 \/ ok2)
    BY <2>3
  <2>10. failed' < 2 => follower'.offset = size
    <3>1. CASE Len(journal) = 0
      BY <3>1, <2>4, <2>7, <2>8, <1>1
    <3>2. CASE Len(journal) # 0
      <4>1. size # 1 /\ size > 1
        BY <3>2, <2>8, <1>1
      <4>2. found
        BY <4>1 DEF Finds
      <4>. QED
        BY <4>2, <2>4, <2>7, <2>9
    <3>. QED
      BY <3>1, <3>2
  <2>11. follower'.offset <= 2 * Len(journal)
    BY <2>4, <2>7, <2>8, <1>1
  <2>. QED
    BY <2>1, <2>7, <2>8, <2>9, <2>10, <2>11, <1>1 DEF FollowInv, vars
<1>7. CASE HangUp
  BY <1>1, <1>7 DEF HangUp, vars, FollowInv
<1>8. CASE UNCHANGED <<vars, eventVars>>
  BY <1>1, <1>8 DEF vars, eventVars, FollowInv
<1>. QED
  BY <1>2, <1>3, <1>5, <1>6, <1>7, <1>8 DEF EventsNext

LEMMA FollowAlways == EventsSpec => [](JInv /\ FollowInv)
<1>1. EventsInit => JInv /\ FollowInv
  BY JInitially, FollowInitially DEF EventsInit
<1>2. ASSUME JInv, FollowInv, [EventsNext]_<<vars, eventVars>>
      PROVE  JInv' /\ FollowInv'
  <2>1. [Next]_vars
    BY <1>2 DEF EventsNext, OpenStream, Poll, LastPoll, HangUp, eventVars
  <2>2. JInv'
    BY <1>2, <2>1, JStep
  <2>. QED
    BY <1>2, <2>2, FollowStep
<1>. QED
  BY <1>1, <1>2, PTL DEF EventsSpec

-----------------------------------------------------------------------------
(***************************************************************************)
(* What a client of the stream may rely on.                                *)
(***************************************************************************)

\* streamRunEventsSse sends whole lines, in order, each once and none skipped,
\* for any number of lines, polls and failing reads.
THEOREM Follows == EventsSpec => []WholeLinesOnce
<1>1. ASSUME JInv, FollowInv PROVE WholeLinesOnce
  <2>1. /\ follower.offset \in Nat /\ follower.offset <= 2 * Len(journal)
        /\ follower.sent = WholeLines(follower.offset) /\ Len(journal) \in Nat
    <3>1. journal \in Seq(Lines)
      BY <1>1 DEF JInv, TypeOK
    <3>. QED
      BY <1>1, <3>1 DEF FollowInv, InStep, Followers
  <2> DEFINE o == follower.offset
             q == o \div 2
  <2>2. q \in Nat /\ o % 2 \in {0, 1} /\ o = 2 * q + (o % 2)
    <3>. HIDE DEF o
    <3>. QED
      BY <2>1, Halving DEF o
  <2>. HIDE DEF q
  <2>3. follower.sent = [i \in 1 .. q |-> <<2 * i - 1, 2 * i>>]
    BY <2>1 DEF WholeLines, q
  <2>4. /\ Len(follower.sent) = q /\ DOMAIN follower.sent = 1 .. q
        /\ \A i \in 1 .. q : follower.sent[i] = <<2 * i - 1, 2 * i>>
    BY <2>2, <2>3
  <2>5. q <= Len(journal)
    BY <2>1, <2>2
  <2>. QED
    BY <2>4, <2>5 DEF WholeLinesOnce
<1>. QED
  BY <1>1, FollowAlways, PTL

\* The end of the stream comes after every line, unless both last reads fail.
THEOREM EndsComplete == EventsSpec => []EndIsComplete
<1>1. ASSUME JInv, FollowInv PROVE EndIsComplete
  <2>1. SUFFICES ASSUME stream = "ended", failed < 2
                 PROVE  Len(follower.sent) = Len(journal)
    BY DEF EndIsComplete
  <2>2. Len(journal) \in Nat
    <3>1. journal \in Seq(Lines)
      BY <1>1 DEF JInv, TypeOK
    <3>. QED
      BY <3>1
  <2>3. follower.offset = 2 * Len(journal) /\ follower.sent = WholeLines(follower.offset)
    BY <1>1, <2>1 DEF FollowInv, InStep
  <2> DEFINE n == Len(journal)
  <2>4. (2 * n) \div 2 = n
    <3>. HIDE DEF n
    <3>1. n \in Nat
      BY <2>2 DEF n
    <3>. QED
      BY <3>1
  <2>5. follower.sent = [i \in 1 .. n |-> <<2 * i - 1, 2 * i>>]
    BY <2>3, <2>4 DEF WholeLines
  <2>. QED
    BY <2>2, <2>5
<1>. QED
  BY <1>1, FollowAlways, PTL

\* Under a stream the journal behaves as it does without one, so what holds of
\* every journal holds of one that is followed.
THEOREM StreamsOnlyRead == EventsSpec => Spec
<1>1. EventsInit => Init
  BY DEF EventsInit
<1>2. [EventsNext]_<<vars, eventVars>> => [Next]_vars
  BY DEF EventsNext, OpenStream, Poll, LastPoll, HangUp, eventVars
<1>. QED
  BY <1>1, <1>2, PTL DEF EventsSpec, Spec
=============================================================================
