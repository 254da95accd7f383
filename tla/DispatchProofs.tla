--------------------------- MODULE DispatchProofs ---------------------------
(***************************************************************************)
(* What holds of a program from the first file that is read to its last    *)
(* step, for any import graph, any programs, settings, number of calls and *)
(* of files coming and going.                                              *)
(***************************************************************************)
EXTENDS Dispatch, SequenceTheorems, WellFoundedInduction, TLAPS

-----------------------------------------------------------------------------
\* The graph: while it is loaded, every link leads to a file that was read or
\* waits in the queue, and neither of them goes beyond any closed set that holds
\* the entry.

Waiting == Range(queue)

\* Nothing a link leads to is forgotten.
Pending ==
  /\ Entry \in modules \cup Waiting
  /\ \A l \in links : l[1] \in modules /\ l[3] \in modules \cup Waiting

\* Nothing beyond the closure is ever read or asked for.
Bounded ==
  \A S \in SUBSET Path : Entry \in S /\ Closed(S) => modules \cup Waiting \subseteq S

ReadOnce == \A p \in Path : reads[p] = IF p \in modules THEN 1 ELSE 0

Emptied == loading \in {"loaded", "handed"} => queue = <<>>

GInv == GraphTypeOK /\ Pending /\ Bounded /\ ReadOnce /\ Emptied

LEMMA HeadRange ==
  ASSUME NEW q \in Seq(Path), q # <<>>
  PROVE  /\ Head(q) \in Path
         /\ Tail(q) \in Seq(Path)
         /\ Range(q) = {Head(q)} \cup Range(Tail(q))
<1>1. /\ Head(q) \in Path /\ Tail(q) \in Seq(Path)
      /\ Head(q) = q[1] /\ Len(q) \in Nat \ {0} /\ Len(Tail(q)) = Len(q) - 1
      /\ \A i \in 1..Len(Tail(q)) : Tail(q)[i] = q[i + 1]
  BY HeadTailProperties, EmptySeq
<1>2. Range(q) = {q[i] : i \in 1..Len(q)}
  BY RangeEquality
<1>3. Range(Tail(q)) = {Tail(q)[i] : i \in 1..Len(Tail(q))}
  BY <1>1, RangeEquality
<1>4. \A i \in 1..Len(q) : i = 1 \/ (i - 1 \in 1..Len(Tail(q)) /\ Tail(q)[i - 1] = q[i])
  BY <1>1
<1>5. \A i \in 1..Len(Tail(q)) : i + 1 \in 1..Len(q) /\ Tail(q)[i] = q[i + 1]
  BY <1>1
<1>6. Range(q) \subseteq {Head(q)} \cup Range(Tail(q))
  <2>1. SUFFICES ASSUME NEW i \in 1..Len(q) PROVE q[i] \in {Head(q)} \cup Range(Tail(q))
    BY <1>2
  <2>2. CASE i = 1
    BY <2>2, <1>1
  <2>3. CASE i - 1 \in 1..Len(Tail(q)) /\ Tail(q)[i - 1] = q[i]
    BY <2>3, <1>3
  <2>. QED
    BY <2>2, <2>3, <1>4
<1>7. {Head(q)} \cup Range(Tail(q)) \subseteq Range(q)
  <2>1. Head(q) \in Range(q)
    BY <1>1, <1>2
  <2>2. \A i \in 1..Len(Tail(q)) : Tail(q)[i] \in Range(q)
    BY <1>2, <1>5
  <2>. QED
    BY <2>1, <2>2, <1>3
<1> QED
  BY <1>1, <1>6, <1>7

LEMMA ConcatRange ==
  ASSUME NEW q \in Seq(Path), NEW r \in Seq(Path)
  PROVE  Range(q \o r) = Range(q) \cup Range(r)
BY RangeConcatenation

LEMMA ResolvesToPath ==
  ASSUME NEW i \in Import, i.near \in Path, i.far \in Path \cup {NoPath}, disk \subseteq Path
  PROVE  ResolveImport(i) \in Path
BY PathsAreNotNoPath DEF ResolveImport

\* The links and the targets of a file name the same files.
LEMMA LinksAreTargets ==
  ASSUME NEW p \in Path, GraphTypeOK
  PROVE  /\ Targets(p) \in Seq(Path)
         /\ ImportLinks(p) \subseteq Path \X Alias \X Path
         /\ \A l \in ImportLinks(p) : l[1] = p /\ l[3] \in Range(Targets(p))
         /\ \A t \in Range(Targets(p)) : \E l \in ImportLinks(p) : l[1] = p /\ l[3] = t
<1>1. Imports[p] \in Seq(Import)
  BY ImportsTyped
<1>2. \A n \in DOMAIN Imports[p] : Imports[p][n] \in Import
  BY <1>1, ElementOfSeq
<1>3. \A n \in DOMAIN Imports[p] : /\ Imports[p][n].alias \in Alias
                                   /\ ResolveImport(Imports[p][n]) \in Path
  <2>1. TAKE n \in DOMAIN Imports[p]
  <2>2. Imports[p][n] \in Import
    BY <1>2
  <2>3. Imports[p][n].near \in Path /\ Imports[p][n].far \in Path \cup {NoPath}
        /\ Imports[p][n].alias \in Alias
    BY <2>2 DEF Import
  <2> QED
    BY <2>2, <2>3, ResolvesToPath DEF GraphTypeOK
<1>4. Targets(p) \in Seq(Path)
  <2>1. DOMAIN Imports[p] = 1..Len(Imports[p]) /\ Len(Imports[p]) \in Nat
    BY <1>1
  <2> QED
    BY <1>3, <2>1, IsASeq DEF Targets
<1>5. ImportLinks(p) \subseteq Path \X Alias \X Path
  BY <1>3 DEF ImportLinks
<1>6. \A l \in ImportLinks(p) : l[1] = p /\ l[3] \in Range(Targets(p))
  BY DEF ImportLinks, Targets, Range
<1>7. \A t \in Range(Targets(p)) : \E l \in ImportLinks(p) : l[1] = p /\ l[3] = t
  <2>1. TAKE t \in Range(Targets(p))
  <2>2. PICK n \in DOMAIN Imports[p] : t = ResolveImport(Imports[p][n])
    BY <2>1 DEF Targets, Range
  <2>3. <<p, Imports[p][n].alias, t>> \in ImportLinks(p)
    BY <2>2 DEF ImportLinks
  <2> QED
    BY <2>3
<1> QED
  BY <1>4, <1>5, <1>6, <1>7

LEMMA InitGInv == GraphInit => GInv
<1> SUFFICES ASSUME GraphInit PROVE GInv
  OBVIOUS
<1>1. queue \in Seq(Path) /\ Waiting = {Entry}
  BY EntryIsPath DEF GraphInit, Waiting, Range
<1> QED
  BY <1>1 DEF GInv, GraphInit, GraphTypeOK, Pending, Bounded, ReadOnce, Emptied

LEMMA SkipKeepsGInv == GInv /\ SkipFile => GInv'
<1> SUFFICES ASSUME GInv, SkipFile PROVE GInv'
  OBVIOUS
<1>1. queue \in Seq(Path) /\ queue # <<>>
  BY DEF GInv, GraphTypeOK, SkipFile
<1>2. Tail(queue) \in Seq(Path) /\ Waiting = {Head(queue)} \cup Waiting'
  BY <1>1, HeadTailProperties, HeadRange DEF SkipFile, Waiting
<1> QED
  BY <1>2 DEF GInv, SkipFile, GraphTypeOK, Pending, Bounded, ReadOnce, Emptied, Closed

LEMMA ReadKeepsGInv == GInv /\ ReadFile => GInv'
<1> SUFFICES ASSUME GInv, ReadFile PROVE GInv'
  OBVIOUS
<1> DEFINE p == Head(queue)
<1>1. GraphTypeOK /\ queue \in Seq(Path) /\ queue # <<>>
  BY DEF GInv, GraphTypeOK, ReadFile
<1>2. p \in Path /\ Tail(queue) \in Seq(Path) /\ Waiting = {p} \cup Range(Tail(queue))
  BY <1>1, HeadRange DEF Waiting
<1>3. /\ p \notin modules
      /\ modules' = modules \cup {p}
      /\ reads' = [reads EXCEPT ![p] = @ + 1]
      /\ links' = links \cup ImportLinks(p)
      /\ queue' = Tail(queue) \o Targets(p)
      /\ UNCHANGED <<disk, changes, loading, runLinks>>
  BY DEF ReadFile
<1>4. /\ Targets(p) \in Seq(Path)
      /\ ImportLinks(p) \subseteq Path \X Alias \X Path
      /\ \A l \in ImportLinks(p) : l[1] = p /\ l[3] \in Range(Targets(p))
      /\ \A t \in Range(Targets(p)) : \E l \in ImportLinks(p) : l[1] = p /\ l[3] = t
  BY <1>1, <1>2, LinksAreTargets
<1>5. queue' \in Seq(Path) /\ Waiting' = Range(Tail(queue)) \cup Range(Targets(p))
  <2>1. Tail(queue) \o Targets(p) \in Seq(Path)
    BY <1>2, <1>4, ConcatProperties
  <2>2. Range(Tail(queue) \o Targets(p)) = Range(Tail(queue)) \cup Range(Targets(p))
    BY <1>2, <1>4, ConcatRange
  <2>3. Waiting' = Range(queue')
    BY DEF Waiting
  <2>4. queue' = Tail(queue) \o Targets(p)
    BY <1>3
  <2> QED
    BY <2>1, <2>2, <2>3, <2>4
<1>6. GraphTypeOK'
  BY <1>1, <1>2, <1>3, <1>4, <1>5 DEF GraphTypeOK
<1>7. Pending'
  <2>1. modules \cup Waiting \subseteq modules' \cup Waiting'
    BY <1>2, <1>3, <1>5
  <2>2. Entry \in (modules \cup Waiting)'
    BY <2>1 DEF GInv, Pending
  <2>3. ASSUME NEW l \in links PROVE l[1] \in modules' /\ l[3] \in modules' \cup Waiting'
    BY <2>1, <2>3, <1>3 DEF GInv, Pending
  <2>4. ASSUME NEW l \in ImportLinks(p) PROVE l[1] \in modules' /\ l[3] \in modules' \cup Waiting'
    BY <1>3, <1>4, <1>5
  <2> QED
    BY <1>3, <2>2, <2>3, <2>4 DEF Pending
<1>8. Bounded'
  <2>1. SUFFICES ASSUME NEW S \in SUBSET Path, Entry \in S, Closed(S)'
                 PROVE  (modules \cup Waiting)' \subseteq S
    BY DEF Bounded
  <2>2. Closed(S)
    BY <2>1, <1>3 DEF Closed
  <2>3. modules \cup Waiting \subseteq S
    BY <2>1, <2>2 DEF GInv, Bounded
  <2>4. Range(Targets(p)) \subseteq S
    BY <2>1, <2>3, <1>2, <1>3, <1>4 DEF Closed
  <2> QED
    BY <2>3, <2>4, <1>2, <1>3, <1>5
<1>9. ReadOnce'
  BY <1>2, <1>3 DEF GInv, ReadOnce, GraphTypeOK
<1>10. Emptied'
  BY <1>3 DEF Emptied, ReadFile
<1> QED
  BY <1>6, <1>7, <1>8, <1>9, <1>10 DEF GInv

\* No other step touches the queue, the files read or the links.
LEMMA RestKeepsGInv ==
  GInv /\ (MissFile \/ GraphLoaded \/ HandOver \/ FileChanges \/ UNCHANGED graphVars) => GInv'
<1> SUFFICES ASSUME GInv,
                    MissFile \/ GraphLoaded \/ HandOver \/ FileChanges \/ UNCHANGED graphVars
             PROVE  GInv'
  OBVIOUS
<1>1. UNCHANGED <<queue, modules, reads, links>>
  BY DEF MissFile, GraphLoaded, HandOver, FileChanges, graphVars
<1>2. GraphTypeOK'
  <2>1. CASE HandOver
    <3>1. \A q \in modules : ImportLinks(q) \subseteq Path \X Alias \X Path
      BY LinksAreTargets DEF GInv, GraphTypeOK
    <3> QED
      BY <2>1, <3>1 DEF HandOver, GInv, GraphTypeOK
  <2>2. CASE FileChanges
    BY <2>2 DEF FileChanges, GInv, GraphTypeOK
  <2>3. CASE MissFile \/ GraphLoaded \/ UNCHANGED graphVars
    BY <2>3 DEF MissFile, GraphLoaded, graphVars, GInv, GraphTypeOK
  <2> QED
    BY <2>1, <2>2, <2>3
<1>3. Pending' /\ Bounded' /\ ReadOnce'
  BY <1>1 DEF GInv, Pending, Bounded, ReadOnce, Waiting, Closed
<1>4. Emptied'
  BY <1>1 DEF GInv, Emptied, MissFile, GraphLoaded, HandOver, FileChanges, graphVars
<1> QED
  BY <1>2, <1>3, <1>4 DEF GInv

LEMMA StepKeepsGInv == GInv /\ [GraphNext]_graphVars => GInv'
BY SkipKeepsGInv, ReadKeepsGInv, RestKeepsGInv DEF GraphNext

LEMMA GInvIsClosure == GInv => GraphIsClosure
<1> SUFFICES ASSUME GInv PROVE GraphIsClosure
  OBVIOUS
<1>1. ASSUME loading \in {"loaded", "handed"}
      PROVE  /\ Entry \in modules
             /\ Closed(modules)
             /\ \A S \in SUBSET Path : Entry \in S /\ Closed(S) => modules \subseteq S
  <2>1. Waiting = {}
    BY <1>1, RangeEquality, EmptySeq DEF GInv, Emptied, Waiting, Range
  <2> QED
    BY <2>1 DEF GInv, Pending, Bounded, Closed
<1> QED
  BY <1>1 DEF GInv, ReadOnce, GraphIsClosure

(***************************************************************************)
(* The files, their contents' types and the bound on changes never leave   *)
(* their types (loadModuleGraph, moduleGraphFromAsts).                     *)
(***************************************************************************)
THEOREM GraphTypes == GraphSpec => []GraphTypeOK
<1>1. GInv => GraphTypeOK
  BY DEF GInv
<1> QED
  BY InitGInv, StepKeepsGInv, <1>1, PTL DEF GraphSpec

(***************************************************************************)
(* Every loaded graph is the import closure of its entry, and every file   *)
(* of it was read once (loadModuleGraph), for any imports.                 *)
(***************************************************************************)
THEOREM LoadedIsClosure == GraphSpec => []GraphIsClosure
BY InitGInv, StepKeepsGInv, GInvIsClosure, PTL DEF GraphSpec

-----------------------------------------------------------------------------
\* The frames: each is an activation of a workflow or rule of a module that was
\* read, or a part of the one below it, with steps and calls of that body.

Fields == {"sort", "file", "decl", "todo", "begun", "work", "tries", "handling", "vars", "certain", "settings"}

\* Where a call that the validator looks at comes from.
ItemOK(d, x) ==
  /\ DOMAIN x = {"call", "via", "done"}
  /\ x.via \in Via
  /\ x.via \in {"capture", "shell", "arm"} => x.call.k \in {"call", "ensure"}
  /\ x.via = "step" => \E s \in Steps(d) :
       s.op \notin {"if", "for"} /\ s.val = x.call /\ s.val.k \in {"call", "ensure", "script"}
  /\ x.via = "capture" => \E s \in Steps(d) :
       /\ s.op \notin {"if", "for"} /\ s.val.k \notin {"call", "ensure", "script", "match", "shell"}
       /\ \E i \in DOMAIN s.val.calls : s.val.calls[i] = x.call

WorkOK(d, w) == w \in Seq(Range(w)) /\ \A i \in DOMAIN w : ItemOK(d, w[i])

FrameOK(src, files, fr) ==
  /\ DOMAIN fr = Fields
  /\ fr.file \in files
  /\ fr.decl \in src[fr.file].decls
  /\ fr.decl.kind \in {"workflow", "rule"}
  /\ fr.sort \in {"branch", "handler", fr.decl.kind}
  /\ fr.todo \in Seq(Steps(fr.decl))
  /\ WorkOK(fr.decl, fr.work)
  /\ fr.begun \in BOOLEAN /\ fr.handling \in BOOLEAN
  /\ fr.begun => fr.todo # <<>>
  /\ fr.work # <<>> => fr.begun
  /\ \A n \in fr.certain : n \in DOMAIN fr.vars /\ fr.vars[n] \in {"own", "const"}

\* A branch or a handler belongs to the frame below; a branch knows what that does.
PartOf(upper, lower) ==
  /\ upper.file = lower.file
  /\ upper.decl = lower.decl
  /\ upper.sort = "branch" => lower.certain \subseteq upper.certain

IsPart(fr) == fr.sort \in {"branch", "handler"}

\* A call that goes on is the first of those to make in the frame below.
Above(upper, lower) == IF IsPart(upper) THEN PartOf(upper, lower) ELSE lower.work # <<>>

FramesOK(src, files, q) ==
  /\ q \in Seq(Range(q))
  /\ \A i \in DOMAIN q : FrameOK(src, files, q[i])
  /\ \A i \in DOMAIN q : IF i = 1 THEN ~IsPart(q[i]) ELSE Above(q[i], q[i - 1])

\* What no step changes of a frame.
SameShape(f, g) == f.sort = g.sort /\ f.file = g.file /\ f.decl = g.decl /\ f.settings = g.settings

\* What may stand on top of q instead of its last frame, and above it.
LEMMA ReplacedOK ==
  ASSUME NEW src, NEW files, NEW q, FramesOK(src, files, q), q # <<>>,
         NEW fr, FrameOK(src, files, fr),
         fr.sort = q[Len(q)].sort, fr.file = q[Len(q)].file, fr.decl = q[Len(q)].decl,
         q[Len(q)].certain \subseteq fr.certain,
         NEW g, g = [q EXCEPT ![Len(q)] = fr]
  PROVE  /\ FramesOK(src, files, g)
         /\ g # <<>>
         /\ Len(g) = Len(q)
         /\ \A j \in 1..Len(q) : g[j] = IF j = Len(q) THEN fr ELSE q[j]
<1> DEFINE n == Len(q)
<1>1. n \in Nat \ {0} /\ DOMAIN q = 1..n /\ q \in Seq(Range(q) \cup {fr})
  BY EmptySeq, LenProperties, SeqMonotonic DEF FramesOK
<1>2. /\ g \in Seq(Range(q) \cup {fr}) /\ Len(g) = n
      /\ \A j \in 1..n : g[j] = IF j = n THEN fr ELSE q[j]
  BY <1>1, ExceptSeq
<1>3. g \in Seq(Range(g)) /\ DOMAIN g = 1..n
  BY <1>2, SeqOfRange, LenProperties
<1>4. \A i \in 1..n : FrameOK(src, files, g[i])
  BY <1>1, <1>2 DEF FramesOK
<1>5. \A i \in 1..n : IF i = 1 THEN ~IsPart(g[i]) ELSE Above(g[i], g[i - 1])
  <2>1. TAKE i \in 1..n
  <2>2. IF i = 1 THEN ~IsPart(q[i]) ELSE Above(q[i], q[i - 1])
    BY <1>1, <2>1 DEF FramesOK
  <2>3. IsPart(g[i]) <=> IsPart(q[i])
    BY <1>2, <2>1 DEF IsPart
  <2>4. CASE i # 1
    <3>1. Above(q[i], q[i - 1]) /\ g[i - 1] = q[i - 1]
      BY <1>1, <1>2, <2>1, <2>2, <2>4
    <3> QED
      BY <1>2, <2>1, <2>3, <2>4, <3>1 DEF Above, PartOf
  <2> QED
    BY <2>2, <2>3, <2>4
<1>6. FramesOK(src, files, g)
  BY <1>3, <1>4, <1>5 DEF FramesOK
<1>7. g # <<>>
  BY <1>1, <1>2, EmptySeq
<1> QED
  BY <1>1, <1>2, <1>6, <1>7

LEMMA PushedOK ==
  ASSUME NEW src, NEW files, NEW q, FramesOK(src, files, q),
         NEW fr, FrameOK(src, files, fr),
         IF q = <<>> THEN ~IsPart(fr) ELSE Above(fr, q[Len(q)])
  PROVE  /\ FramesOK(src, files, Append(q, fr))
         /\ Append(q, fr) # <<>>
         /\ Len(Append(q, fr)) = Len(q) + 1
         /\ Append(q, fr)[Len(q) + 1] = fr
         /\ \A j \in 1..Len(q) : Append(q, fr)[j] = q[j]
<1> DEFINE g == Append(q, fr)
           n == Len(q)
<1>1. n \in Nat /\ DOMAIN q = 1..n /\ q \in Seq(Range(q) \cup {fr}) /\ (q # <<>> => n > 0)
  BY EmptySeq, LenProperties, SeqMonotonic DEF FramesOK
<1>2. /\ g \in Seq(Range(q) \cup {fr}) /\ Len(g) = n + 1 /\ g # <<>>
      /\ \A j \in 1..n : g[j] = q[j]
      /\ g[n + 1] = fr
  BY <1>1, AppendProperties
<1> HIDE DEF g, n
<1>3. g \in Seq(Range(g)) /\ DOMAIN g = 1..n + 1
  BY <1>2, SeqOfRange, LenProperties
<1>4. \A i \in 1..n + 1 : FrameOK(src, files, g[i])
  BY <1>1, <1>2 DEF FramesOK
<1>5. \A i \in 1..n + 1 : IF i = 1 THEN ~IsPart(g[i]) ELSE Above(g[i], g[i - 1])
  <2>1. TAKE i \in 1..n + 1
  <2>3. CASE i = n + 1
    <3>1. IF q = <<>> THEN ~IsPart(fr) ELSE Above(fr, q[n])
      BY DEF n
    <3>2. n = 0 <=> q = <<>>
      BY <1>1, EmptySeq DEF n
    <3>3. g[i] = fr /\ (i # 1 => g[i - 1] = q[n] /\ q # <<>>)
      BY <1>1, <1>2, <2>3, <3>2
    <3> QED
      BY <1>1, <2>3, <3>1, <3>2, <3>3
  <2>4. CASE i \in 1..n
    <3>1. IF i = 1 THEN ~IsPart(q[i]) ELSE Above(q[i], q[i - 1])
      BY <1>1, <2>4 DEF FramesOK
    <3>2. g[i] = q[i] /\ (i # 1 => g[i - 1] = q[i - 1])
      BY <1>1, <1>2, <2>4
    <3> QED
      BY <3>1, <3>2
  <2> QED
    BY <1>1, <2>1, <2>3, <2>4
<1>6. FramesOK(src, files, g)
  BY <1>3, <1>4, <1>5 DEF FramesOK
<1> QED
  BY <1>1, <1>2, <1>6 DEF g, n

LEMMA PrefixOK ==
  ASSUME NEW src, NEW files, NEW q, FramesOK(src, files, q), NEW k \in 0..Len(q),
         NEW g, g = SubSeq(q, 1, k)
  PROVE  /\ FramesOK(src, files, g)
         /\ Len(g) = k
         /\ \A j \in 1..k : g[j] = q[j]
         /\ k > 0 => g # <<>>
<1> DEFINE n == Len(q)
<1>1. n \in Nat /\ DOMAIN q = 1..n /\ k \in Nat /\ k <= n
  BY LenProperties DEF FramesOK
<1>2. \A j \in 1..k : q[j] \in Range(q)
  BY <1>1 DEF FramesOK, Range
<1>3. g \in Seq(Range(q)) /\ Len(g) = k /\ \A j \in 1..k : g[j] = q[j]
  BY <1>1, <1>2, SubSeqProperties
<1>4. g \in Seq(Range(g)) /\ DOMAIN g = 1..k
  BY <1>3, SeqOfRange, LenProperties
<1>5. \A i \in 1..k : FrameOK(src, files, g[i])
  BY <1>1, <1>3 DEF FramesOK
<1>6. \A i \in 1..k : IF i = 1 THEN ~IsPart(g[i]) ELSE Above(g[i], g[i - 1])
  <2>1. TAKE i \in 1..k
  <2>2. i \in DOMAIN q
    BY <1>1, <2>1
  <2>3. IF i = 1 THEN ~IsPart(q[i]) ELSE Above(q[i], q[i - 1])
    BY <2>2 DEF FramesOK
  <2>4. g[i] = q[i] /\ (i # 1 => g[i - 1] = q[i - 1])
    BY <1>1, <1>3, <2>1
  <2> QED
    BY <2>3, <2>4
<1>7. FramesOK(src, files, g)
  BY <1>4, <1>5, <1>6 DEF FramesOK
<1>8. k > 0 => g # <<>>
  BY <1>1, <1>3, EmptySeq
<1> QED
  BY <1>1, <1>3, <1>7, <1>8

LEMMA CapturesOK ==
  ASSUME NEW d, NEW v, v.calls \in Seq(Range(v.calls)), NEW via \in {"capture", "shell", "arm"},
         \A c \in Range(v.calls) : c.k \in {"call", "ensure"},
         via = "capture" => \E s \in Steps(d) :
           /\ s.op \notin {"if", "for"} /\ s.val.k \notin {"call", "ensure", "script", "match", "shell"}
           /\ s.val = v
  PROVE  WorkOK(d, Captures(v, via))
<1> DEFINE w == Captures(v, via)
           T == {ToMake(v.calls[i], via) : i \in DOMAIN v.calls}
<1>1. Len(v.calls) \in Nat /\ DOMAIN v.calls = 1..Len(v.calls)
  BY LenProperties
<1>2. w \in [1..Len(v.calls) -> T]
  BY <1>1 DEF Captures
<1> HIDE DEF w, T
<1>3. w \in Seq(T)
  BY <1>1, <1>2, SeqDef
<1> USE DEF w
<1>4. w \in Seq(Range(w))
  BY <1>3, SeqOfRange
<1>5. ASSUME NEW i \in DOMAIN w PROVE ItemOK(d, w[i])
  <2>1. i \in DOMAIN v.calls /\ w[i] = ToMake(v.calls[i], via)
    BY <1>5 DEF Captures
  <2>2. v.calls[i].k \in {"call", "ensure"}
    BY <2>1 DEF Range
  <2> QED
    BY <2>1, <2>2 DEF ItemOK, ToMake, Via
<1> QED
  BY <1>4, <1>5 DEF WorkOK

LEMMA SingleOK ==
  ASSUME NEW d, NEW x, ItemOK(d, x)
  PROVE  WorkOK(d, <<x>>)
<1>1. <<x>> \in Seq({x}) /\ Len(<<x>>) = 1 /\ <<x>>[1] = x
  OBVIOUS
<1>2. <<x>> \in Seq(Range(<<x>>)) /\ DOMAIN <<x>> = 1..1
  BY <1>1, SeqOfRange, LenProperties
<1>3. \A i \in 1..1 : <<x>>[i] = x
  BY <1>1
<1> QED
  BY <1>2, <1>3 DEF WorkOK

LEMMA NothingOK == ASSUME NEW d PROVE WorkOK(d, <<>>)
<1>1. <<>> \in Seq({}) /\ DOMAIN <<>> = 1..0
  OBVIOUS
<1> QED
  BY <1>1, SeqOfRange DEF WorkOK

\* Whatever way a step's value is computed, its calls are from where they say.
LEMMA WorkIsOK ==
  ASSUME NEW d, NEW s \in Steps(d), s.op \notin {"if", "for"},
         \A v \in {s.val} \cup Range(s.val.calls) : v.calls \in Seq(Range(v.calls)),
         \A v \in IF s.val.k = "match" THEN Range(s.val.calls) ELSE {s.val} :
           \A c \in Range(v.calls) : c.k \in {"call", "ensure"},
         NEW w \in Work(s)
  PROVE  WorkOK(d, w)
<1> DEFINE v == s.val
<1>1. CASE v.k \in {"call", "ensure", "script"}
  <2>1. w = <<ToMake(v, "step")>>
    BY <1>1 DEF Work
  <2>2. ItemOK(d, ToMake(v, "step"))
    BY <1>1 DEF ItemOK, ToMake, Via
  <2> QED
    BY <2>1, <2>2, SingleOK
<1>2. CASE v.k = "match"
  <2>1. PICK a \in Range(v.calls) :
          w = IF a.k \in {"call", "ensure"} THEN <<ToMake(a, "arm")>> ELSE Captures(a, "arm")
    BY <1>2 DEF Work
  <2>2. a.calls \in Seq(Range(a.calls)) /\ \A c \in Range(a.calls) : c.k \in {"call", "ensure"}
    BY <1>2
  <2>3. a.k \in {"call", "ensure"} => ItemOK(d, ToMake(a, "arm"))
    BY DEF ItemOK, ToMake, Via
  <2>4. WorkOK(d, Captures(a, "arm"))
    BY <2>2, CapturesOK
  <2> QED
    BY <2>1, <2>3, <2>4, SingleOK
<1>3. CASE v.k = "shell"
  <2>1. w = <<>> \/ w = Captures(v, "shell")
    BY <1>3 DEF Work
  <2>2. v.calls \in Seq(Range(v.calls)) /\ \A c \in Range(v.calls) : c.k \in {"call", "ensure"}
    BY <1>3
  <2> HIDE DEF v
  <2>3. WorkOK(d, Captures(v, "shell"))
    BY <2>2, CapturesOK
  <2> QED
    BY <2>1, <2>3, NothingOK
<1>4. CASE v.k \notin {"call", "ensure", "script", "match", "shell"}
  <2>1. w = Captures(v, "capture")
    BY <1>4 DEF Work
  <2>2. v.calls \in Seq(Range(v.calls)) /\ \A c \in Range(v.calls) : c.k \in {"call", "ensure"}
    BY <1>4
  <2>3. \E x \in Steps(d) : /\ x.op \notin {"if", "for"} /\ x.val.k \notin {"call", "ensure", "script", "match", "shell"}
                            /\ x.val = v
    BY <1>4
  <2> HIDE DEF v
  <2> QED
    BY <2>1, <2>2, <2>3, CapturesOK
<1> QED
  BY <1>1, <1>2, <1>3, <1>4

-----------------------------------------------------------------------------
\* The steps that only change the frame on top.

SourceOK == \A p \in Path : ParserGives(source[p])

\* What the lemmas below take for granted of a state in which steps run.
Steady ==
  /\ SourceOK
  /\ modules \subseteq Path
  /\ FramesOK(source, modules, frames)
  /\ frames # <<>>

LEMMA TopIsOK ==
  ASSUME Steady
  PROVE  /\ Len(frames) \in Nat /\ Len(frames) > 0
         /\ DOMAIN frames = 1..Len(frames)
         /\ Top = frames[Len(frames)]
         /\ FrameOK(source, modules, Top)
<1>1. Len(frames) \in Nat \ {0} /\ DOMAIN frames = 1..Len(frames)
  BY EmptySeq, LenProperties DEF Steady, FramesOK
<1>2. Top = frames[Len(frames)]
  BY DEF Top, Last
<1>3. FrameOK(source, modules, Top)
  BY <1>1, <1>2 DEF Steady, FramesOK
<1> QED
  BY <1>1, <1>2, <1>3

\* What the parser says of the step that is on.
LEMMA StepIsOK ==
  ASSUME Steady, Top.todo # <<>>
  PROVE  /\ Step \in Steps(Top.decl)
         /\ Tail(Top.todo) \in Seq(Steps(Top.decl))
         /\ Step.body \in Seq(Steps(Top.decl)) /\ Step.els \in Seq(Steps(Top.decl))
         /\ \A v \in {Step.val} \cup Range(Step.val.calls) : v.calls \in Seq(Range(v.calls))
         /\ \A v \in IF Step.val.k = "match" THEN Range(Step.val.calls) ELSE {Step.val} :
              \A c \in Range(v.calls) : c.k \in {"call", "ensure"}
         /\ Step.guard # "none" => Step.op = "exec"
<1>1. FrameOK(source, modules, Top)
  BY TopIsOK
<1>2. Top.todo \in Seq(Steps(Top.decl)) /\ Top.decl \in source[Top.file].decls /\ Top.file \in Path
  BY <1>1 DEF FrameOK, Steady
<1>3. Step \in Steps(Top.decl) /\ Tail(Top.todo) \in Seq(Steps(Top.decl))
  BY <1>2, HeadTailProperties DEF Step
<1>4. ParserGives(source[Top.file])
  BY <1>2 DEF Steady, SourceOK
<1> QED
  BY <1>2, <1>3, <1>4 DEF ParserGives

LEMMA ChangedTopOK ==
  ASSUME Steady, NEW fr, FrameOK(source, modules, fr),
         fr.sort = Top.sort, fr.file = Top.file, fr.decl = Top.decl, Top.certain \subseteq fr.certain
  PROVE  FramesOK(source, modules, Replace(fr))
<1>1. Top = frames[Len(frames)]
  BY TopIsOK
<1>2. /\ fr.sort = frames[Len(frames)].sort /\ fr.file = frames[Len(frames)].file
      /\ fr.decl = frames[Len(frames)].decl /\ frames[Len(frames)].certain \subseteq fr.certain
  BY <1>1
<1>3. FramesOK(source, modules, frames) /\ frames # <<>>
  BY DEF Steady
<1> DEFINE g == Replace(fr)
<1>4. g = [frames EXCEPT ![Len(frames)] = fr]
  BY DEF Replace
<1> HIDE DEF g
<1>5. FramesOK(source, modules, g)
  BY <1>2, <1>3, <1>4, ReplacedOK
<1> QED
  BY <1>5 DEF g

LEMMA LastReplaced ==
  ASSUME NEW S, NEW q \in Seq(S), q # <<>>, NEW fr
  PROVE  LET g == [q EXCEPT ![Len(q)] = fr]
         IN  /\ g # <<>>
             /\ Len(g) = Len(q)
             /\ DOMAIN g = DOMAIN q
             /\ \A j \in DOMAIN q : g[j] = IF j = Len(q) THEN fr ELSE q[j]
<1> DEFINE g == [q EXCEPT ![Len(q)] = fr]
<1>1. Len(q) \in Nat \ {0} /\ DOMAIN q = 1..Len(q) /\ q \in Seq(S \cup {fr})
  BY EmptySeq, LenProperties, SeqMonotonic
<1>2. g \in Seq(S \cup {fr}) /\ Len(g) = Len(q) /\ DOMAIN g = DOMAIN q
  BY <1>1, ExceptSeq
<1>3. \A j \in DOMAIN q : g[j] = IF j = Len(q) THEN fr ELSE q[j]
  BY <1>1
<1>4. g # <<>>
  BY <1>1, <1>2, EmptySeq
<1> QED
  BY <1>2, <1>3, <1>4

\* The other frames, and how many there are, stay as they were.
LEMMA ChangedTop ==
  ASSUME Steady, NEW fr
  PROVE  /\ Replace(fr) # <<>>
         /\ Len(Replace(fr)) = Len(frames)
         /\ DOMAIN Replace(fr) = DOMAIN frames
         /\ \A j \in DOMAIN frames : Replace(fr)[j] = IF j = Len(frames) THEN fr ELSE frames[j]
<1>1. frames \in Seq(Range(frames)) /\ frames # <<>>
  BY DEF Steady, FramesOK
<1> QED
  BY <1>1, LastReplaced, Zenon DEF Replace

LEMMA WorkTailOK ==
  ASSUME NEW d, NEW w, WorkOK(d, w), w # <<>>
  PROVE  WorkOK(d, Tail(w)) /\ ItemOK(d, Head(w))
<1>1. Len(w) \in Nat \ {0} /\ DOMAIN w = 1..Len(w) /\ w \in Seq(Range(w))
  BY EmptySeq, LenProperties DEF WorkOK
<1>2. /\ Tail(w) \in Seq(Range(w)) /\ Len(Tail(w)) = Len(w) - 1 /\ Head(w) = w[1]
      /\ \A i \in 1..Len(Tail(w)) : Tail(w)[i] = w[i + 1]
  BY <1>1, HeadTailProperties
<1>3. Tail(w) \in Seq(Range(Tail(w))) /\ DOMAIN Tail(w) = 1..Len(Tail(w))
  BY <1>2, SeqOfRange, LenProperties
<1>4. \A i \in 1..Len(Tail(w)) : ItemOK(d, Tail(w)[i])
  BY <1>1, <1>2 DEF WorkOK
<1>5. ItemOK(d, Head(w))
  BY <1>1, <1>2 DEF WorkOK
<1>6. WorkOK(d, Tail(w))
  BY <1>3, <1>4 DEF WorkOK
<1> QED
  BY <1>5, <1>6

LEMMA BeginOK ==
  ASSUME Steady, Begin
  PROVE  FramesOK(source, modules, frames')
<1>1. Top.todo # <<>> /\ Step.op \notin {"if", "for"}
  BY DEF Begin, Fresh
<1>2. PICK w \in Work(Step) : frames' = Replace([Top EXCEPT !.begun = TRUE, !.work = w])
  BY DEF Begin
<1> DEFINE fr == [Top EXCEPT !.begun = TRUE, !.work = w]
<1>3. FrameOK(source, modules, Top)
  BY TopIsOK
<1>4. WorkOK(Top.decl, w)
  BY <1>1, <1>2, StepIsOK, WorkIsOK
<1>5. /\ FrameOK(source, modules, fr)
      /\ fr.sort = Top.sort /\ fr.file = Top.file /\ fr.decl = Top.decl /\ fr.certain = Top.certain
  BY <1>1, <1>3, <1>4 DEF FrameOK, Fields
<1> HIDE DEF fr
<1>6. FramesOK(source, modules, Replace(fr))
  BY <1>5, ChangedTopOK
<1> QED
  BY <1>2, <1>6 DEF fr

LEMMA NoLinesOK ==
  ASSUME Steady, NoLines
  PROVE  FramesOK(source, modules, frames')
<1> DEFINE fr == [Top EXCEPT !.todo = Tail(@)]
<1>1. Top.todo # <<>> /\ ~Top.begun /\ frames' = Replace(fr)
  BY DEF NoLines, Fresh
<1>2. FrameOK(source, modules, Top) /\ Tail(Top.todo) \in Seq(Steps(Top.decl))
  BY <1>1, TopIsOK, StepIsOK
<1>3. /\ FrameOK(source, modules, fr)
      /\ fr.sort = Top.sort /\ fr.file = Top.file /\ fr.decl = Top.decl /\ fr.certain = Top.certain
  BY <1>1, <1>2 DEF FrameOK, Fields
<1> HIDE DEF fr
<1>4. FramesOK(source, modules, Replace(fr))
  BY <1>3, ChangedTopOK
<1> QED
  BY <1>1, <1>4

LEMMA CallSucceededOK ==
  ASSUME Steady, CallSucceeded, Top.work # <<>>
  PROVE  FramesOK(source, modules, frames')
<1> DEFINE fr == [Top EXCEPT !.work = Tail(@)]
<1>1. frames' = Replace(fr)
  BY DEF CallSucceeded
<1>2. FrameOK(source, modules, Top)
  BY TopIsOK
<1>3. WorkOK(Top.decl, Tail(Top.work))
  BY <1>2, WorkTailOK DEF FrameOK
<1>4. /\ FrameOK(source, modules, fr)
      /\ fr.sort = Top.sort /\ fr.file = Top.file /\ fr.decl = Top.decl /\ fr.certain = Top.certain
  BY <1>2, <1>3 DEF FrameOK, Fields
<1> HIDE DEF fr
<1>5. FramesOK(source, modules, Replace(fr))
  BY <1>4, ChangedTopOK
<1> QED
  BY <1>1, <1>5

LEMMA CallArgumentOK ==
  ASSUME Steady, CallArgument
  PROVE  FramesOK(source, modules, frames')
<1>1. PICK i \in Unmade(Item) : frames' = Replace([Top EXCEPT !.work =
        <<ToMake(Item.call.args[i].val, "nested"), [Item EXCEPT !.done = i]>> \o Tail(@)])
  BY DEF CallArgument
<1> DEFINE a == ToMake(Item.call.args[i].val, "nested")
           b == [Item EXCEPT !.done = i]
           t == Tail(Top.work)
           w == <<a, b>> \o t
           fr == [Top EXCEPT !.work = w]
<1>2. FrameOK(source, modules, Top) /\ Top.work # <<>>
  BY TopIsOK DEF CallArgument, Working
<1>3. WorkOK(Top.decl, t) /\ ItemOK(Top.decl, Item)
  BY <1>2, WorkTailOK DEF FrameOK, Item
<1>4. ItemOK(Top.decl, a)
  BY DEF ItemOK, ToMake, Via
<1>5. ItemOK(Top.decl, b)
  BY <1>3 DEF ItemOK
<1>6. WorkOK(Top.decl, w)
  <2> HIDE DEF a, b, t
  <2>1. <<a, b>> \in Seq({a, b} \cup Range(t)) /\ t \in Seq({a, b} \cup Range(t)) /\ Len(<<a, b>>) = 2
    BY <1>3, SeqMonotonic DEF WorkOK
  <2>2. /\ w \in Seq({a, b} \cup Range(t)) /\ Len(w) = 2 + Len(t)
        /\ \A k \in 1..2 + Len(t) : w[k] = IF k <= 2 THEN <<a, b>>[k] ELSE t[k - 2]
    BY <2>1, ConcatProperties
  <2>3. w \in Seq(Range(w)) /\ DOMAIN w = 1..2 + Len(t)
    BY <2>2, SeqOfRange, LenProperties
  <2>4. Len(t) \in Nat /\ DOMAIN t = 1..Len(t)
    BY <2>1, LenProperties
  <2>5. ASSUME NEW k \in 1..2 + Len(t) PROVE ItemOK(Top.decl, w[k])
    <3>1. k = 1 \/ k = 2 \/ k - 2 \in 1..Len(t)
      BY <2>4
    <3>2. w[k] \in {a, b} \/ (k - 2 \in 1..Len(t) /\ w[k] = t[k - 2])
      BY <2>2, <2>4, <3>1
    <3> QED
      BY <1>3, <1>4, <1>5, <2>4, <3>2 DEF WorkOK
  <2> QED
    BY <2>3, <2>5 DEF WorkOK
<1>7. /\ FrameOK(source, modules, fr)
      /\ fr.sort = Top.sort /\ fr.file = Top.file /\ fr.decl = Top.decl /\ fr.certain = Top.certain
  <2> HIDE DEF w
  <2> QED
    BY <1>2, <1>6 DEF FrameOK, Fields
<1>8. frames' = Replace(fr)
  BY <1>1
<1> HIDE DEF fr
<1>9. FramesOK(source, modules, Replace(fr))
  BY <1>7, ChangedTopOK
<1> QED
  BY <1>8, <1>9

LEMMA FinishOK ==
  ASSUME Steady, Finish
  PROVE  FramesOK(source, modules, frames')
<1>1. FrameOK(source, modules, Top) /\ Top.work = <<>> /\ Tail(Top.todo) \in Seq(Steps(Top.decl))
  <2>1. FrameOK(source, modules, Top)
    BY TopIsOK
  <2>2. Top.begun /\ Top.work = <<>>
    BY DEF Finish, Computed
  <2>3. Top.todo # <<>>
    BY <2>1, <2>2 DEF FrameOK
  <2> QED
    BY <2>1, <2>2, <2>3, StepIsOK
<1>2. CASE Top.handling /\ Step.guard = "recover"
  <2> DEFINE fr == [Top EXCEPT !.begun = FALSE, !.handling = FALSE]
  <2>1. frames' = Replace(fr)
    BY <1>2 DEF Finish
  <2>2. /\ FrameOK(source, modules, fr)
        /\ fr.sort = Top.sort /\ fr.file = Top.file /\ fr.decl = Top.decl /\ fr.certain = Top.certain
    BY <1>1 DEF FrameOK, Fields
  <2> HIDE DEF fr
  <2>3. FramesOK(source, modules, Replace(fr))
    BY <2>2, ChangedTopOK
  <2> QED
    BY <2>1, <2>3
<1>3. CASE ~(Top.handling /\ Step.guard = "recover")
  <2> DEFINE names == IF Step.op = "const" THEN Bound(Step) ELSE {}
             vs == Upon(Own(names), Top.vars)
             cs == Top.certain \cup names
             fr == [Top EXCEPT !.begun = FALSE, !.handling = FALSE, !.tries = 0,
                               !.todo = Tail(@), !.vars = vs, !.certain = cs]
  <2>1. frames' = Replace(fr)
    BY <1>3 DEF Finish
  <2>2. \A n \in cs : n \in DOMAIN vs /\ vs[n] \in {"own", "const"}
    BY <1>1 DEF FrameOK, Upon, Own
  <2> HIDE DEF names, vs
  <2>3. /\ FrameOK(source, modules, fr)
        /\ fr.sort = Top.sort /\ fr.file = Top.file /\ fr.decl = Top.decl /\ Top.certain \subseteq fr.certain
    BY <1>1, <2>2 DEF FrameOK, Fields
  <2> HIDE DEF fr
  <2>4. FramesOK(source, modules, Replace(fr))
    BY <2>3, ChangedTopOK
  <2> QED
    BY <2>1, <2>4
<1> QED
  BY <1>2, <1>3

-----------------------------------------------------------------------------
\* The steps that put a frame on top of the others.

LEMMA PartPushedOK ==
  ASSUME Steady, NEW below, FrameOK(source, modules, below),
         below.sort = Top.sort, below.file = Top.file, below.decl = Top.decl, below.certain = Top.certain,
         NEW fr, FrameOK(source, modules, fr), IsPart(fr), PartOf(fr, below)
  PROVE  /\ FramesOK(source, modules, Push(fr, below))
         /\ Push(fr, below) # <<>>
         /\ Len(Push(fr, below)) = Len(frames) + 1
         /\ Push(fr, below)[Len(frames) + 1] = fr
         /\ \A j \in DOMAIN frames : Push(fr, below)[j] = IF j = Len(frames) THEN below ELSE frames[j]
<1> DEFINE g == Replace(below)
           h == Append(g, fr)
<1>1. /\ Len(frames) \in Nat /\ Len(frames) > 0 /\ DOMAIN frames = 1..Len(frames)
  BY TopIsOK
<1>2. FramesOK(source, modules, g)
  BY ChangedTopOK
<1>3. /\ g # <<>> /\ Len(g) = Len(frames)
      /\ \A j \in DOMAIN frames : g[j] = IF j = Len(frames) THEN below ELSE frames[j]
  BY ChangedTop
<1>4. h = Push(fr, below)
  BY DEF Push
<1> HIDE DEF g, h
<1>5. g[Len(g)] = below
  BY <1>1, <1>3
<1>6. IF g = <<>> THEN ~IsPart(fr) ELSE Above(fr, g[Len(g)])
  BY <1>3, <1>5 DEF Above
<1>7. FramesOK(source, modules, Append(g, fr))
  BY <1>2, <1>6, PushedOK
<1>8. Append(g, fr) # <<>>
  BY <1>2, <1>6, PushedOK
<1>9. Len(Append(g, fr)) = Len(g) + 1
  BY <1>2, <1>6, PushedOK
<1>10. Append(g, fr)[Len(g) + 1] = fr
  BY <1>2, <1>6, PushedOK
<1>11. \A j \in 1..Len(g) : Append(g, fr)[j] = g[j]
  BY <1>2, <1>6, PushedOK
<1>12. h = Append(g, fr)
  BY DEF h
<1>13. FramesOK(source, modules, h)
  BY <1>7, <1>12
<1>14. /\ h # <<>>
       /\ Len(h) = Len(frames) + 1
       /\ h[Len(frames) + 1] = fr
       /\ \A j \in DOMAIN frames : h[j] = IF j = Len(frames) THEN below ELSE frames[j]
  BY <1>1, <1>3, <1>8, <1>9, <1>10, <1>11, <1>12
<1> QED
  BY <1>4, <1>13, <1>14

LEMMA RepeatedOK ==
  ASSUME NEW S, NEW body \in Seq(S), NEW n \in Nat
  PROVE  Repeated(n, body) \in Seq(S)
<1> DEFINE k == Len(body)
<1>1. k \in Nat /\ DOMAIN body = 1..k /\ \A i \in 1..k : body[i] \in S
  BY LenProperties, ElementOfSeq
<1>2. n * k \in Nat
  BY <1>1
<1>3. CASE k = 0
  <2>1. n * k = 0
    BY <1>3
  <2>2. Repeated(n, body) = [i \in 1..0 |-> body[((i - 1) % k) + 1]]
    BY <2>1 DEF Repeated
  <2>3. Repeated(n, body) \in [1..0 -> S]
    BY <2>2
  <2> QED
    BY <2>3, SeqDef
<1>4. CASE k # 0
  <2>1. \A i \in Nat \ {0} : ((i - 1) % k) + 1 \in 1..k
    BY <1>1, <1>4
  <2>2. \A i \in 1..n * k : i \in Nat \ {0}
    BY <1>2
  <2>3. Repeated(n, body) = [i \in 1..n * k |-> body[((i - 1) % k) + 1]]
    BY DEF Repeated
  <2>4. \A i \in 1..n * k : body[((i - 1) % k) + 1] \in S
    BY <1>1, <2>1, <2>2
  <2>5. Repeated(n, body) \in [1..n * k -> S]
    BY <2>3, <2>4
  <2> QED
    BY <1>2, <2>5, SeqDef
<1> QED
  BY <1>3, <1>4

\* A branch or handler that knows what the frame below it does, and more.
LEMMA PartIsOK ==
  ASSUME NEW low, FrameOK(source, modules, low),
         NEW sort \in {"branch", "handler"}, NEW todo \in Seq(Steps(low.decl)), NEW vs, NEW cs,
         low.certain \subseteq cs,
         \A n \in cs : n \in DOMAIN vs /\ vs[n] \in {"own", "const"},
         NEW settings
  PROVE  /\ FrameOK(source, modules, Frame(sort, low.file, low.decl, todo, vs, cs, settings))
         /\ IsPart(Frame(sort, low.file, low.decl, todo, vs, cs, settings))
         /\ PartOf(Frame(sort, low.file, low.decl, todo, vs, cs, settings), low)
<1>1. WorkOK(low.decl, <<>>)
  BY NothingOK
<1> QED
  BY <1>1 DEF FrameOK, Fields, Frame, IsPart, PartOf

\* A step that adds a branch or a handler.
Parted ==
  /\ Len(frames') = Len(frames) + 1
  /\ \A j \in DOMAIN frames : SameShape(frames'[j], frames[j])
  /\ IsPart(frames'[Len(frames) + 1])
  /\ frames'[Len(frames) + 1].file = Top.file
  /\ frames'[Len(frames) + 1].decl = Top.decl
  /\ frames'[Len(frames) + 1].settings = Top.settings

LEMMA PushParts ==
  ASSUME Steady, NEW below, FrameOK(source, modules, below),
         SameShape(below, Top), below.certain = Top.certain,
         NEW fr, FrameOK(source, modules, fr), IsPart(fr), PartOf(fr, below), fr.settings = Top.settings,
         frames' = Push(fr, below)
  PROVE  FramesOK(source, modules, frames') /\ frames' # <<>> /\ Parted
<1>1. below.sort = Top.sort /\ below.file = Top.file /\ below.decl = Top.decl
  BY DEF SameShape
<1>2. FramesOK(source, modules, Push(fr, below))
  BY <1>1, PartPushedOK
<1>3. /\ Push(fr, below) # <<>>
      /\ Len(Push(fr, below)) = Len(frames) + 1
      /\ Push(fr, below)[Len(frames) + 1] = fr
      /\ \A j \in DOMAIN frames : Push(fr, below)[j] = IF j = Len(frames) THEN below ELSE frames[j]
  BY <1>1, PartPushedOK
<1>4. fr.file = Top.file /\ fr.decl = Top.decl
  BY <1>1 DEF PartOf
<1>5. \A j \in DOMAIN frames : SameShape(frames'[j], frames[j])
  <2>1. TAKE j \in DOMAIN frames
  <2>2. frames'[j] = IF j = Len(frames) THEN below ELSE frames[j]
    BY <1>3
  <2>3. Top = frames[Len(frames)]
    BY TopIsOK
  <2> QED
    BY <2>2, <2>3 DEF SameShape
<1> QED
  BY <1>2, <1>3, <1>4, <1>5 DEF Parted

LEMMA EnterBranchOK ==
  ASSUME Steady, EnterBranch
  PROVE  FramesOK(source, modules, frames') /\ frames' # <<>> /\ Parted
<1> DEFINE below == [Top EXCEPT !.begun = TRUE]
<1>1. FrameOK(source, modules, Top) /\ Top.todo # <<>> /\ ~Top.begun
  BY TopIsOK DEF EnterBranch, Fresh
<1>2. /\ FrameOK(source, modules, below)
      /\ below.file = Top.file /\ below.decl = Top.decl
      /\ below.certain = Top.certain /\ below.vars = Top.vars
      /\ SameShape(below, Top)
  BY <1>1 DEF FrameOK, Fields, SameShape
<1>3. Step.body \in Seq(Steps(Top.decl)) /\ Step.els \in Seq(Steps(Top.decl))
  BY <1>1, StepIsOK
<1>4. PICK b, vs, cs :
        /\ b \in Seq(Steps(Top.decl))
        /\ Top.certain \subseteq cs
        /\ \A n \in cs : n \in DOMAIN vs /\ vs[n] \in {"own", "const"}
        /\ frames' = Push(Frame("branch", Top.file, Top.decl, b, vs, cs, Top.settings), below)
  <2>1. CASE Step.op = "if"
    <3>1. PICK b \in {Step.body, Step.els} :
            frames' = Push(Frame("branch", Top.file, Top.decl, b, Top.vars, Top.certain, Top.settings), below)
      BY <2>1 DEF EnterBranch
    <3>2. b \in Seq(Steps(Top.decl))
      BY <1>3
    <3>3. \A n \in Top.certain : n \in DOMAIN Top.vars /\ Top.vars[n] \in {"own", "const"}
      BY <1>1 DEF FrameOK
    <3> QED
      BY <3>1, <3>2, <3>3
  <2>2. CASE Step.op = "for"
    <3> DEFINE vs == Upon(Own({Step.name}), Top.vars)
               cs == Top.certain \cup {Step.name}
    <3>1. PICK n \in 1..MaxLines :
            frames' = Push(Frame("branch", Top.file, Top.decl, Repeated(n, Step.body), vs, cs, Top.settings), below)
      BY <2>2 DEF EnterBranch
    <3>2. Repeated(n, Step.body) \in Seq(Steps(Top.decl))
      BY <1>3, RepeatedOK, DispatchBounds
    <3>3. \A x \in cs : x \in DOMAIN vs /\ vs[x] \in {"own", "const"}
      BY <1>1 DEF FrameOK, Upon, Own
    <3>4. Top.certain \subseteq cs
      OBVIOUS
    <3> HIDE DEF vs, cs
    <3> QED
      BY <3>1, <3>2, <3>3, <3>4
  <2> QED
    BY <2>1, <2>2 DEF EnterBranch
<1> DEFINE fr == Frame("branch", below.file, below.decl, b, vs, cs, Top.settings)
<1>5. frames' = Push(fr, below)
  BY <1>2, <1>4
<1> HIDE DEF below
<1>6. below.certain \subseteq cs /\ b \in Seq(Steps(below.decl))
  BY <1>2, <1>4
<1>7. FrameOK(source, modules, fr) /\ IsPart(fr) /\ PartOf(fr, below)
  BY <1>2, <1>4, <1>6, PartIsOK
<1>8. fr.settings = Top.settings
  BY DEF Frame
<1> HIDE DEF fr
<1> QED
  BY <1>2, <1>5, <1>7, <1>8, PushParts

LEMMA HandleOK ==
  ASSUME Steady, Handle
  PROVE  FramesOK(source, modules, frames') /\ frames' # <<>> /\ Parted
<1> DEFINE below == [Top EXCEPT !.work = <<>>, !.handling = TRUE, !.tries = @ + 1]
           vs == Upon(Own({Step.name}), Top.vars)
           cs == Top.certain \cup {Step.name}
           fr == Frame("handler", below.file, below.decl, Step.body, vs, cs, Top.settings)
<1>1. FrameOK(source, modules, Top) /\ Top.todo # <<>>
  BY TopIsOK DEF Handle, Handled
<1>2. WorkOK(Top.decl, <<>>)
  BY NothingOK
<1>3. /\ FrameOK(source, modules, below)
      /\ below.file = Top.file /\ below.decl = Top.decl
      /\ below.certain = Top.certain
      /\ SameShape(below, Top)
  BY <1>1, <1>2 DEF FrameOK, Fields, SameShape
<1>4. frames' = Push(fr, below)
  BY <1>3 DEF Handle
<1>5. \A n \in cs : n \in DOMAIN vs /\ vs[n] \in {"own", "const"}
  BY <1>1 DEF FrameOK, Upon, Own
<1>6. Step.body \in Seq(Steps(below.decl)) /\ below.certain \subseteq cs
  BY <1>1, <1>3, StepIsOK
<1> HIDE DEF below, vs, cs
<1>7. FrameOK(source, modules, fr) /\ IsPart(fr) /\ PartOf(fr, below)
  BY <1>3, <1>5, <1>6, PartIsOK
<1>8. fr.settings = Top.settings
  BY DEF Frame
<1> HIDE DEF fr
<1> QED
  BY <1>3, <1>4, <1>7, <1>8, PushParts

LEMMA HomeIsRead ==
  ASSUME NEW file \in modules, modules \subseteq Path, NEW ref, Home(file, ref) # NoTarget
  PROVE  Home(file, ref) \in modules
BY DEF Home

\* A callee knows its parameters and its module's constants, whoever calls it.
LEMMA ActivationOK ==
  ASSUME SourceOK, modules \subseteq Path, NEW file \in modules, NEW d \in source[file].decls,
         d.kind \in {"workflow", "rule"}, NEW args, NEW caller
  PROVE  /\ FrameOK(source, modules, Activation(file, d, args, caller))
         /\ ~IsPart(Activation(file, d, args, caller))
         /\ Activation(file, d, args, caller).sort = d.kind
         /\ Activation(file, d, args, caller).decl = d
<1> DEFINE given == Given(d, args)
           vs == Variables(file, given, caller)
           cs == given \cup source[file].consts
<1>1. \A n \in cs : n \in DOMAIN vs /\ vs[n] \in {"own", "const"}
  BY DEF Variables, Upon, Own, Constants
<1>2. d.steps \in Seq(Steps(d))
  BY DEF SourceOK, ParserGives
<1>3. WorkOK(d, <<>>)
  BY NothingOK
<1>4. PICK settings : Activation(file, d, args, caller) = Frame(d.kind, file, d, d.steps, vs, cs, settings)
  BY DEF Activation
<1> HIDE DEF vs, cs
<1> QED
  BY <1>1, <1>2, <1>3, <1>4 DEF FrameOK, Fields, Frame, IsPart

LEMMA CallModuleOK ==
  ASSUME Steady, CallModule
  PROVE  FramesOK(source, modules, frames') /\ frames' # <<>>
<1>1. PICK c \in Callee(Top.file, Item.call) :
        /\ c.kind \in {"workflow", "rule"}
        /\ \/ frames' = Append(frames, Activation(Home(Top.file, Item.call.ref), c, Item.call.args, Top))
           \/ UNCHANGED frames
  BY DEF CallModule
<1> DEFINE t == Home(Top.file, Item.call.ref)
           fr == Activation(t, c, Item.call.args, Top)
<1>2. /\ FrameOK(source, modules, Top) /\ Top = frames[Len(frames)] /\ Top.work # <<>>
  BY TopIsOK DEF CallModule, Calling, Working
<1>3. t \in modules /\ c \in source[t].decls
  BY <1>2, HomeIsRead DEF FrameOK, Callee, Declared, Steady
<1>4. FrameOK(source, modules, fr) /\ ~IsPart(fr)
  BY <1>1, <1>3, ActivationOK DEF Steady
<1> HIDE DEF fr
<1>5. IF frames = <<>> THEN ~IsPart(fr) ELSE Above(fr, frames[Len(frames)])
  BY <1>2, <1>4 DEF Above
<1>6. FramesOK(source, modules, Append(frames, fr))
  BY <1>4, <1>5, PushedOK DEF Steady
<1>7. Append(frames, fr) # <<>>
  BY <1>4, <1>5, PushedOK DEF Steady
<1> QED
  BY <1>1, <1>6, <1>7 DEF Steady, fr

-----------------------------------------------------------------------------
\* The steps that take frames away.

LEMMA GreatestExists ==
  ASSUME NEW n \in Nat, NEW S \in SUBSET (1..n), S # {}
  PROVE  \E x \in S : \A y \in S : y <= x
<1> DEFINE Less == {p \in Nat \X Nat : p[1] < p[2]}
           T == {n - y : y \in S}
<1>1. T \in SUBSET Nat /\ T # {}
  <2>1. \A y \in S : y \in 1..n
    OBVIOUS
  <2>2. \A y \in 1..n : n - y \in Nat
    OBVIOUS
  <2> QED
    BY <2>1, <2>2
<1>2. IsWellFoundedOn(Less, Nat)
  BY NatLessThanWellFounded DEF OpToRel
<1>3. \E x \in T : \A y \in T : ~ (<<y, x>> \in Less)
  <2> HIDE DEF Less, T
  <2> QED
    BY <1>1, <1>2, WFMin
<1>4. PICK x \in T : \A y \in T : ~ (<<y, x>> \in Less)
  BY <1>3
<1>5. PICK m \in S : x = n - m
  BY <1>4
<1>6. ASSUME NEW y \in S PROVE y <= m
  <2>1. ~ (<<n - y, x>> \in Less)
    BY <1>4
  <2>2. ~ (n - y < x)
    BY <2>1, <1>1, <1>5
  <2> QED
    BY <2>2, <1>5
<1> QED
  BY <1>6

LEMMA SortsAre ==
  ASSUME Steady, NEW i \in DOMAIN frames
  PROVE  /\ frames[i].sort \in {"branch", "handler", "workflow", "rule"}
         /\ IsPart(frames[i]) <=> frames[i].sort \notin {"workflow", "rule"}
<1>1. FrameOK(source, modules, frames[i])
  BY DEF Steady, FramesOK
<1> QED
  BY <1>1 DEF FrameOK, IsPart

\* There always is an activation, and above it only parts of it.
LEMMA CurrentIs ==
  ASSUME Steady
  PROVE  /\ Current \in DOMAIN frames
         /\ ~IsPart(frames[Current])
         /\ \A j \in Current + 1 .. Len(frames) : IsPart(frames[j])
<1> DEFINE n == Len(frames)
           S == {i \in 1..n : ~IsPart(frames[i])}
<1>1. n \in Nat /\ n > 0 /\ DOMAIN frames = 1..n
  BY TopIsOK
<1>2. 1 \in S
  BY <1>1 DEF Steady, FramesOK
<1> HIDE DEF n
<1>3. PICK x \in S : \A y \in S : y <= x
  <2>1. S \in SUBSET (1..n) /\ S # {}
    BY <1>2
  <2> HIDE DEF S
  <2> QED
    BY <1>1, <2>1, GreatestExists
<1>4. \A j \in x + 1 .. n : IsPart(frames[j])
  BY <1>1, <1>3
<1>5. /\ frames[x].sort \in {"workflow", "rule"}
      /\ \A j \in x + 1 .. n : frames[j].sort \in {"branch", "handler"}
  BY <1>1, <1>3, <1>4, SortsAre DEF IsPart
<1> DEFINE P(i) == /\ frames[i].sort \in {"workflow", "rule"}
                   /\ \A j \in i + 1 .. Len(frames) : frames[j].sort \in {"branch", "handler"}
<1>6. Current \in DOMAIN frames /\ P(Current)
  <2>1. Current = CHOOSE i \in DOMAIN frames : P(i)
    BY DEF Current
  <2>2. x \in DOMAIN frames /\ P(x)
    BY <1>1, <1>3, <1>5 DEF n
  <2> HIDE DEF P
  <2> QED
    BY <2>1, <2>2
<1> QED
  BY <1>6, SortsAre DEF IsPart

\* What is left when the call in the frame above the first k has ended.
LEMMA LeftOK ==
  ASSUME Steady, NEW k \in Nat, k + 1 \in DOMAIN frames, NEW g, g = SubSeq(frames, 1, k)
  PROVE  /\ FramesOK(source, modules, g)
         /\ Len(g) = k
         /\ \A j \in 1..k : g[j] = frames[j]
         /\ k > 0 => g # <<>>
         /\ k = 0 => g = <<>>
         /\ k > 0 /\ ~IsPart(frames[k + 1]) => g[Len(g)].work # <<>>
<1>1. Len(frames) \in Nat /\ Len(frames) > 0 /\ DOMAIN frames = 1..Len(frames)
  BY TopIsOK
<1>2. k \in 0..Len(frames)
  BY <1>1
<1>3. FramesOK(source, modules, frames)
  BY DEF Steady
<1>4. FramesOK(source, modules, g)
  BY <1>2, <1>3, PrefixOK
<1>5. Len(g) = k
  BY <1>2, <1>3, PrefixOK
<1>6. \A j \in 1..k : g[j] = frames[j]
  BY <1>2, <1>3, PrefixOK
<1>7. k > 0 => g # <<>>
  BY <1>2, <1>3, PrefixOK
<1>8. k = 0 => g = <<>>
  BY <1>4, <1>5, EmptySeq DEF FramesOK
<1>9. k > 0 /\ ~IsPart(frames[k + 1]) => g[Len(g)].work # <<>>
  <2>1. HAVE k > 0 /\ ~IsPart(frames[k + 1])
  <2>2. Above(frames[k + 1], frames[k + 1 - 1]) /\ k + 1 - 1 = k
    BY <1>3, <2>1 DEF FramesOK
  <2> QED
    BY <1>5, <1>6, <2>1, <2>2 DEF Above
<1> QED
  BY <1>4, <1>5, <1>6, <1>7, <1>8, <1>9

LEMMA FrontIs ==
  ASSUME Steady
  PROVE  /\ Front(frames) = SubSeq(frames, 1, Len(frames) - 1)
         /\ Len(frames) - 1 \in Nat /\ Len(frames) - 1 + 1 \in DOMAIN frames
         /\ frames[Len(frames) - 1 + 1] = Top
<1>1. Len(frames) \in Nat /\ Len(frames) > 0 /\ DOMAIN frames = 1..Len(frames) /\ Top = frames[Len(frames)]
  BY TopIsOK
<1>2. Len(frames) - 1 + 1 = Len(frames)
  BY <1>1
<1> QED
  BY <1>1, <1>2 DEF Front

\* Where the frames lead after a step: what remains is in order, a program that
\* goes on has some, and a call that succeeded was one to make.
Goes ==
  /\ FramesOK(source, modules, frames')
  /\ frames' # <<>> <=> stage' = "run"
  /\ outcome' = "ok" => frames' # <<>> /\ frames'[Len(frames')].work # <<>>

\* A step that adds none.
Kept ==
  /\ Len(frames') <= Len(frames)
  /\ \A j \in 1..Len(frames') : SameShape(frames'[j], frames[j])

LEMMA FailOK == ASSUME Steady, Fail PROVE Goes /\ Kept
<1> DEFINE k == Len(frames) - 1
           g == SubSeq(frames, 1, k)
<1>1. k \in Nat /\ k + 1 \in DOMAIN frames /\ Front(frames) = g
  BY FrontIs
<1>2. /\ frames' = g
      /\ IF Len(frames) = 1 THEN stage' = "fail" /\ outcome' = "none" ELSE stage' = "run" /\ outcome' = "fail"
  BY <1>1 DEF Fail, Running
<1>3. Len(frames) = 1 <=> k = 0
  BY TopIsOK
<1>4. g = SubSeq(frames, 1, k)
  OBVIOUS
<1> HIDE DEF k, g
<1>5. FramesOK(source, modules, g)
  BY <1>1, <1>4, LeftOK
<1>6. (k > 0 => g # <<>>) /\ (k = 0 => g = <<>>)
  BY <1>1, <1>4, LeftOK
<1>7. Len(g) = k /\ \A j \in 1..k : g[j] = frames[j]
  BY <1>1, <1>4, LeftOK
<1>8. Kept
  BY <1>1, <1>2, <1>7, TopIsOK DEF Kept, SameShape, k
<1> QED
  BY <1>1, <1>2, <1>3, <1>5, <1>6, <1>8 DEF Goes

LEMMA LeaveOK ==
  ASSUME Steady, stage = "run", outcome = "none", NEW k \in Nat, k + 1 \in DOMAIN frames,
         ~IsPart(frames[k + 1]), Leave(k)
  PROVE  Goes /\ Kept
<1> DEFINE g == SubSeq(frames, 1, k)
<1>1. g = SubSeq(frames, 1, k)
  OBVIOUS
<1>2. IF k = 0 THEN stage' = "ok" /\ frames' = <<>> /\ outcome' = "none"
              ELSE frames' = g /\ outcome' = "ok" /\ stage' = "run"
  BY DEF Leave
<1> HIDE DEF g
<1>3. FramesOK(source, modules, g)
  BY <1>1, LeftOK
<1>4. (k > 0 => g # <<>>) /\ (k = 0 => g = <<>>)
  BY <1>1, LeftOK
<1>5. k > 0 => g[Len(g)].work # <<>>
  BY <1>1, LeftOK
<1>6. Len(g) = k /\ \A j \in 1..k : g[j] = frames[j]
  BY <1>1, LeftOK
<1>7. frames' = g
  BY <1>2, <1>4
<1>8. k <= Len(frames)
  BY TopIsOK
<1>9. Kept
  BY <1>6, <1>7, <1>8 DEF Kept, SameShape
<1> QED
  BY <1>2, <1>3, <1>4, <1>5, <1>9 DEF Goes

LEMMA ReturnOK == ASSUME Steady, Return PROVE Goes /\ Kept
<1> DEFINE k == Current - 1
<1>1. Current \in DOMAIN frames /\ ~IsPart(frames[Current])
  BY CurrentIs
<1>2. DOMAIN frames = 1..Len(frames)
  BY TopIsOK
<1>3. k \in Nat /\ k + 1 = Current
  BY <1>1, <1>2
<1>4. stage = "run" /\ outcome = "none" /\ Leave(k)
  BY DEF Return, Running, Computed
<1> HIDE DEF k
<1> QED
  BY <1>1, <1>3, <1>4, LeaveOK

LEMMA ActivationEndsOK == ASSUME Steady, ActivationEnds PROVE Goes /\ Kept
<1> DEFINE k == Len(frames) - 1
<1>1. k \in Nat /\ k + 1 \in DOMAIN frames /\ frames[k + 1] = Top
  BY FrontIs
<1>2. stage = "run" /\ outcome = "none" /\ Leave(k) /\ Top.sort \in {"workflow", "rule"}
  BY DEF ActivationEnds, Running
<1> HIDE DEF k
<1>3. ~IsPart(frames[k + 1])
  BY <1>1, <1>2 DEF IsPart
<1> QED
  BY <1>1, <1>2, <1>3, LeaveOK

LEMMA PartEndsOK == ASSUME Steady, PartEnds PROVE Goes /\ Kept
<1> DEFINE k == Len(frames) - 1
           low == frames[k]
           vs == IF Top.sort = "branch" THEN Top.vars ELSE low.vars
           fr == [low EXCEPT !.vars = vs]
           p == SubSeq(frames, 1, k)
           g == [p EXCEPT ![k] = fr]
<1>1. Len(frames) \in Nat /\ Len(frames) > 0 /\ DOMAIN frames = 1..Len(frames) /\ Top = frames[Len(frames)]
  BY TopIsOK
<1>2. FrameOK(source, modules, Top) /\ IsPart(Top)
  BY TopIsOK DEF PartEnds, IsPart
<1>3. Len(frames) > 1 /\ PartOf(Top, low)
  <2>1. IF Len(frames) = 1 THEN ~IsPart(Top) ELSE Above(Top, frames[Len(frames) - 1])
    BY <1>1 DEF Steady, FramesOK
  <2> QED
    BY <1>1, <1>2, <2>1 DEF Above
<1>4. k \in DOMAIN frames /\ k \in 1..k /\ k \in 1..Len(frames)
  BY <1>1, <1>3
<1>5. FrameOK(source, modules, low)
  BY <1>4 DEF Steady, FramesOK
<1>6. /\ FrameOK(source, modules, fr)
      /\ fr.sort = low.sort /\ fr.file = low.file /\ fr.decl = low.decl /\ fr.certain = low.certain
      /\ fr.settings = low.settings
  <2>1. \A n \in low.certain : n \in DOMAIN vs /\ vs[n] \in {"own", "const"}
    BY <1>2, <1>3, <1>5 DEF FrameOK, PartOf
  <2> HIDE DEF vs, low
  <2> QED
    BY <1>5, <2>1 DEF FrameOK, Fields
<1>7. frames' = g
  <2>1. frames' = [Front(frames) EXCEPT ![k].vars = IF Top.sort = "branch" THEN Top.vars ELSE @]
    BY DEF PartEnds
  <2>2. Front(frames) = p
    BY FrontIs
  <2>3. frames' = [p EXCEPT ![k] = [p[k] EXCEPT !.vars = IF Top.sort = "branch" THEN Top.vars ELSE p[k].vars]]
    BY <2>1, <2>2
  <2>4. p[k] = low
    BY <1>1, <1>4, LeftOK
  <2> QED
    BY <2>3, <2>4
<1>8. stage' = "run" /\ outcome' = "none"
  BY DEF PartEnds, Running
<1>9. k \in Nat /\ k + 1 \in DOMAIN frames
  BY FrontIs
<1>10. p = SubSeq(frames, 1, k) /\ k > 0
  BY <1>4
<1> HIDE DEF p
<1>11. FramesOK(source, modules, p)
  BY <1>9, <1>10, LeftOK
<1>12. Len(p) = k /\ p # <<>>
  BY <1>9, <1>10, LeftOK
<1>13. p[k] = low /\ \A j \in 1..k : p[j] = frames[j]
  BY <1>4, <1>9, <1>10, LeftOK
<1>14. g = [p EXCEPT ![Len(p)] = fr]
  BY <1>12
<1>15. /\ fr.sort = p[Len(p)].sort /\ fr.file = p[Len(p)].file /\ fr.decl = p[Len(p)].decl
       /\ p[Len(p)].certain \subseteq fr.certain
  BY <1>6, <1>12, <1>13
<1> HIDE DEF g, fr
<1>16. FramesOK(source, modules, g)
  BY <1>6, <1>11, <1>12, <1>14, <1>15, ReplacedOK
<1>17. g # <<>>
  BY <1>6, <1>11, <1>12, <1>14, <1>15, ReplacedOK
<1>18. Len(g) = Len(p)
  BY <1>6, <1>11, <1>12, <1>14, <1>15, ReplacedOK
<1>19. \A j \in 1..Len(p) : g[j] = IF j = Len(p) THEN fr ELSE p[j]
  BY <1>6, <1>11, <1>12, <1>14, <1>15, ReplacedOK
<1>20. Kept
  <2>1. Len(frames') = k /\ k <= Len(frames)
    BY <1>1, <1>7, <1>12, <1>18
  <2>2. \A j \in 1..k : frames'[j] = IF j = k THEN fr ELSE frames[j]
    BY <1>7, <1>12, <1>13, <1>19
  <2>3. SameShape(fr, frames[k])
    BY <1>6 DEF SameShape
  <2> HIDE DEF k
  <2>4. \A j \in 1..k : SameShape(frames'[j], frames[j])
    BY <2>2, <2>3 DEF SameShape
  <2> QED
    BY <2>1, <2>4 DEF Kept
<1> QED
  BY <1>7, <1>8, <1>16, <1>17, <1>20 DEF Goes

-----------------------------------------------------------------------------
\* From the first file to the last step.

\* The program that runs is the one that was accepted.
Phases ==
  /\ stage = "load" => loading # "handed"
  /\ stage # "load" => loading \in {"loaded", "handed"}
  /\ stage \in {"run", "ok", "fail"} => loading = "handed"
  /\ stage \in {"compiled", "run", "ok", "fail"} => Accepted(source, links, modules)

FramesInv ==
  /\ FramesOK(source, modules, frames)
  /\ frames # <<>> <=> stage = "run"
  /\ outcome = "ok" => frames # <<>> /\ frames[Len(frames)].work # <<>>

RunInv == GInv /\ SourceOK /\ Phases /\ FramesInv

\* What an interpreted step leaves alone, and what it can only do while running.
Interpreting ==
  \/ Begin \/ EnterBranch \/ NoLines
  \/ CallArgument \/ CallUnknown \/ CallModule \/ CallScript
  \/ CallSucceeded \/ Handle \/ Fail
  \/ Finish \/ StepFails \/ Return \/ ActivationEnds \/ PartEnds

LEMMA InterpretingIs ==
  ASSUME Interpreting
  PROVE  stage = "run" /\ UNCHANGED <<source, user, graphVars>> /\ stage' \in {"run", "ok", "fail"}
BY DEF Interpreting, Begin, EnterBranch, NoLines, CallArgument, CallUnknown, CallModule, CallScript,
       CallSucceeded, Handle, Fail, Finish, StepFails, Return, ActivationEnds, PartEnds, Running, Leave

LEMMA RunIsSteady == ASSUME RunInv, stage = "run" PROVE Steady
BY DEF RunInv, GInv, GraphTypeOK, FramesInv, Steady

LEMMA InterpretingGoes == ASSUME RunInv, Interpreting PROVE Goes
<1>1. stage = "run" /\ Steady /\ frames # <<>>
  BY InterpretingIs, RunIsSteady DEF Steady
<1>2. FramesOK(source, modules, frames) /\ Top = frames[Len(frames)]
  BY <1>1, TopIsOK DEF Steady
<1>3. outcome = "ok" => Top.work # <<>>
  BY <1>2 DEF RunInv, FramesInv
<1>4. ASSUME FramesOK(source, modules, frames'), frames' # <<>>, stage' = stage, outcome' # "ok"
      PROVE  Goes
  BY <1>1, <1>4 DEF Goes
<1>5. CASE Begin
  <2>1. FramesOK(source, modules, frames')
    BY <1>1, <1>5, BeginOK
  <2>2. frames' # <<>>
    BY <1>1, <1>5, ChangedTop DEF Begin
  <2> QED
    BY <1>4, <1>5, <2>1, <2>2 DEF Begin, Fresh
<1>6. CASE EnterBranch
  BY <1>1, <1>4, <1>6, EnterBranchOK DEF EnterBranch, Fresh
<1>7. CASE NoLines
  <2>1. FramesOK(source, modules, frames')
    BY <1>1, <1>7, NoLinesOK
  <2>2. frames' # <<>>
    BY <1>1, <1>7, ChangedTop DEF NoLines
  <2> QED
    BY <1>4, <1>7, <2>1, <2>2 DEF NoLines, Fresh
<1>8. CASE CallArgument
  <2>1. FramesOK(source, modules, frames')
    BY <1>1, <1>8, CallArgumentOK
  <2>2. frames' # <<>>
    BY <1>1, <1>8, ChangedTop DEF CallArgument
  <2> QED
    BY <1>4, <1>8, <2>1, <2>2 DEF CallArgument, Working
<1>9. CASE CallUnknown
  BY <1>1, <1>2, <1>4, <1>9 DEF CallUnknown
<1>10. CASE CallModule
  <2>1. outcome' # "ok" /\ stage' = stage
    BY <1>10 DEF CallModule, Calling, Working
  <2> QED
    BY <1>1, <1>4, <1>10, <2>1, CallModuleOK
<1>11. CASE CallScript
  <2>1. Top.work # <<>> /\ UNCHANGED <<frames, stage>>
    BY <1>11 DEF CallScript, Calling, Working
  <2> QED
    BY <1>1, <1>2, <2>1 DEF Goes
<1>12. CASE CallSucceeded
  <2>1. Top.work # <<>>
    BY <1>3, <1>12 DEF CallSucceeded
  <2>2. FramesOK(source, modules, frames')
    BY <1>1, <1>12, <2>1, CallSucceededOK
  <2>3. frames' # <<>>
    BY <1>1, <1>12, ChangedTop DEF CallSucceeded
  <2> QED
    BY <1>4, <1>12, <2>2, <2>3 DEF CallSucceeded
<1>13. CASE Handle
  BY <1>1, <1>4, <1>13, HandleOK DEF Handle
<1>14. CASE Fail
  BY <1>1, <1>14, FailOK
<1>15. CASE Finish
  <2>1. FramesOK(source, modules, frames')
    BY <1>1, <1>15, FinishOK
  <2>2. frames' # <<>>
    BY <1>1, <1>15, ChangedTop DEF Finish
  <2> QED
    BY <1>4, <1>15, <2>1, <2>2 DEF Finish, Computed
<1>16. CASE StepFails
  BY <1>1, <1>2, <1>4, <1>16 DEF StepFails
<1>17. CASE Return
  BY <1>1, <1>17, ReturnOK
<1>18. CASE ActivationEnds
  BY <1>1, <1>18, ActivationEndsOK
<1>19. CASE PartEnds
  BY <1>1, <1>19, PartEndsOK
<1> QED
  BY <1>5, <1>6, <1>7, <1>8, <1>9, <1>10, <1>11, <1>12, <1>13, <1>14, <1>15, <1>16, <1>17, <1>18, <1>19
     DEF Interpreting

LEMMA NoFramesOK == ASSUME NEW src, NEW files PROVE FramesOK(src, files, <<>>)
<1>1. <<>> \in Seq({}) /\ DOMAIN <<>> = 1..0
  OBVIOUS
<1> QED
  BY <1>1, SeqOfRange DEF FramesOK

LEMMA RunDefaultGoes == ASSUME RunInv, RunDefault PROVE Goes
<1>1. frames = <<>> /\ outcome # "ok" /\ outcome' = outcome
  BY DEF RunInv, FramesInv, RunDefault
<1>2. Entry \in modules /\ modules \subseteq Path /\ SourceOK
  <2>1. Entry \in modules
    BY GInvIsClosure DEF RunInv, GraphIsClosure, RunDefault
  <2> QED
    BY <2>1 DEF RunInv, GInv, GraphTypeOK
<1> DEFINE d == Declared(source[Entry], "default", {"workflow"})
           c == CHOOSE x \in d : TRUE
           caller == [file |-> NoPath, vars |-> <<>>, settings |-> HostSettings(user, source[Entry])]
           fr == Activation(Entry, c, <<>>, caller)
<1>3. CASE d = {}
  BY <1>1, <1>3, NoFramesOK DEF RunDefault, Goes
<1>4. CASE d # {}
  <2>1. c \in d
    BY <1>4
  <2>2. c \in source[Entry].decls /\ c.kind \in {"workflow", "rule"}
    BY <2>1 DEF Declared
  <2>3. FrameOK(source, modules, fr) /\ ~IsPart(fr)
    <3> HIDE DEF c, caller
    <3> QED
      BY <1>2, <2>2, ActivationOK
  <2>4. stage' = "run" /\ frames' = <<fr>>
    BY <1>4 DEF RunDefault
  <2>5. FramesOK(source, modules, frames)
    BY DEF RunInv, FramesInv
  <2> HIDE DEF fr
  <2>6. FramesOK(source, modules, Append(frames, fr))
    BY <1>1, <2>3, <2>5, PushedOK
  <2>7. Append(frames, fr) # <<>>
    BY <1>1, <2>3, <2>5, PushedOK
  <2>8. frames' = Append(frames, fr)
    BY <1>1, <2>4
  <2> QED
    BY <1>1, <2>4, <2>6, <2>7, <2>8 DEF Goes
<1> QED
  BY <1>3, <1>4

LEMMA InitRunInv == GraphInit /\ DispatchInit => RunInv
<1> SUFFICES ASSUME GraphInit, DispatchInit PROVE RunInv
  OBVIOUS
<1>1. GInv
  BY InitGInv
<1>2. SourceOK /\ Phases
  BY DEF DispatchInit, GraphInit, SourceOK, Phases
<1>3. FramesInv
  BY NoFramesOK DEF DispatchInit, FramesInv
<1> QED
  BY <1>1, <1>2, <1>3 DEF RunInv

\* Loading goes on only before the program is compiled; a file that comes or goes
\* later changes neither the modules nor the links.
LEMMA LoadKeepsRunInv ==
  ASSUME RunInv, SkipFile \/ ReadFile \/ MissFile \/ GraphLoaded \/ FileChanges, UNCHANGED runVars
  PROVE  RunInv'
<1>1. UNCHANGED <<source, user, stage, frames, outcome>>
  BY DEF runVars
<1>2. GInv'
  BY StepKeepsGInv DEF RunInv, GraphNext
<1>3. CASE FileChanges
  <2>1. UNCHANGED <<loading, modules, links>>
    BY <1>3 DEF FileChanges
  <2>2. Phases'
    BY <1>1, <2>1 DEF RunInv, Phases
  <2>3. FramesInv'
    BY <1>1, <2>1 DEF RunInv, FramesInv
  <2> QED
    BY <1>1, <1>2, <2>2, <2>3 DEF RunInv, SourceOK
<1>4. CASE SkipFile \/ ReadFile \/ MissFile \/ GraphLoaded
  <2>1. loading = "loading" /\ loading' # "handed"
    BY <1>4 DEF SkipFile, ReadFile, MissFile, GraphLoaded
  <2>2. stage = "load" /\ frames = <<>> /\ outcome # "ok"
    BY <2>1 DEF RunInv, Phases, FramesInv
  <2>3. Phases'
    BY <1>1, <2>1, <2>2 DEF Phases
  <2>4. FramesInv'
    BY <1>1, <2>2, NoFramesOK DEF FramesInv
  <2> QED
    BY <1>1, <1>2, <2>3, <2>4 DEF RunInv, SourceOK
<1> QED
  BY <1>3, <1>4

LEMMA DispatchKeepsRunInv == ASSUME RunInv, DispatchNext PROVE RunInv'
<1>1. UNCHANGED <<source, modules, links>>
  <2>1. CASE Compile
    BY <2>1 DEF Compile, graphVars
  <2>2. CASE StartRunner
    BY <2>2 DEF StartRunner, HandOver, runVars
  <2>3. CASE RunDefault
    BY <2>3 DEF RunDefault, graphVars
  <2>4. CASE Interpreting
    BY <2>4, InterpretingIs DEF graphVars
  <2> QED
    BY <2>1, <2>2, <2>3, <2>4 DEF DispatchNext, Interpreting
<1>2. GInv'
  <2>1. HandOver \/ UNCHANGED graphVars
    BY InterpretingIs DEF DispatchNext, Interpreting, Compile, StartRunner, RunDefault
  <2> QED
    BY <2>1, RestKeepsGInv DEF RunInv
<1>3. SourceOK'
  BY <1>1 DEF RunInv, SourceOK
<1>4. Goes => FramesInv'
  BY <1>1 DEF Goes, FramesInv
<1>5. CASE Compile
  <2>1. UNCHANGED <<frames, outcome, loading>> /\ loading = "loaded" /\ stage = "load"
        /\ stage' = IF Accepted(source, links, modules) THEN "compiled" ELSE "rejected"
    BY <1>5 DEF Compile, graphVars
  <2>2. Phases'
    BY <1>1, <2>1 DEF Phases
  <2>3. FramesInv'
    BY <1>1, <2>1 DEF RunInv, FramesInv
  <2> QED
    BY <1>2, <1>3, <2>2, <2>3 DEF RunInv
<1>6. CASE StartRunner
  <2>1. UNCHANGED <<frames, outcome, stage>> /\ loading' = "handed" /\ stage = "compiled"
    BY <1>6 DEF StartRunner, HandOver, runVars
  <2>2. Phases'
    BY <1>1, <2>1 DEF RunInv, Phases
  <2>3. FramesInv'
    BY <1>1, <2>1 DEF RunInv, FramesInv
  <2> QED
    BY <1>2, <1>3, <2>2, <2>3 DEF RunInv
<1>7. CASE RunDefault
  <2>1. UNCHANGED loading /\ loading = "handed" /\ stage = "compiled" /\ stage' \in {"run", "fail"}
    BY <1>7 DEF RunDefault, graphVars
  <2>2. Phases'
    BY <1>1, <2>1 DEF RunInv, Phases
  <2> QED
    BY <1>2, <1>3, <1>4, <1>7, <2>2, RunDefaultGoes DEF RunInv
<1>8. CASE Interpreting
  <2>1. UNCHANGED loading /\ stage = "run" /\ stage' \in {"run", "ok", "fail"}
    BY <1>8, InterpretingIs DEF graphVars
  <2>2. Phases'
    BY <1>1, <2>1 DEF RunInv, Phases
  <2> QED
    BY <1>2, <1>3, <1>4, <1>8, <2>2, InterpretingGoes DEF RunInv
<1> QED
  BY <1>5, <1>6, <1>7, <1>8 DEF DispatchNext, Interpreting

LEMMA StepKeepsRunInv == RunInv /\ [RunNext]_<<graphVars, runVars>> => RunInv'
<1> SUFFICES ASSUME RunInv, [RunNext]_<<graphVars, runVars>> PROVE RunInv'
  OBVIOUS
<1>1. CASE DispatchNext
  BY <1>1, DispatchKeepsRunInv
<1>2. CASE (SkipFile \/ ReadFile \/ MissFile \/ GraphLoaded \/ FileChanges) /\ UNCHANGED runVars
  BY <1>2, LoadKeepsRunInv
<1>3. CASE UNCHANGED <<graphVars, runVars>>
  <2>1. GInv'
    BY <1>3, RestKeepsGInv DEF RunInv
  <2>2. UNCHANGED <<source, stage, frames, outcome, modules, links, loading>>
    BY <1>3 DEF graphVars, runVars
  <2> QED
    BY <2>1, <2>2 DEF RunInv, SourceOK, Phases, FramesInv
<1> QED
  BY <1>1, <1>2, <1>3 DEF RunNext

(***************************************************************************)
(* Whatever branches, loops, handlers and calls led there, a step reads    *)
(* the binding that was made on the way to it and never a caller's of the  *)
(* same name (newScopeVars for a callee, the copies that runRecoverBody    *)
(* makes for a handler, and the scope a branch shares, in                  *)
(* node-workflow-runtime.ts), for any programs, imports, number of calls   *)
(* and of iterations.                                                      *)
(***************************************************************************)
THEOREM BindingsReach == RunSpec => []BindingsReachTheirReaders
<1>1. RunInv => BindingsReachTheirReaders
  BY DEF RunInv, FramesInv, FramesOK, FrameOK, BindingsReachTheirReaders
<1> QED
  BY InitRunInv, StepKeepsRunInv, <1>1, PTL DEF RunSpec

-----------------------------------------------------------------------------
\* Scripts: which file is found when one is called.

LEMMA WrittenByIs ==
  ASSUME modules \subseteq Path, NEW name
  PROVE  /\ WrittenBy(name) # NoTarget =>
              WrittenBy(name) \in modules /\ name \in Scripts(source[WrittenBy(name)])
         /\ \A p \in modules : name \in Scripts(source[p]) => WrittenBy(name) # NoTarget
<1> DEFINE Owners == {i \in DOMAIN PathOrder : PathOrder[i] \in modules /\ name \in Scripts(source[PathOrder[i]])}
           last == CHOOSE i \in Owners : \A j \in Owners : j <= i
<1>1. WrittenBy(name) = IF Owners = {} THEN NoTarget ELSE PathOrder[last]
  BY DEF WrittenBy
<1>2. Len(PathOrder) \in Nat /\ DOMAIN PathOrder = 1..Len(PathOrder)
  BY OrderComplete, LenProperties
<1>3. CASE Owners = {}
  <2>1. ASSUME NEW p \in modules, name \in Scripts(source[p]) PROVE FALSE
    <3>1. PICK i \in DOMAIN PathOrder : PathOrder[i] = p
      BY OrderComplete DEF Range
    <3>2. i \in Owners
      BY <2>1, <3>1
    <3> QED
      BY <1>3, <3>2
  <2> QED
    BY <1>1, <1>3, <2>1
<1>4. CASE Owners # {}
  <2>1. Owners \in SUBSET (1..Len(PathOrder))
    BY <1>2
  <2>2. \E i \in Owners : \A j \in Owners : j <= i
    <3> HIDE DEF Owners
    <3> QED
      BY <1>2, <1>4, <2>1, GreatestExists
  <2>3. last \in Owners
    <3> HIDE DEF Owners
    <3> QED
      BY <2>2
  <2>4. PathOrder[last] \in modules /\ name \in Scripts(source[PathOrder[last]])
    <3> HIDE DEF last
    <3> QED
      BY <2>3
  <2>5. NoTarget \notin modules
    BY NoTargetIsNoPath
  <2> HIDE DEF Owners, last
  <2> QED
    BY <1>1, <1>4, <2>4, <2>5
<1> QED
  BY <1>3, <1>4

\* The call that is on, and where it stands.
LEMMA CallingIs ==
  ASSUME Steady, Calling
  PROVE  /\ ItemOK(Top.decl, Item)
         /\ Top.file \in modules /\ Top.file \in Path
         /\ Top.decl \in source[Top.file].decls
         /\ ParserGives(source[Top.file])
<1>1. FrameOK(source, modules, Top) /\ Top.work # <<>>
  BY TopIsOK DEF Calling, Working
<1>2. ItemOK(Top.decl, Item)
  BY <1>1, WorkTailOK DEF FrameOK, Item
<1> QED
  BY <1>1, <1>2 DEF FrameOK, Steady, SourceOK

\* An inline script is a step's own or an argument.
LEMMA InlineIs ==
  ASSUME Steady, Calling, Item.call.k = "script", Item.via # "nested"
  PROVE  Item.call.ref.name \in InlineFiles \cup Overlooked
<1> DEFINE d == Top.decl
           v == Item.call
<1>1. ItemOK(d, Item) /\ Top.file \in modules /\ d \in source[Top.file].decls
  BY CallingIs
<1>2. Item.via = "step"
  BY <1>1 DEF ItemOK, Via
<1>3. PICK s \in Steps(d) : s.val = v
  BY <1>1, <1>2 DEF ItemOK
<1>4. PICK e \in StepsOf(d) : e.step = s
  BY <1>3 DEF Steps
<1>5. CASE e.written
  <2>1. s \in {x.step : x \in {y \in StepsOf(d) : y.written}}
    BY <1>4, <1>5
  <2>2. v.ref.name \in InlineScripts(d)
    BY <1>3, <2>1 DEF InlineScripts, InlineIn
  <2> QED
    BY <1>1, <2>2 DEF InlineFiles
<1>6. CASE ~e.written
  <2>1. s \in {x.step : x \in {y \in StepsOf(d) : ~y.written}}
    BY <1>4, <1>6
  <2>2. v.ref.name \in InlineIn({x.step : x \in {y \in StepsOf(d) : ~y.written}})
    BY <1>3, <2>1 DEF InlineIn
  <2> DEFINE missed(b) == InlineIn({x.step : x \in {y \in StepsOf(b) : ~y.written}})
  <2>3. v.ref.name \in UNION {UNION {missed(b) : b \in source[p].decls} : p \in modules}
    <3> HIDE DEF v
    <3>1. v.ref.name \in missed(d)
      BY <2>2
    <3> HIDE DEF missed
    <3> QED
      BY <1>1, <3>1
  <2> QED
    BY <2>3, Zenon DEF Overlooked
<1> QED
  BY <1>5, <1>6

LEMMA FaultIs ==
  ASSUME NEW what, NEW item
  PROVE  /\ Fault(what, item).what = what
         /\ Fault(what, item).via = item.via
         /\ Fault(what, item).name = item.call.ref.name
BY DEF Fault

LEMMA SurprisesAre ==
  ASSUME NEW c, NEW x \in Surprises(c)
  PROVE  \/ /\ x = Fault("arity", Item)
            /\ ~ArityHolds(c, Item.call.args)
         \/ /\ x = Fault("hidden", Item)
            /\ LET t == Home(Top.file, Item.call.ref)
               IN  t # Top.file /\ source[t].exports # {} /\ Item.call.ref.name \notin source[t].exports
         \/ /\ x = Fault("impure", Item)
            /\ c.kind = "workflow"
            /\ \E i \in DOMAIN frames : frames[i].sort = "rule"
<1>1. \/ x \in (IF ArityHolds(c, Item.call.args) THEN {} ELSE {Fault("arity", Item)})
      \/ x \in (LET t == Home(Top.file, Item.call.ref)
                IN  IF t = Top.file \/ source[t].exports = {} \/ Item.call.ref.name \in source[t].exports
                    THEN {} ELSE {Fault("hidden", Item)})
      \/ x \in (IF c.kind = "workflow" /\ \E i \in DOMAIN frames : frames[i].sort = "rule"
                THEN {Fault("impure", Item)} ELSE {})
  BY Zenon DEF Surprises
<1> QED
  BY <1>1, Zenon

LEMMA ScriptFound ==
  ASSUME Steady, CallScript, NEW x \in faults' \ faults
  PROVE  /\ x.what = "no file" => x.via = "nested" \/ x.name \in Overlooked
         /\ x.what = "other file" =>
              \E p, q \in modules : p # q /\ x.name \in Scripts(source[p]) \cap Scripts(source[q])
<1> DEFINE v == Item.call
           t == Home(Top.file, v.ref)
           there == IF v.k = "script" THEN v.ref.name \in InlineFiles ELSE WrittenBy(v.ref.name) # NoTarget
           own == v.k = "script" \/ WrittenBy(v.ref.name) = t
<1>1. Calling /\ (v.k = "script" \/ \E c \in Callee(Top.file, v) : c.kind \in {"script", "imported"})
  BY DEF CallScript
<1>2. modules \subseteq Path /\ Top.file \in modules
  BY <1>1, CallingIs DEF Steady
<1>3. \/ ~there /\ x = Fault("no file", Item)
      \/ there /\ ~own /\ x = Fault("other file", Item)
      \/ x.what \notin {"no file", "other file"}
  <2>1. \/ ~there /\ x = Fault("no file", Item)
        \/ there /\ ~own /\ x = Fault("other file", Item)
        \/ \E c \in Callee(Top.file, v) : x \in Surprises(c)
    BY DEF CallScript
  <2>2. ASSUME NEW c, x \in Surprises(c) PROVE x.what \notin {"no file", "other file"}
    <3>1. x = Fault("arity", Item) \/ x = Fault("hidden", Item) \/ x = Fault("impure", Item)
      BY <2>2, SurprisesAre, Zenon
    <3>2. x.what = "arity" \/ x.what = "hidden" \/ x.what = "impure"
      BY <3>1, FaultIs
    <3> QED
      BY <3>2
  <2> QED
    BY <2>1, <2>2
<1>4. v.k # "script" => t \in modules /\ v.ref.name \in Scripts(source[t])
  <2>1. HAVE v.k # "script"
  <2>2. PICK c \in Callee(Top.file, v) : c.kind \in {"script", "imported"}
    BY <1>1, <2>1
  <2>3. t # NoTarget /\ c \in source[t].decls /\ c.name = v.ref.name
    BY <2>2 DEF Callee, Declared
  <2> QED
    BY <1>2, <2>2, <2>3, HomeIsRead DEF Scripts
<1>5. CASE ~there /\ x = Fault("no file", Item)
  <2>1. v.k = "script" /\ v.ref.name \notin InlineFiles
    BY <1>2, <1>4, <1>5, WrittenByIs
  <2>2. x.what = "no file" /\ x.via = Item.via /\ x.name = v.ref.name
    BY <1>5 DEF Fault
  <2> QED
    BY <1>1, <2>1, <2>2, InlineIs
<1>6. CASE there /\ ~own /\ x = Fault("other file", Item)
  <2>1. x.what = "other file" /\ x.name = v.ref.name
    BY <1>6 DEF Fault
  <2>2. /\ WrittenBy(v.ref.name) # t /\ WrittenBy(v.ref.name) \in modules
        /\ v.ref.name \in Scripts(source[WrittenBy(v.ref.name)])
    BY <1>2, <1>6, WrittenByIs
  <2> QED
    BY <1>4, <1>6, <2>1, <2>2
<1> QED
  BY <1>3, <1>5, <1>6

\* Nothing is dispatched before the program runs.
FaultsLater == stage \notin {"run", "ok", "fail"} => faults = {}

ScriptsInv == FaultsLater /\ ScriptsRunAsWritten

\* The steps of which ScriptsRunAsWritten speaks.
LEMMA FaultsGrow ==
  ASSUME Interpreting, ~CallScript
  PROVE  \A x \in faults' \ faults : x.what \notin {"no file", "other file"}
<1>1. CASE UNCHANGED faults
  BY <1>1
<1>2. CASE CallUnknown
  <2>1. \A x \in faults' \ faults : x.what = "unknown"
    BY <1>2, FaultIs DEF CallUnknown
  <2> QED
    BY <2>1
<1>3. CASE CallModule
  <2>1. TAKE x \in faults' \ faults
  <2>2. PICK c \in Callee(Top.file, Item.call) : x \in Surprises(c)
    BY <1>3, <2>1 DEF CallModule
  <2>3. x = Fault("arity", Item) \/ x = Fault("hidden", Item) \/ x = Fault("impure", Item)
    BY <2>2, SurprisesAre, Zenon
  <2>4. x.what = "arity" \/ x.what = "hidden" \/ x.what = "impure"
    BY <2>3, FaultIs
  <2> QED
    BY <2>4
<1>4. CASE StepFails
  <2> DEFINE item == [call |-> Step.val, via |-> "step"]
  <2>1. \A x \in faults' \ faults : x.what = "shell sent"
    <3>1. \A x \in faults' \ faults : x = Fault("shell sent", item)
      BY <1>4, Zenon DEF StepFails
    <3>2. Fault("shell sent", item).what = "shell sent"
      BY DEF Fault
    <3> QED
      BY <3>1, <3>2, Zenon
  <2> QED
    BY <2>1
<1> QED
  BY <1>1, <1>2, <1>3, <1>4
     DEF Interpreting, Begin, EnterBranch, NoLines, CallArgument, CallSucceeded, Handle, Fail,
         Finish, Return, ActivationEnds, PartEnds, Leave

LEMMA StepKeepsScriptsInv ==
  RunInv /\ ScriptsInv /\ [RunNext]_<<graphVars, runVars>> => ScriptsInv'
<1> SUFFICES ASSUME RunInv, ScriptsInv, [RunNext]_<<graphVars, runVars>> PROVE ScriptsInv'
  OBVIOUS
<1>1. CASE UNCHANGED <<stage, faults>> /\ faults = {}
  BY <1>1 DEF ScriptsInv, FaultsLater, ScriptsRunAsWritten
<1>2. CASE UNCHANGED <<source, modules, stage, faults>>
  BY <1>2 DEF ScriptsInv, FaultsLater, ScriptsRunAsWritten, Overlooked
<1>3. CASE (SkipFile \/ ReadFile \/ MissFile \/ GraphLoaded) /\ UNCHANGED runVars
  <2>1. loading = "loading"
    BY <1>3 DEF SkipFile, ReadFile, MissFile, GraphLoaded
  <2>2. stage = "load"
    BY <2>1 DEF RunInv, Phases
  <2> QED
    BY <1>1, <1>3, <2>2 DEF ScriptsInv, FaultsLater, runVars
<1>4. CASE Compile \/ RunDefault
  <2>1. faults = {} /\ faults' = {}
    BY <1>4 DEF Compile, RunDefault, ScriptsInv, FaultsLater
  <2> QED
    BY <2>1 DEF ScriptsInv, FaultsLater, ScriptsRunAsWritten
<1>5. CASE Interpreting
  <2>1. stage' \in {"run", "ok", "fail"} /\ UNCHANGED <<source, modules>> /\ Steady
    BY <1>5, InterpretingIs, RunIsSteady DEF graphVars
  <2>2. UNCHANGED Overlooked
    BY <2>1 DEF Overlooked
  <2>3. ASSUME NEW x \in faults'
        PROVE  /\ x.what = "no file" => x.via = "nested" \/ x.name \in Overlooked
               /\ x.what = "other file" =>
                    \E p, q \in modules : p # q /\ x.name \in Scripts(source[p]) \cap Scripts(source[q])
    <3>1. CASE x \in faults
      BY <3>1 DEF ScriptsInv, ScriptsRunAsWritten
    <3>2. CASE x \notin faults
      BY <1>5, <2>1, <3>2, FaultsGrow, ScriptFound
    <3> QED
      BY <3>1, <3>2
  <2> QED
    BY <2>1, <2>2, <2>3 DEF ScriptsInv, FaultsLater, ScriptsRunAsWritten
<1>6. StartRunner \/ (FileChanges /\ UNCHANGED runVars) \/ UNCHANGED <<graphVars, runVars>>
        => UNCHANGED <<source, modules, stage, faults>>
  BY DEF StartRunner, HandOver, FileChanges, graphVars, runVars
<1> QED
  BY <1>2, <1>3, <1>4, <1>5, <1>6 DEF RunNext, DispatchNext, Interpreting

(***************************************************************************)
(* A script that is called is the one its module declares, but for two     *)
(* modules that declare one of the same name, and an inline one is there   *)
(* but in an else or in argument position (emitScriptsForModule,           *)
(* buildScripts and executeScript), for any programs and imports.          *)
(***************************************************************************)
THEOREM ScriptsAsWritten == RunSpec => []ScriptsRunAsWritten
<1>1. GraphInit /\ DispatchInit => ScriptsInv
  BY DEF DispatchInit, ScriptsInv, FaultsLater, ScriptsRunAsWritten
<1>2. ScriptsInv => ScriptsRunAsWritten
  BY DEF ScriptsInv
<1> QED
  BY InitRunInv, StepKeepsRunInv, StepKeepsScriptsInv, <1>1, <1>2, PTL DEF RunSpec

-----------------------------------------------------------------------------
\* Calls: what the compiler accepted, the runner finds.

\* As long as no file came or went, the runner resolves as the command line did.
LinksAgree ==
  changes = 0 =>
    /\ links = UNION {ImportLinks(p) : p \in modules}
    /\ loading = "handed" => runLinks = links

LEMMA StepKeepsLinksAgree ==
  RunInv /\ LinksAgree /\ [RunNext]_<<graphVars, runVars>> => LinksAgree'
<1> SUFFICES ASSUME RunInv, LinksAgree, [RunNext]_<<graphVars, runVars>>, changes' = 0 PROVE LinksAgree'
  BY DEF LinksAgree
<1>1. CASE UNCHANGED <<changes, disk, links, modules, runLinks>> /\ (loading' = "handed" => loading = "handed")
  BY <1>1 DEF LinksAgree, ImportLinks, ResolveImport
<1>2. CASE ReadFile
  <2>1. /\ links' = links \cup ImportLinks(Head(queue))
        /\ modules' = modules \cup {Head(queue)}
        /\ UNCHANGED <<changes, disk>>
        /\ loading' = "loading"
    BY <1>2 DEF ReadFile
  <2>2. links = UNION {ImportLinks(p) : p \in modules} /\ changes = 0
    BY <2>1 DEF LinksAgree
  <2>3. \A p : ImportLinks(p)' = ImportLinks(p)
    BY <2>1 DEF ImportLinks, ResolveImport
  <2>4. links' = UNION {ImportLinks(p) : p \in modules'}
    <3> HIDE DEF ImportLinks
    <3> QED
      BY <2>1, <2>2
  <2>5. links' = UNION {ImportLinks(p)' : p \in modules'}
    BY <2>3, <2>4
  <2> QED
    BY <2>1, <2>5 DEF LinksAgree
<1>3. CASE HandOver
  <2>1. runLinks' = UNION {ImportLinks(p) : p \in modules} /\ UNCHANGED <<changes, disk, links, modules>>
    BY <1>3 DEF HandOver
  <2>2. links = UNION {ImportLinks(p) : p \in modules}
    BY <2>1 DEF LinksAgree
  <2>3. \A p : ImportLinks(p)' = ImportLinks(p)
    BY <2>1 DEF ImportLinks, ResolveImport
  <2>4. links' = UNION {ImportLinks(p)' : p \in modules'}
    BY <2>1, <2>2, <2>3
  <2> QED
    BY <2>1, <2>2, <2>4 DEF LinksAgree
<1>4. CASE FileChanges
  <2>1. changes \in Nat /\ changes' = changes + 1
    BY <1>4 DEF FileChanges, RunInv, GInv, GraphTypeOK
  <2> QED
    BY <2>1
<1>5. CASE SkipFile \/ MissFile \/ GraphLoaded \/ UNCHANGED graphVars
  BY <1>1, <1>5 DEF SkipFile, MissFile, GraphLoaded, graphVars
<1>6. SkipFile \/ MissFile \/ GraphLoaded \/ ReadFile \/ HandOver \/ FileChanges \/ UNCHANGED graphVars
  <2>1. Interpreting => UNCHANGED graphVars
    BY InterpretingIs
  <2> QED
    BY <2>1 DEF RunNext, DispatchNext, Interpreting, Compile, StartRunner, RunDefault
<1> QED
  BY <1>2, <1>3, <1>4, <1>5, <1>6

\* A reference that holds for the compiler means the same to the runner: names
\* are unique within a module, and every link leads to a module.
LEMMA CalleeIsReferent ==
  ASSUME SourceOK, modules \subseteq Path, Closed(modules), runLinks = links,
         NEW file \in modules, NEW d, NEW v, RefHolds(source, links, file, d, v)
  PROVE  /\ Callee(file, v) # {}
         /\ Callee(file, v) \subseteq Referent(source, links, file, v.ref, CalleeKinds(d, v))
         /\ LET t == Home(file, v.ref)
            IN  t = file \/ source[t].exports = {} \/ v.ref.name \in source[t].exports
         /\ d.kind = "rule" \/ v.k = "ensure" => \A c \in Callee(file, v) : c.kind # "workflow"
<1> DEFINE ref == v.ref
           K == CalleeKinds(d, v)
           t == Home(file, ref)
           m == source[t]
           Wanted == IF v.k = "ensure" THEN {"rule"} ELSE {"workflow", "script", "imported"}
<1>1. /\ K \subseteq {"workflow", "rule", "script"}
      /\ v.k = "ensure" => K = {"rule"}
      /\ v.k # "ensure" => K \subseteq {"workflow", "script"} /\ "script" \in K
      /\ d.kind = "rule" \/ v.k = "ensure" => "workflow" \notin K
  BY DEF CalleeKinds, RunKinds
<1>2. PICK c \in Referent(source, links, file, ref, K) : TRUE
  BY DEF RefHolds
<1> HIDE DEF K
<1>3. /\ t \in modules
      /\ c \in m.decls /\ c.name = ref.name
      /\ c.kind \in K \/ (ref.at = Here /\ v.k # "ensure" /\ c.kind = "imported")
      /\ t = file \/ m.exports = {} \/ ref.name \in m.exports
  <2>1. CASE ref.at = Here
    <3>1. t = file
      BY <2>1 DEF Home
    <3>2. c \in Declared(source[file], ref.name, IF "script" \in K THEN K \cup {"imported"} ELSE K)
      BY <1>2, <2>1 DEF Referent
    <3> QED
      BY <1>1, <2>1, <3>1, <3>2 DEF Declared
  <2>2. CASE ref.at # Here
    <3> DEFINE u == Target(links, file, ref.at)
    <3>1. u # NoTarget /\ Visible(source[u], ref.name) /\ c \in Declared(source[u], ref.name, K)
      BY <1>2, <2>2 DEF Referent
    <3>2. u \in modules
      <4>1. \E l \in links : l[1] = file /\ l[2] = ref.at
        BY <3>1 DEF Target
      <4>2. PICK l \in links : l[1] = file /\ l[2] = ref.at /\ u = l[3]
        BY <4>1 DEF Target
      <4> QED
        BY <4>2 DEF Closed
    <3>3. t = u
      BY <2>2, <3>2 DEF Home
    <3>4. c \in Declared(source[u], ref.name, {"workflow", "rule", "script"})
      BY <1>1, <3>1 DEF Declared
    <3>5. source[u].exports = {} \/ ref.name \in source[u].exports
      BY <3>1, <3>4 DEF Visible
    <3> QED
      BY <3>1, <3>2, <3>3, <3>5 DEF Declared
  <2> QED
    BY <2>1, <2>2
<1>4. t # NoTarget
  BY <1>3, NoTargetIsNoPath
<1>5. Callee(file, v) = Declared(m, ref.name, Wanted)
  BY <1>4 DEF Callee
<1>6. c \in Callee(file, v)
  BY <1>1, <1>3, <1>5 DEF Declared
<1>7. Callee(file, v) = {c}
  <2>1. \A x \in Callee(file, v) : x \in m.decls /\ x.name = c.name
    BY <1>3, <1>5 DEF Declared
  <2>2. ParserGives(m)
    BY <1>3 DEF SourceOK
  <2>3. \A x \in Callee(file, v) : x = c
    BY <1>3, <2>1, <2>2 DEF ParserGives
  <2> QED
    BY <1>6, <2>3
<1>8. d.kind = "rule" \/ v.k = "ensure" => c.kind # "workflow"
  BY <1>1, <1>3
<1> QED
  BY <1>2, <1>3, <1>7, <1>8 DEF K

\* What was checked of a step's value.
LEMMA ValueChecked ==
  ASSUME NEW src, NEW ls, NEW file, NEW d, NEW e, StepHolds(src, ls, file, d, e),
         e.step.op \notin {"if", "for"}, e.step.val.k # "shell"
  PROVE  /\ e.step.val.k \in {"call", "ensure"} =>
              CallHolds(src, ls, file, d, e.failure, e.step.val)
         /\ e.step.val.k \in {"literal", "fail", "prompt"} =>
              \A i \in DOMAIN e.step.val.calls : RefHolds(src, ls, file, d, e.step.val.calls[i])
<1> DEFINE v == e.step.val
           V(p) == ValueHolds(src, ls, file, d, e.failure, v, p)
<1>1. \E p : V(p)
  <2> HIDE DEF V
  <2>1. e.step.op = "send" => V("send")
    BY DEF StepHolds, V
  <2>2. e.step.op = "say" => V("say")
    BY DEF StepHolds, V
  <2>3. e.step.op = "exec" => V("exec")
    BY DEF StepHolds, V
  <2>4. e.step.op \notin {"send", "say", "exec"} => V(e.step.op)
    BY DEF StepHolds, V
  <2> QED
    BY <2>1, <2>2, <2>3, <2>4
<1>2. PICK p : V(p)
  BY <1>1
<1>3. v.k \in {"call", "ensure"} => CallHolds(src, ls, file, d, e.failure, v)
  BY <1>2 DEF ValueHolds
<1>4. v.k \in {"literal", "fail", "prompt"} => TextHolds(src, ls, file, d, e.failure, v)
  BY <1>2 DEF ValueHolds
<1> QED
  BY <1>3, <1>4 DEF TextHolds

\* The calls the compiler looks at resolve, and a step's own has all arguments.
LEMMA CallChecked ==
  ASSUME Steady, Calling, Accepted(source, links, modules),
         Item.via \notin Unchecked, Item.call.k # "script"
  PROVE  /\ RefHolds(source, links, Top.file, Top.decl, Item.call)
         /\ Item.via = "step" =>
              \A c \in Referent(source, links, Top.file, Item.call.ref, CalleeKinds(Top.decl, Item.call)) :
                ArityHolds(c, Item.call.args)
<1> DEFINE d == Top.decl
           v == Item.call
<1>1. /\ ItemOK(d, Item) /\ Top.file \in modules /\ d \in source[Top.file].decls
      /\ ParserGives(source[Top.file])
  BY CallingIs
<1>2. d.kind \in {"workflow", "rule"}
  BY TopIsOK DEF FrameOK
<1>3. ASSUME NEW e \in StepsOf(d) PROVE StepHolds(source, links, Top.file, d, e)
  BY <1>1, <1>2 DEF Accepted, ModuleHolds
<1>4. Item.via \in {"step", "capture"}
  BY <1>1 DEF ItemOK, Via, Unchecked
<1>5. CASE Item.via = "step"
  <2>1. PICK s \in Steps(d) : s.op \notin {"if", "for"} /\ s.val = v /\ s.val.k \in {"call", "ensure", "script"}
    BY <1>1, <1>5 DEF ItemOK
  <2>2. PICK e \in StepsOf(d) : e.step = s
    BY <2>1 DEF Steps
  <2>3. v.k \in {"call", "ensure"}
    BY <2>1
  <2>4. CallHolds(source, links, Top.file, d, e.failure, v)
    BY <1>3, <2>1, <2>2, <2>3, ValueChecked
  <2> QED
    BY <2>4 DEF CallHolds
<1>6. CASE Item.via = "capture"
  <2>1. PICK s \in Steps(d) :
          /\ s.op \notin {"if", "for"} /\ s.val.k \notin {"call", "ensure", "script", "match", "shell"}
          /\ \E i \in DOMAIN s.val.calls : s.val.calls[i] = v
    BY <1>1, <1>6 DEF ItemOK
  <2>2. PICK i \in DOMAIN s.val.calls : s.val.calls[i] = v
    BY <2>1
  <2>3. PICK e \in StepsOf(d) : e.step = s
    BY <2>1 DEF Steps
  <2>4. s.val.calls # <<>>
    BY <2>2
  <2>5. s.val.k \in {"literal", "fail", "prompt"}
    <3>1. s.val.calls # <<>> => s.val.k \in {"literal", "fail", "prompt", "match", "shell"}
      BY <1>1 DEF ParserGives
    <3> QED
      BY <2>1, <2>4, <3>1
  <2>6. RefHolds(source, links, Top.file, d, v)
    BY <1>3, <2>1, <2>2, <2>3, <2>5, ValueChecked
  <2> QED
    BY <1>6, <2>6
<1> QED
  BY <1>4, <1>5, <1>6

\* What the runner makes of such a call.
LEMMA CallResolves ==
  ASSUME RunInv, LinksAgree, stage = "run", changes = 0, Calling,
         Item.via \notin Unchecked, Item.call.k # "script"
  PROVE  /\ Callee(Top.file, Item.call) # {}
         /\ \A c \in Callee(Top.file, Item.call) : \A x \in Surprises(c) :
              /\ x.what # "hidden"
              /\ x.what = "arity" => Item.via = "capture"
         /\ Top.decl.kind = "rule" => \A c \in Callee(Top.file, Item.call) : c.kind # "workflow"
<1> DEFINE d == Top.decl
           v == Item.call
<1>1. Steady /\ loading = "handed" /\ Accepted(source, links, modules)
  BY RunIsSteady DEF RunInv, Phases
<1>2. runLinks = links /\ Closed(modules)
  BY <1>1, GInvIsClosure DEF LinksAgree, RunInv, GraphIsClosure
<1>3. /\ RefHolds(source, links, Top.file, d, v)
      /\ Item.via = "step" =>
           \A c \in Referent(source, links, Top.file, v.ref, CalleeKinds(d, v)) : ArityHolds(c, v.args)
  BY <1>1, CallChecked
<1>4. Top.file \in modules /\ modules \subseteq Path /\ SourceOK /\ ItemOK(d, Item)
  BY <1>1, CallingIs DEF Steady
<1>5. /\ Callee(Top.file, v) # {}
      /\ Callee(Top.file, v) \subseteq Referent(source, links, Top.file, v.ref, CalleeKinds(d, v))
      /\ LET t == Home(Top.file, v.ref)
         IN  t = Top.file \/ source[t].exports = {} \/ v.ref.name \in source[t].exports
      /\ d.kind = "rule" \/ v.k = "ensure" => \A c \in Callee(Top.file, v) : c.kind # "workflow"
  BY <1>2, <1>3, <1>4, CalleeIsReferent
<1>6. ASSUME NEW c \in Callee(Top.file, v), NEW x \in Surprises(c)
      PROVE  x.what # "hidden" /\ (x.what = "arity" => Item.via = "capture")
  <2>1. \/ x = Fault("arity", Item) /\ ~ArityHolds(c, v.args)
        \/ x = Fault("impure", Item)
    BY <1>5, SurprisesAre, Zenon
  <2>2. CASE x = Fault("arity", Item) /\ ~ArityHolds(c, v.args)
    <3>1. Item.via # "step"
      BY <1>3, <1>5, <1>6, <2>2
    <3>2. Item.via = "capture"
      BY <1>4, <3>1 DEF ItemOK, Via, Unchecked
    <3>3. x.what = "arity"
      BY <2>2, FaultIs
    <3> QED
      BY <3>2, <3>3
  <2>3. CASE x = Fault("impure", Item)
    <3>1. x.what = "impure"
      BY <2>3, FaultIs
    <3> QED
      BY <3>1
  <2> QED
    BY <2>1, <2>2, <2>3
<1> QED
  BY <1>5, <1>6

\* How the frames change in a step: those that stay keep their shape.
LEMMA ReplacedKept ==
  ASSUME Steady, NEW fr, SameShape(fr, Top), frames' = Replace(fr)
  PROVE  Kept
<1>1. Len(frames) \in Nat /\ DOMAIN frames = 1..Len(frames) /\ Top = frames[Len(frames)]
  BY TopIsOK
<1>2. /\ Len(frames') = Len(frames)
      /\ \A j \in DOMAIN frames : frames'[j] = IF j = Len(frames) THEN fr ELSE frames[j]
  BY ChangedTop
<1>3. \A j \in 1..Len(frames) : SameShape(frames'[j], frames[j])
  BY <1>1, <1>2 DEF SameShape
<1> QED
  BY <1>1, <1>2, <1>3 DEF Kept

LEMMA UnchangedKept == ASSUME Steady, UNCHANGED frames PROVE Kept
BY TopIsOK DEF Kept, SameShape

LEMMA FramesChange ==
  ASSUME Steady, Interpreting
  PROVE  Kept \/ Parted \/ CallModule
<1>1. DOMAIN Top = Fields
  BY TopIsOK DEF FrameOK
<1>2. CASE Begin
  <2>1. PICK w \in Work(Step) : frames' = Replace([Top EXCEPT !.begun = TRUE, !.work = w])
    BY <1>2 DEF Begin
  <2> DEFINE fr == [Top EXCEPT !.begun = TRUE, !.work = w]
  <2>2. SameShape(fr, Top)
    BY <1>1 DEF SameShape, Fields
  <2> HIDE DEF fr
  <2> QED
    BY <2>1, <2>2, ReplacedKept DEF fr
<1>3. CASE NoLines
  <2> DEFINE fr == [Top EXCEPT !.todo = Tail(@)]
  <2>1. SameShape(fr, Top)
    BY <1>1 DEF SameShape, Fields
  <2>2. frames' = Replace(fr)
    BY <1>3 DEF NoLines
  <2> HIDE DEF fr
  <2> QED
    BY <2>1, <2>2, ReplacedKept
<1>4. CASE CallArgument
  <2>1. PICK w : frames' = Replace([Top EXCEPT !.work = w])
    BY <1>4 DEF CallArgument
  <2> DEFINE fr == [Top EXCEPT !.work = w]
  <2>2. SameShape(fr, Top)
    BY <1>1 DEF SameShape, Fields
  <2> HIDE DEF fr
  <2> QED
    BY <2>1, <2>2, ReplacedKept DEF fr
<1>5. CASE CallSucceeded
  <2> DEFINE fr == [Top EXCEPT !.work = Tail(@)]
  <2>1. SameShape(fr, Top)
    BY <1>1 DEF SameShape, Fields
  <2>2. frames' = Replace(fr)
    BY <1>5 DEF CallSucceeded
  <2> HIDE DEF fr
  <2> QED
    BY <2>1, <2>2, ReplacedKept
<1>6. CASE Finish
  <2>1. PICK fr : SameShape(fr, Top) /\ frames' = Replace(fr)
    <3>1. CASE Top.handling /\ Step.guard = "recover"
      <4> DEFINE fr == [Top EXCEPT !.begun = FALSE, !.handling = FALSE]
      <4>1. SameShape(fr, Top)
        BY <1>1 DEF SameShape, Fields
      <4>2. frames' = Replace(fr)
        BY <1>6, <3>1 DEF Finish
      <4> HIDE DEF fr
      <4> QED
        BY <4>1, <4>2
    <3>2. CASE ~(Top.handling /\ Step.guard = "recover")
      <4> DEFINE names == IF Step.op = "const" THEN Bound(Step) ELSE {}
                 fr == [Top EXCEPT !.begun = FALSE, !.handling = FALSE, !.tries = 0,
                                   !.todo = Tail(@), !.vars = Upon(Own(names), @), !.certain = @ \cup names]
      <4>1. SameShape(fr, Top)
        BY <1>1 DEF SameShape, Fields
      <4>2. frames' = Replace(fr)
        BY <1>6, <3>2 DEF Finish
      <4> HIDE DEF fr
      <4> QED
        BY <4>1, <4>2
    <3> QED
      BY <3>1, <3>2
  <2> QED
    BY <2>1, ReplacedKept
<1>7. CASE UNCHANGED frames
  BY <1>7, UnchangedKept
<1>8. CASE EnterBranch
  BY <1>8, EnterBranchOK
<1>9. CASE Handle
  BY <1>9, HandleOK
<1>10. CASE Fail \/ Return \/ ActivationEnds \/ PartEnds
  BY <1>10, FailOK, ReturnOK, ActivationEndsOK, PartEndsOK
<1>11. CallUnknown \/ CallScript \/ StepFails => UNCHANGED frames
  BY DEF CallUnknown, CallScript, StepFails
<1> QED
  BY <1>2, <1>3, <1>4, <1>5, <1>6, <1>7, <1>8, <1>9, <1>10, <1>11 DEF Interpreting

\* What a call of a workflow or rule adds, and what is remembered of it.
LEMMA CallModuleIs ==
  ASSUME Steady, CallModule
  PROVE  \E c \in Callee(Top.file, Item.call) :
           LET t == Home(Top.file, Item.call.ref)
           IN  /\ c.kind \in {"workflow", "rule"}
               /\ t \in modules /\ c \in source[t].decls
               /\ faults' = faults \cup Surprises(c)
               /\ \/ Kept
                  \/ /\ Len(frames') = Len(frames) + 1
                     /\ \A j \in DOMAIN frames : frames'[j] = frames[j]
                     /\ frames'[Len(frames) + 1] = Activation(t, c, Item.call.args, Top)
<1> DEFINE t == Home(Top.file, Item.call.ref)
<1>1. PICK c \in Callee(Top.file, Item.call) :
        /\ c.kind \in {"workflow", "rule"}
        /\ faults' = faults \cup Surprises(c)
        /\ \/ frames' = Append(frames, Activation(t, c, Item.call.args, Top))
           \/ UNCHANGED frames
  BY DEF CallModule
<1>2. t \in modules /\ c \in source[t].decls
  <2>1. Top.file \in modules /\ modules \subseteq Path
    BY CallingIs DEF CallModule, Steady
  <2> QED
    BY <2>1, HomeIsRead DEF Callee, Declared
<1>3. CASE UNCHANGED frames
  <2>1. Kept
    BY <1>3, UnchangedKept
  <2> QED
    BY <1>1, <1>2, <2>1
<1>4. CASE frames' = Append(frames, Activation(t, c, Item.call.args, Top))
  <2> DEFINE fr == Activation(t, c, Item.call.args, Top)
  <2>1. frames \in Seq(Range(frames) \cup {fr}) /\ DOMAIN frames = 1..Len(frames)
    BY SeqMonotonic, TopIsOK DEF Steady, FramesOK
  <2>2. /\ Len(Append(frames, fr)) = Len(frames) + 1
        /\ \A j \in 1..Len(frames) : Append(frames, fr)[j] = frames[j]
        /\ Append(frames, fr)[Len(frames) + 1] = fr
    BY <2>1, AppendProperties
  <2>3. /\ Len(frames') = Len(frames) + 1
        /\ \A j \in DOMAIN frames : frames'[j] = frames[j]
        /\ frames'[Len(frames) + 1] = fr
    BY <1>4, <2>1, <2>2
  <2> QED
    BY <1>1, <1>2, <2>3
<1> QED
  BY <1>1, <1>3, <1>4

\* Whatever is done for a rule is done by rules, unless a call that is not
\* checked has led elsewhere.
Led == \E y \in faults : y.what = "impure" /\ y.via \in Unchecked

OnlyRules ==
  \A i, j \in DOMAIN frames : i <= j /\ frames[i].sort = "rule" => frames[j].decl.kind = "rule"

Pure == changes = 0 => Led \/ OnlyRules

FaultResolves(x) ==
  /\ x.what \in {"unknown", "hidden"} => x.via \in Unchecked
  /\ x.what = "arity" => x.via \in Unchecked \cup {"capture"}
  /\ x.what = "impure" => Led

ResolvesInv == FaultsLater /\ LinksAgree /\ AcceptedResolves /\ Pure

LEMMA FaultsStay ==
  ASSUME Interpreting
  PROVE  faults \subseteq faults'
BY DEF Interpreting, Begin, EnterBranch, NoLines, CallArgument, CallUnknown, CallModule, CallScript,
       CallSucceeded, Handle, Fail, Finish, StepFails, Return, ActivationEnds, PartEnds, Leave

\* A fault that is new, of a call that the compiler looks at or not.
LEMMA FaultOfCall ==
  ASSUME RunInv, LinksAgree, Pure, stage = "run", changes = 0, Calling, Item.call.k # "script",
         NEW c \in Callee(Top.file, Item.call), NEW x \in Surprises(c), x \in faults', faults \subseteq faults'
  PROVE  FaultResolves(x)'
<1>1. Steady /\ DOMAIN frames = 1..Len(frames) /\ Len(frames) \in Nat /\ Top = frames[Len(frames)]
  BY RunIsSteady, TopIsOK
<1>2. x = Fault("arity", Item) \/ x = Fault("hidden", Item) \/ x = Fault("impure", Item)
  BY SurprisesAre, Zenon
<1>3. x.via = Item.via /\ (x.what = "arity" \/ x.what = "hidden" \/ x.what = "impure")
  BY <1>2, FaultIs
<1>4. CASE Item.via \in Unchecked
  BY <1>3, <1>4 DEF FaultResolves, Led
<1>5. CASE Item.via \notin Unchecked
  <2>1. /\ x.what # "hidden"
        /\ x.what = "arity" => Item.via = "capture"
        /\ Top.decl.kind = "rule" => c.kind # "workflow"
    BY <1>5, CallResolves
  <2>2. ASSUME x.what = "impure" PROVE Led
    <3>1. c.kind = "workflow" /\ \E i \in DOMAIN frames : frames[i].sort = "rule"
      <4>1. x # Fault("arity", Item) /\ x # Fault("hidden", Item)
        BY <2>2, FaultIs
      <4> QED
        BY <4>1, SurprisesAre, Zenon
    <3>2. PICK i \in DOMAIN frames : frames[i].sort = "rule"
      BY <3>1
    <3>3. OnlyRules => Top.decl.kind = "rule"
      BY <1>1, <3>2 DEF OnlyRules
    <3> QED
      BY <2>1, <3>1, <3>3 DEF Pure
  <2>3. Led => Led'
    BY DEF Led
  <2> QED
    BY <1>3, <2>1, <2>2, <2>3 DEF FaultResolves
<1> QED
  BY <1>4, <1>5

LEMMA InterpretingResolves ==
  ASSUME RunInv, ResolvesInv, Interpreting, changes = 0
  PROVE  \A x \in faults' : FaultResolves(x)'
<1>1. stage = "run" /\ Steady /\ faults \subseteq faults' /\ LinksAgree /\ Pure
  BY InterpretingIs, RunIsSteady, FaultsStay DEF ResolvesInv
<1>2. ASSUME NEW x \in faults PROVE FaultResolves(x)'
  <2>1. FaultResolves(x)
    BY <1>2 DEF ResolvesInv, AcceptedResolves, FaultResolves, Led
  <2>2. Led => Led'
    BY <1>1 DEF Led
  <2> QED
    BY <2>1, <2>2 DEF FaultResolves
<1>3. ASSUME NEW x \in faults', x \notin faults PROVE FaultResolves(x)'
  <2>1. CASE CallUnknown
    <3>1. Calling /\ Item.call.k # "script" /\ Callee(Top.file, Item.call) = {} /\ x = Fault("unknown", Item)
      BY <1>3, <2>1 DEF CallUnknown
    <3>2. Item.via \in Unchecked
      BY <1>1, <3>1, CallResolves
    <3>3. x.what = "unknown" /\ x.via = Item.via
      BY <3>1, FaultIs
    <3> QED
      BY <3>2, <3>3 DEF FaultResolves
  <2>2. CASE CallModule
    <3>1. PICK c \in Callee(Top.file, Item.call) : x \in Surprises(c)
      BY <1>3, <2>2 DEF CallModule
    <3>2. Calling /\ Item.call.k # "script"
      BY <2>2 DEF CallModule
    <3> QED
      BY <1>1, <1>3, <3>1, <3>2, FaultOfCall
  <2>3. CASE CallScript
    <3>1. Calling
      BY <2>3 DEF CallScript
    <3>2. \/ x = Fault("no file", Item)
          \/ x = Fault("other file", Item)
          \/ Item.call.k # "script" /\ \E c \in Callee(Top.file, Item.call) : x \in Surprises(c)
      BY <1>3, <2>3 DEF CallScript
    <3>3. CASE x = Fault("no file", Item) \/ x = Fault("other file", Item)
      <4>1. Fault("no file", Item).what = "no file" /\ Fault("other file", Item).what = "other file"
        BY DEF Fault
      <4>2. x.what = "no file" \/ x.what = "other file"
        BY <3>3, <4>1, Zenon
      <4> QED
        BY <4>2 DEF FaultResolves
    <3>4. CASE Item.call.k # "script" /\ \E c \in Callee(Top.file, Item.call) : x \in Surprises(c)
      BY <1>1, <1>3, <3>1, <3>4, FaultOfCall
    <3> QED
      BY <3>2, <3>3, <3>4
  <2>4. CASE StepFails
    <3> DEFINE item == [call |-> Step.val, via |-> "step"]
    <3>1. x = Fault("shell sent", item)
      BY <1>3, <2>4, Zenon DEF StepFails
    <3>2. x.what = "shell sent"
      BY <3>1 DEF Fault
    <3> QED
      BY <3>2 DEF FaultResolves
  <2>5. faults' # faults
    BY <1>3
  <2> QED
    BY <2>1, <2>2, <2>3, <2>4, <2>5
       DEF Interpreting, Begin, EnterBranch, NoLines, CallArgument, CallSucceeded, Handle, Fail,
           Finish, Return, ActivationEnds, PartEnds, Leave
<1> QED
  BY <1>2, <1>3

LEMMA InterpretingPure ==
  ASSUME RunInv, RunInv', ResolvesInv, Interpreting
  PROVE  Pure'
<1>1. stage = "run" /\ Steady /\ faults \subseteq faults' /\ LinksAgree /\ Pure /\ changes' = changes
  BY InterpretingIs, RunIsSteady, FaultsStay DEF ResolvesInv, graphVars
<1>2. DOMAIN frames = 1..Len(frames) /\ Len(frames) \in Nat /\ Len(frames) > 0 /\ Top = frames[Len(frames)]
  BY <1>1, TopIsOK
<1>3. DOMAIN frames' = 1..Len(frames') /\ Len(frames') \in Nat
  BY LenProperties DEF RunInv, FramesInv, FramesOK
<1> SUFFICES ASSUME changes = 0, ~Led, ~Led' PROVE OnlyRules'
  BY <1>1 DEF Pure, Led
<1>4. OnlyRules
  BY <1>1 DEF Pure
<1>5. CASE Kept
  <2>1. \A j \in DOMAIN frames' : j \in DOMAIN frames /\ frames'[j].sort = frames[j].sort /\ frames'[j].decl = frames[j].decl
    BY <1>2, <1>3, <1>5 DEF Kept, SameShape
  <2> QED
    BY <1>4, <2>1 DEF OnlyRules
<1>6. CASE Parted
  <2> DEFINE n == Len(frames)
  <2>1. \A j \in DOMAIN frames : frames'[j].sort = frames[j].sort /\ frames'[j].decl = frames[j].decl
    BY <1>6 DEF Parted, SameShape
  <2>2. frames'[n + 1].sort # "rule" /\ frames'[n + 1].decl = frames[n].decl
    BY <1>2, <1>6 DEF Parted, IsPart
  <2>3. \A j \in DOMAIN frames' : j \in DOMAIN frames \/ j = n + 1
    BY <1>2, <1>3, <1>6 DEF Parted
  <2>4. ASSUME NEW i \in DOMAIN frames', NEW j \in DOMAIN frames', i <= j, frames'[i].sort = "rule"
        PROVE  frames'[j].decl.kind = "rule"
    <3>1. i \in DOMAIN frames /\ frames[i].sort = "rule" /\ i <= n
      BY <1>2, <2>1, <2>2, <2>3, <2>4
    <3>2. frames[n].decl.kind = "rule"
      BY <1>2, <1>4, <3>1 DEF OnlyRules
    <3> QED
      BY <1>4, <2>1, <2>2, <2>3, <2>4, <3>1, <3>2 DEF OnlyRules
  <2> QED
    BY <2>4 DEF OnlyRules
<1>7. CASE CallModule
  <2> DEFINE n == Len(frames)
             t == Home(Top.file, Item.call.ref)
  <2>1. PICK c \in Callee(Top.file, Item.call) :
          /\ c.kind \in {"workflow", "rule"}
          /\ t \in modules /\ c \in source[t].decls
          /\ faults' = faults \cup Surprises(c)
          /\ \/ Kept
             \/ /\ Len(frames') = n + 1
                /\ \A j \in DOMAIN frames : frames'[j] = frames[j]
                /\ frames'[n + 1] = Activation(t, c, Item.call.args, Top)
    BY <1>1, <1>7, CallModuleIs
  <2>2. CASE ~Kept
    <3>1. /\ Len(frames') = n + 1
          /\ \A j \in DOMAIN frames : frames'[j] = frames[j]
          /\ frames'[n + 1] = Activation(t, c, Item.call.args, Top)
      BY <2>1, <2>2
    <3>2. frames'[n + 1].sort = c.kind /\ frames'[n + 1].decl = c
      BY <1>1, <2>1, <3>1, ActivationOK DEF Steady
    <3>3. \A j \in DOMAIN frames' : j \in DOMAIN frames \/ j = n + 1
      BY <1>2, <1>3, <3>1
    <3>4. ASSUME NEW i \in DOMAIN frames, frames[i].sort = "rule" PROVE c.kind = "rule"
      <4>1. Top.decl.kind = "rule"
        BY <1>2, <1>4, <3>4 DEF OnlyRules
      <4>2. CASE c.kind = "workflow"
        <5>1. Item.via \notin Unchecked
          <6>1. Fault("impure", Item) \in Surprises(c)
            BY <3>4, <4>2, Zenon DEF Surprises
          <6>2. Fault("impure", Item) \in faults'
            BY <2>1, <6>1
          <6> QED
            BY <6>2, FaultIs DEF Led
        <5>2. Calling /\ Item.call.k # "script"
          BY <1>7 DEF CallModule
        <5>3. c.kind # "workflow"
          BY <1>1, <4>1, <5>1, <5>2, CallResolves
        <5> QED
          BY <4>2, <5>3
      <4> QED
        BY <2>1, <4>2
    <3>5. ASSUME NEW i \in DOMAIN frames', NEW j \in DOMAIN frames', i <= j, frames'[i].sort = "rule"
          PROVE  frames'[j].decl.kind = "rule"
      <4>1. CASE j \in DOMAIN frames
        <5>1. i \in DOMAIN frames
          BY <1>2, <1>3, <3>5, <4>1
        <5> QED
          BY <1>4, <3>1, <3>5, <4>1, <5>1 DEF OnlyRules
      <4>2. CASE j = n + 1
        BY <3>1, <3>2, <3>3, <3>4, <3>5, <4>2
      <4> QED
        BY <3>3, <4>1, <4>2
    <3> QED
      BY <3>5 DEF OnlyRules
  <2> QED
    BY <1>5, <2>2
<1> QED
  BY <1>1, <1>5, <1>6, <1>7, FramesChange

\* Before the program runs there is nothing to say.
LEMMA StartResolves ==
  ASSUME RunInv, RunInv', ResolvesInv, LinksAgree',
         \/ (SkipFile \/ ReadFile \/ MissFile \/ GraphLoaded) /\ UNCHANGED runVars
         \/ stage \in {"load", "compiled"} /\ FileChanges /\ UNCHANGED runVars
         \/ Compile \/ StartRunner \/ RunDefault
  PROVE  ResolvesInv'
<1>1. stage \in {"load", "compiled"}
  <2>1. SkipFile \/ ReadFile \/ MissFile \/ GraphLoaded => loading = "loading"
    BY DEF SkipFile, ReadFile, MissFile, GraphLoaded
  <2>2. loading = "loading" => stage = "load"
    BY DEF RunInv, Phases
  <2> QED
    BY <2>1, <2>2 DEF Compile, StartRunner, RunDefault
<1>2. faults = {} /\ frames = <<>> /\ faults' = {}
  <2>1. faults = {} /\ frames = <<>>
    BY <1>1 DEF ResolvesInv, FaultsLater, RunInv, FramesInv
  <2>2. UNCHANGED faults
    BY DEF Compile, StartRunner, RunDefault, runVars
  <2> QED
    BY <2>1, <2>2
<1>3. OnlyRules'
  <2>1. CASE UNCHANGED frames
    BY <1>2, <2>1 DEF OnlyRules
  <2>2. CASE RunDefault /\ frames' # frames
    <3> DEFINE d == Declared(source[Entry], "default", {"workflow"})
               c == CHOOSE x \in d : TRUE
               caller == [file |-> NoPath, vars |-> <<>>, settings |-> HostSettings(user, source[Entry])]
               fr == Activation(Entry, c, <<>>, caller)
    <3>1. d # {} /\ frames' = <<fr>>
      BY <2>2 DEF RunDefault
    <3>2. c \in d
      BY <3>1
    <3>3. c \in source[Entry].decls /\ c.kind = "workflow"
      BY <3>2 DEF Declared
    <3>4. Entry \in modules /\ modules \subseteq Path /\ SourceOK
      BY <2>2, GInvIsClosure DEF RunDefault, RunInv, GInv, GraphTypeOK, GraphIsClosure
    <3>5. fr.sort = c.kind
      <4> HIDE DEF c, caller
      <4> QED
        BY <3>3, <3>4, ActivationOK
    <3> HIDE DEF fr
    <3>6. \A j \in DOMAIN frames' : frames'[j] = fr
      BY <3>1
    <3> QED
      BY <3>3, <3>5, <3>6 DEF OnlyRules
  <2>3. UNCHANGED frames \/ RunDefault
    BY DEF Compile, StartRunner, runVars
  <2> QED
    BY <2>1, <2>2, <2>3
<1> QED
  BY <1>2, <1>3 DEF ResolvesInv, FaultsLater, AcceptedResolves, Pure

LEMMA StepKeepsResolves ==
  RunInv /\ ResolvesInv /\ [RunNext]_<<graphVars, runVars>> => ResolvesInv'
<1> SUFFICES ASSUME RunInv, ResolvesInv, [RunNext]_<<graphVars, runVars>> PROVE ResolvesInv'
  OBVIOUS
<1>1. RunInv' /\ LinksAgree'
  BY StepKeepsRunInv, StepKeepsLinksAgree DEF ResolvesInv
<1>2. CASE Interpreting
  <2>1. changes' = changes /\ stage' \in {"run", "ok", "fail"}
    BY <1>2, InterpretingIs DEF graphVars
  <2>2. Pure'
    BY <1>1, <1>2, InterpretingPure
  <2>3. changes' = 0 => \A x \in faults' : FaultResolves(x)'
    BY <1>2, <2>1, InterpretingResolves
  <2>4. AcceptedResolves'
    BY <2>3 DEF AcceptedResolves, FaultResolves, Led
  <2> QED
    BY <1>1, <2>1, <2>2, <2>4 DEF ResolvesInv, FaultsLater
<1>3. CASE UNCHANGED <<graphVars, runVars>>
  <2>1. UNCHANGED <<stage, faults, frames, changes>>
    BY <1>3 DEF graphVars, runVars
  <2> QED
    BY <1>1, <2>1 DEF ResolvesInv, FaultsLater, AcceptedResolves, Pure, Led, OnlyRules
<1> QED
  BY <1>1, <1>2, <1>3, StartResolves DEF RunNext, DispatchNext, Interpreting

(***************************************************************************)
(* As long as no file comes or goes, a call that the compiler accepted     *)
(* finds a callee, one that its module exports and, if the call is a       *)
(* step's own, that takes as many arguments; and whatever a rule calls,    *)
(* however indirectly, is no workflow (validateRef and                     *)
(* resolveWorkflowRef, whose rules differ), for any programs, import       *)
(* graphs and depth of calls.                                              *)
(***************************************************************************)
THEOREM AcceptedCallsResolve == RunSpec => []AcceptedResolves
<1>1. GraphInit /\ DispatchInit => ResolvesInv
  <2> SUFFICES ASSUME GraphInit, DispatchInit PROVE ResolvesInv
    OBVIOUS
  <2>1. DOMAIN frames = {}
    BY DEF DispatchInit
  <2> QED
    BY <2>1 DEF DispatchInit, GraphInit, ResolvesInv, FaultsLater, LinksAgree, AcceptedResolves, Pure, OnlyRules
<1>2. ResolvesInv => AcceptedResolves
  BY DEF ResolvesInv
<1> QED
  BY InitRunInv, StepKeepsRunInv, StepKeepsResolves, <1>1, <1>2, PTL DEF RunSpec

-----------------------------------------------------------------------------
\* Settings: what is in force in a frame is what its own module and workflow set.

Short == \E x \in faults : x.what = "arity"

\* What holds of every setting, whoever made it.
Honest(g, short) ==
  \A k \in Key :
    /\ k \in DOMAIN g
    /\ k \in user.set <=> g[k].by = "user"
    /\ k \in EntryOnly /\ ~user.unlocked => g[k].by \in {"user", "nobody", Entry}
    /\ "caller" \in g[k].from => short
    /\ g[k].level = "module" => g[k].from \subseteq {"const"} \/ Shadowing(g[k].by)

OfModule(g, file) ==
  \A k \in Key : k \in Open(user, file, DOMAIN source[file].config) => g[k].by = file /\ g[k].level # "host"

OfWorkflow(g, file, d) ==
  \A k \in Key : k \in Open(user, file, DOMAIN d.config) => g[k].by = file /\ g[k].level = "workflow"

Settled(fr, short) ==
  Honest(fr.settings, short) /\ OfModule(fr.settings, fr.file) /\ OfWorkflow(fr.settings, fr.file, fr.decl)

\* Who bound the names that the text of a key reads.
Binders(config, vars, k) == {vars[n] : n \in config[k] \cap DOMAIN vars}

\* A block on top of what is in force.
LEMMA UnderIs ==
  ASSUME NEW parent, NEW config, NEW vars, NEW file, NEW level, NEW k
  PROVE  /\ k \in Open(user, file, DOMAIN config) =>
              /\ k \in DOMAIN Under(parent, user, config, vars, file, level)
              /\ Under(parent, user, config, vars, file, level)[k] = Setting(file, level, Binders(config, vars, k))
         /\ k \notin Open(user, file, DOMAIN config) /\ k \in DOMAIN parent =>
              /\ k \in DOMAIN Under(parent, user, config, vars, file, level)
              /\ Under(parent, user, config, vars, file, level)[k] = parent[k]
<1> DEFINE O == Open(user, file, DOMAIN config)
           f == [x \in O |-> Interpolated(config, vars, file, level)[x]]
           g == Under(parent, user, config, vars, file, level)
<1>1. g = Upon(f, parent)
  BY DEF Under
<1>2. DOMAIN f = O /\ O \subseteq DOMAIN config
  BY DEF Open
<1>3. \A x \in O : f[x] = Setting(file, level, Binders(config, vars, x))
  BY <1>2 DEF Interpolated, Binders
<1> HIDE DEF f, g, O
<1>4. ASSUME k \in O PROVE k \in DOMAIN g /\ g[k] = f[k]
  BY <1>1, <1>2, <1>4 DEF Upon
<1>5. ASSUME k \notin O, k \in DOMAIN parent PROVE k \in DOMAIN g /\ g[k] = parent[k]
  BY <1>1, <1>2, <1>5 DEF Upon
<1> QED
  BY <1>3, <1>4, <1>5 DEF g, O

LEMMA SettingIs ==
  ASSUME NEW by, NEW level, NEW from
  PROVE  Setting(by, level, from).by = by /\ Setting(by, level, from).level = level /\ Setting(by, level, from).from = from
BY DEF Setting

\* Whose bindings a callee's block reads.
LEMMA SeenIs ==
  ASSUME NEW file \in modules, NEW given, NEW caller, NEW n \in DOMAIN Variables(file, given, caller)
  PROVE  /\ n \in given => Variables(file, given, caller)[n] = "own"
         /\ n \notin given /\ n \in source[file].consts => Variables(file, given, caller)[n] = "const"
         /\ n \notin given \cup source[file].consts =>
              n \in DOMAIN caller.vars /\ Variables(file, given, caller)[n] = "caller"
BY DEF Variables, Upon, Own, Constants, Copied

\* A parameter that was not given has no argument.
LEMMA NotGiven ==
  ASSUME NEW d, d.params \in Seq(Params(d)), d.kind \in {"workflow", "rule"}, NEW args,
         NEW n \in Params(d), n \notin Given(d, args)
  PROVE  ~ArityHolds(d, args)
<1>1. Len(d.params) \in Nat /\ DOMAIN d.params = 1..Len(d.params)
  BY LenProperties
<1>2. PICK i \in 1..Len(d.params) : n = d.params[i]
  BY <1>1 DEF Params, Range
<1>3. i \notin 1..IF Len(args) < Len(d.params) THEN Len(args) ELSE Len(d.params)
  BY <1>2 DEF Given
<1>4. Len(args) # Len(d.params)
  BY <1>1, <1>3
<1> QED
  BY <1>4 DEF ArityHolds

\* What is in force in a callee.
LEMMA ActivationSettled ==
  ASSUME SourceOK, modules \subseteq Path, NEW file \in modules, NEW d \in source[file].decls,
         d.kind \in {"workflow", "rule"}, ModuleHolds(source, links, file),
         NEW args, NEW caller, NEW short \in BOOLEAN,
         Honest(caller.settings, short),
         caller.file = file => OfModule(caller.settings, file),
         ~ArityHolds(d, args) /\ DOMAIN caller.vars # {} => short
  PROVE  Settled(Activation(file, d, args, caller), short)
<1> DEFINE m == source[file]
           given == Given(d, args)
           read == IF d.kind = "rule" THEN {} ELSE given
           seen == Variables(file, read, caller)
           entered == Entered(caller.settings, user, m, seen, file, caller.file)
           g == Under(entered, user, d.config, seen, file, "workflow")
           fr == Activation(file, d, args, caller)
<1>1. fr.settings = g /\ fr.file = file /\ fr.decl = d
  BY DEF Activation, Frame, InForce
<1>2. /\ ConfigHolds(m) /\ ParserGives(m) /\ file \in Path /\ file # "user"
  BY OwnersDistinct DEF ModuleHolds, SourceOK
<1>3. /\ \A k \in DOMAIN m.config : m.config[k] \subseteq m.consts
      /\ \A k \in DOMAIN d.config : d.config[k] \subseteq m.consts \cup Params(d)
      /\ DOMAIN d.config # {} => d.kind = "workflow"
      /\ d.params \in Seq(Params(d))
  BY <1>2 DEF ConfigHolds, ParserGives
<1>4. \A n \in DOMAIN seen :
        /\ seen[n] = "caller" => n \notin read \cup m.consts /\ DOMAIN caller.vars # {}
        /\ seen[n] = "own" => n \in read
        /\ seen[n] \in {"own", "const", "caller"}
  <2>1. TAKE n \in DOMAIN seen
  <2>2. /\ n \in read => seen[n] = "own"
        /\ n \notin read /\ n \in m.consts => seen[n] = "const"
        /\ n \notin read \cup m.consts => n \in DOMAIN caller.vars /\ seen[n] = "caller"
    BY <2>1, SeenIs
  <2> HIDE DEF seen, read
  <2> QED
    BY <2>2
<1>5. read \subseteq Params(d)
  <2>1. DOMAIN d.params = 1..Len(d.params) /\ Len(d.params) \in Nat
    BY <1>3, LenProperties
  <2>2. given \subseteq Params(d)
    BY <2>1 DEF Given, Params, Range
  <2> QED
    BY <2>2
\* The three ways a key comes to be in force.
<1>e. g = Under(entered, user, d.config, seen, file, "workflow")
  OBVIOUS
<1>f. /\ caller.file # file => entered = Under(caller.settings, user, m.config, seen, file, "module")
      /\ caller.file = file => entered = caller.settings
  BY DEF Entered
<1> HIDE DEF g, entered, fr, seen, m
<1>6. ASSUME NEW k, k \in Open(user, file, DOMAIN d.config)
      PROVE  k \in DOMAIN g /\ g[k] = Setting(file, "workflow", Binders(d.config, seen, k))
  BY <1>e, <1>6, UnderIs
<1>7. ASSUME NEW k, k \notin Open(user, file, DOMAIN d.config),
             caller.file # file, k \in Open(user, file, DOMAIN m.config)
      PROVE  k \in DOMAIN g /\ g[k] = Setting(file, "module", Binders(m.config, seen, k))
  <2>1. k \in DOMAIN entered /\ entered[k] = Setting(file, "module", Binders(m.config, seen, k))
    BY <1>f, <1>7, UnderIs
  <2> QED
    BY <1>e, <1>7, <2>1, UnderIs
<1>8. ASSUME NEW k \in Key, k \notin Open(user, file, DOMAIN d.config),
             caller.file = file \/ k \notin Open(user, file, DOMAIN m.config)
      PROVE  k \in DOMAIN g /\ g[k] = caller.settings[k]
  <2>1. k \in DOMAIN caller.settings
    BY DEF Honest
  <2>2. k \in DOMAIN entered /\ entered[k] = caller.settings[k]
    BY <1>f, <1>8, <2>1, UnderIs
  <2> QED
    BY <1>e, <1>8, <2>2, UnderIs
<1>9. ASSUME NEW k, k \in Open(user, file, DOMAIN d.config) \/ k \in Open(user, file, DOMAIN m.config)
      PROVE  k \notin user.set /\ (k \in EntryOnly /\ ~user.unlocked => file = Entry)
  BY <1>9 DEF Open
\* The workflow's block may read a parameter that was not given.
<1>10. ASSUME NEW k \in Key, k \in Open(user, file, DOMAIN d.config)
       PROVE  "caller" \in g[k].from => short
  <2>1. HAVE "caller" \in g[k].from
  <2>2. "caller" \in Binders(d.config, seen, k)
    BY <1>6, <1>10, <2>1, SettingIs
  <2>3. PICK n \in d.config[k] \cap DOMAIN seen : seen[n] = "caller"
    BY <2>2 DEF Binders
  <2>4. n \notin read \cup m.consts /\ DOMAIN caller.vars # {}
    BY <1>4, <2>3
  <2>5. k \in DOMAIN d.config
    BY <1>10 DEF Open
  <2>6. n \in Params(d) /\ n \notin given
    BY <1>3, <2>3, <2>4, <2>5
  <2>7. ~ArityHolds(d, args)
    BY <1>3, <2>6, NotGiven
  <2> QED
    BY <2>4, <2>7
\* The module's reads its constants, which a parameter may hide.
<1>11. ASSUME NEW k \in Key, k \in Open(user, file, DOMAIN m.config)
       PROVE  /\ "caller" \notin Binders(m.config, seen, k)
              /\ Binders(m.config, seen, k) \subseteq {"const"} \/ Shadowing(file)
  <2>1. m.config[k] \subseteq m.consts
    BY <1>3, <1>11 DEF Open
  <2>2. \A n \in m.config[k] \cap DOMAIN seen : seen[n] # "caller" /\ (seen[n] = "own" => n \in Params(d) \cap m.consts)
    BY <1>4, <1>5, <2>1
  <2>3. \A n \in m.config[k] \cap DOMAIN seen : seen[n] = "const" \/ n \in Params(d) \cap m.consts
    BY <1>4, <2>2
  <2>4. Params(d) \cap m.consts # {} => Shadowing(file)
    BY DEF Shadowing, m
  <2> QED
    BY <2>2, <2>3, <2>4 DEF Binders
<1>12. Honest(g, short)
  <2> SUFFICES ASSUME NEW k \in Key
               PROVE  /\ k \in DOMAIN g
                      /\ k \in user.set <=> g[k].by = "user"
                      /\ k \in EntryOnly /\ ~user.unlocked => g[k].by \in {"user", "nobody", Entry}
                      /\ "caller" \in g[k].from => short
                      /\ g[k].level = "module" => g[k].from \subseteq {"const"} \/ Shadowing(g[k].by)
    BY DEF Honest
  <2>1. CASE k \in Open(user, file, DOMAIN d.config)
    <3>1. k \in DOMAIN g /\ g[k].by = file /\ g[k].level = "workflow"
      BY <1>6, <2>1, SettingIs
    <3> QED
      BY <1>2, <1>9, <1>10, <2>1, <3>1
  <2>2. CASE /\ k \notin Open(user, file, DOMAIN d.config)
             /\ caller.file # file /\ k \in Open(user, file, DOMAIN m.config)
    <3>1. k \in DOMAIN g /\ g[k].by = file /\ g[k].level = "module" /\ g[k].from = Binders(m.config, seen, k)
      BY <1>7, <2>2, SettingIs
    <3> QED
      BY <1>2, <1>9, <1>11, <2>2, <3>1
  <2>3. CASE /\ k \notin Open(user, file, DOMAIN d.config)
             /\ caller.file = file \/ k \notin Open(user, file, DOMAIN m.config)
    BY <1>8, <2>3 DEF Honest
  <2> QED
    BY <2>1, <2>2, <2>3
<1>13. OfWorkflow(g, file, d)
  BY <1>6, SettingIs DEF OfWorkflow
<1>14. OfModule(g, file)
  <2> SUFFICES ASSUME NEW k \in Key, k \in Open(user, file, DOMAIN m.config)
               PROVE  g[k].by = file /\ g[k].level # "host"
    BY DEF OfModule, m
  <2>1. CASE k \in Open(user, file, DOMAIN d.config)
    BY <1>6, <2>1, SettingIs
  <2>2. CASE k \notin Open(user, file, DOMAIN d.config) /\ caller.file # file
    BY <1>7, <2>2, SettingIs
  <2>3. CASE k \notin Open(user, file, DOMAIN d.config) /\ caller.file = file
    BY <1>8, <2>3 DEF OfModule, m
  <2> QED
    BY <2>1, <2>2, <2>3
<1> QED
  BY <1>1, <1>12, <1>13, <1>14 DEF Settled, fr

SettingsInv == \A i \in DOMAIN frames : Settled(frames[i], Short)

\* What the host hands to the workflow that is run.
LEMMA HostIsHonest == Honest(HostSettings(user, source[Entry]), Short)
<1> DEFINE m == source[Entry]
           texts == Interpolated(m.config, [n \in m.consts |-> "const"], Entry, "host")
           g == HostSettings(user, m)
<1> SUFFICES ASSUME NEW k \in Key
             PROVE  /\ k \in DOMAIN g
                    /\ k \in user.set <=> g[k].by = "user"
                    /\ k \in EntryOnly /\ ~user.unlocked => g[k].by \in {"user", "nobody", Entry}
                    /\ "caller" \in g[k].from => Short
                    /\ g[k].level = "module" => g[k].from \subseteq {"const"} \/ Shadowing(g[k].by)
  BY DEF Honest
<1>1. Entry # "user" /\ "nobody" # "user"
  BY OwnersDistinct, EntryIsPath
<1>2. CASE k \in user.set
  <2>1. k \in DOMAIN g /\ g[k] = Setting("user", "host", {})
    BY <1>2 DEF HostSettings, Upon
  <2> HIDE DEF g
  <2> QED
    BY <1>2, <2>1, SettingIs
<1>3. CASE k \notin user.set /\ k \in DOMAIN m.config
  <2> DEFINE known == [n \in m.consts |-> "const"]
             from == {known[x] : x \in m.config[k] \cap DOMAIN known}
  <2>1. k \in DOMAIN g /\ g[k] = texts[k]
    BY <1>3 DEF HostSettings, Upon, Interpolated
  <2>2. texts[k] = Setting(Entry, "host", from)
    BY <1>3 DEF Interpolated
  <2>3. from \subseteq {"const"}
    OBVIOUS
  <2> HIDE DEF g, texts, from
  <2>4. k \in DOMAIN g /\ g[k].by = Entry /\ g[k].level = "host" /\ g[k].from = from
    BY <2>1, <2>2, SettingIs
  <2>5. "caller" \notin from
    BY <2>3
  <2> QED
    BY <1>1, <1>3, <2>4, <2>5
<1>4. CASE k \notin user.set /\ k \notin DOMAIN m.config
  <2>1. k \in DOMAIN g /\ g[k] = Setting("nobody", "host", {})
    BY <1>4 DEF HostSettings, Upon, Interpolated
  <2> HIDE DEF g
  <2> QED
    BY <1>1, <1>4, <2>1, SettingIs
<1> QED
  BY <1>2, <1>3, <1>4

\* A frame keeps its settings, and what they may have read only grows.
LEMMA SettledStays ==
  ASSUME NEW f, NEW g, NEW short \in BOOLEAN, NEW later \in BOOLEAN,
         Settled(g, short), f.settings = g.settings, f.file = g.file, f.decl = g.decl, short => later
  PROVE  Settled(f, later)
BY DEF Settled, Honest, OfModule, OfWorkflow

LEMMA StepKeepsSettings ==
  RunInv /\ SettingsInv /\ [RunNext]_<<graphVars, runVars>> => SettingsInv'
<1> SUFFICES ASSUME RunInv, SettingsInv, [RunNext]_<<graphVars, runVars>> PROVE SettingsInv'
  OBVIOUS
<1> DEFINE later == \E x \in faults' : x.what = "arity"
<1>1. ASSUME UNCHANGED <<source, user>>, \A i \in DOMAIN frames' : Settled(frames'[i], later)
      PROVE  SettingsInv'
  BY <1>1 DEF SettingsInv, Short, Settled, Honest, OfModule, OfWorkflow, Shadowing
<1>2. RunInv'
  BY StepKeepsRunInv
<1>3. CASE Interpreting
  <2>1. Steady /\ UNCHANGED <<source, user>> /\ faults \subseteq faults' /\ stage = "run"
    BY <1>3, InterpretingIs, RunIsSteady, FaultsStay
  <2>2. Short \in BOOLEAN /\ later \in BOOLEAN /\ (Short => later)
    BY <2>1 DEF Short
  <2>3. DOMAIN frames = 1..Len(frames) /\ Top = frames[Len(frames)] /\ Len(frames) \in Nat /\ Len(frames) > 0
    BY <2>1, TopIsOK
  <2>4. DOMAIN frames' = 1..Len(frames')
    BY <1>2, LenProperties DEF RunInv, FramesInv, FramesOK
  <2>5. Settled(Top, Short)
    BY <2>3 DEF SettingsInv
  <2> HIDE DEF later
  <2>6. ASSUME NEW i \in DOMAIN frames, SameShape(frames'[i], frames[i])
        PROVE  Settled(frames'[i], later)
    <3>1. Settled(frames[i], Short)
      BY DEF SettingsInv
    <3> QED
      BY <2>2, <2>6, <3>1, SettledStays DEF SameShape
  <2>7. CASE Kept
    <3>1. ASSUME NEW i \in DOMAIN frames' PROVE Settled(frames'[i], later)
      BY <2>3, <2>4, <2>6, <2>7 DEF Kept
    <3> QED
      BY <1>1, <2>1, <3>1
  <2>8. CASE Parted
    <3>1. Settled(frames'[Len(frames) + 1], later)
      BY <2>2, <2>5, <2>8, SettledStays DEF Parted
    <3>2. ASSUME NEW i \in DOMAIN frames' PROVE Settled(frames'[i], later)
      BY <2>3, <2>4, <2>6, <2>8, <3>1 DEF Parted
    <3> QED
      BY <1>1, <2>1, <3>2
  <2>9. CASE CallModule /\ ~Kept
    <3> DEFINE t == Home(Top.file, Item.call.ref)
    <3>1. PICK c \in Callee(Top.file, Item.call) :
            /\ c.kind \in {"workflow", "rule"}
            /\ t \in modules /\ c \in source[t].decls
            /\ faults' = faults \cup Surprises(c)
            /\ Len(frames') = Len(frames) + 1
            /\ \A j \in DOMAIN frames : frames'[j] = frames[j]
            /\ frames'[Len(frames) + 1] = Activation(t, c, Item.call.args, Top)
      BY <2>1, <2>9, CallModuleIs, Zenon
    <3> HIDE DEF t
    <3>2. ModuleHolds(source, links, t) /\ modules \subseteq Path /\ SourceOK
      BY <2>1, <3>1 DEF RunInv, Phases, Accepted, Steady
    <3>3. Honest(Top.settings, later) /\ (Top.file = t => OfModule(Top.settings, t))
      <4>1. Settled(Top, later)
        BY <2>2, <2>5, SettledStays
      <4> QED
        BY <4>1 DEF Settled
    <3>4. ~ArityHolds(c, Item.call.args) => later
      <4> SUFFICES ASSUME ~ArityHolds(c, Item.call.args) PROVE later
        OBVIOUS
      <4>1. Fault("arity", Item) \in Surprises(c)
        BY DEF Surprises
      <4>2. Fault("arity", Item).what = "arity" /\ Fault("arity", Item) \in faults'
        BY <3>1, <4>1, FaultIs
      <4> QED
        BY <4>2 DEF later
    <3>5. Settled(frames'[Len(frames) + 1], later)
      <4>1. Settled(Activation(t, c, Item.call.args, Top), later)
        BY <2>2, <3>1, <3>2, <3>3, <3>4, ActivationSettled
      <4> QED
        BY <3>1, <4>1
    <3>6. \A i \in DOMAIN frames : SameShape(frames'[i], frames[i])
      BY <3>1 DEF SameShape
    <3>7. ASSUME NEW i \in DOMAIN frames' PROVE Settled(frames'[i], later)
      BY <2>3, <2>4, <2>6, <3>1, <3>5, <3>6
    <3> QED
      BY <1>1, <2>1, <3>7
  <2> QED
    BY <1>3, <2>1, <2>7, <2>8, <2>9, FramesChange

<1>4. CASE RunDefault
  <2> DEFINE d == Declared(source[Entry], "default", {"workflow"})
             c == CHOOSE x \in d : TRUE
             caller == [file |-> NoPath, vars |-> <<>>, settings |-> HostSettings(user, source[Entry])]
  <2>1. UNCHANGED <<source, user, faults>> /\ frames = <<>> /\ stage = "compiled"
    BY <1>4 DEF RunDefault, RunInv, FramesInv
  <2>2. CASE UNCHANGED frames
    <3>1. DOMAIN frames' = {}
      BY <2>1, <2>2
    <3> QED
      BY <1>1, <2>1, <3>1
  <2>3. CASE d # {} /\ frames' = <<Activation(Entry, c, <<>>, caller)>>
    <3>1. c \in source[Entry].decls /\ c.kind \in {"workflow", "rule"}
      <4>1. c \in d
        BY <2>3
      <4> QED
        BY <4>1 DEF Declared
    <3>2. Entry \in modules /\ modules \subseteq Path /\ SourceOK
      <4>1. Entry \in modules
        BY <1>4, GInvIsClosure DEF RunInv, GraphIsClosure, RunDefault
      <4> QED
        BY <4>1 DEF RunInv, GInv, GraphTypeOK
    <3>3. ModuleHolds(source, links, Entry)
      BY <2>1, <3>2 DEF RunInv, Phases, Accepted
    <3>4. /\ caller.settings = HostSettings(user, source[Entry])
          /\ caller.file = NoPath /\ DOMAIN caller.vars = {}
      OBVIOUS
    <3>5. caller.file # Entry
      BY <3>4, PathsAreNotNoPath, EntryIsPath
    <3>6. later = Short /\ later \in BOOLEAN
      BY <2>1 DEF Short
    <3> HIDE DEF later, caller, c
    <3>7. Honest(caller.settings, later)
      BY <3>4, <3>6, HostIsHonest
    <3>8. Settled(Activation(Entry, c, <<>>, caller), later)
      BY <3>1, <3>2, <3>3, <3>4, <3>5, <3>6, <3>7, ActivationSettled
    <3>9. ASSUME NEW i \in DOMAIN frames' PROVE Settled(frames'[i], later)
      BY <2>3, <3>8
    <3> QED
      BY <1>1, <2>1, <3>9
  <2> QED
    BY <1>4, <2>2, <2>3 DEF RunDefault
<1>5. CASE UNCHANGED runVars
  <2>1. UNCHANGED <<source, user, frames, faults>>
    BY <1>5 DEF runVars
  <2> QED
    BY <1>1, <2>1 DEF SettingsInv, Short
<1>6. CASE Compile
  <2>1. UNCHANGED <<source, user, frames, faults>>
    BY <1>6 DEF Compile
  <2> QED
    BY <1>1, <2>1 DEF SettingsInv, Short
<1>7. CASE UNCHANGED <<graphVars, runVars>>
  <2>1. UNCHANGED runVars
    BY <1>7
  <2> QED
    BY <1>5, <2>1
<1> QED
  BY <1>3, <1>4, <1>5, <1>6, <1>7 DEF RunNext, DispatchNext, Interpreting, StartRunner

(***************************************************************************)
(* Whichever way calls went in and out of modules, what a module or a      *)
(* workflow of it sets is in force in its own steps, under the user's      *)
(* environment, with the keys that choose a program left to the module     *)
(* that is run, and as the block's own names read it (applyMetadataScope   *)
(* as executeWorkflow and executeRule call it, over the environment that   *)
(* resolveRuntimeEnv made), for any programs that the compiler accepts,    *)
(* any imports and any depth of calls.                                     *)
(***************************************************************************)
THEOREM SettingsFollow == RunSpec => []SettingsFollowModules
<1>1. GraphInit /\ DispatchInit => SettingsInv
  <2> SUFFICES ASSUME DispatchInit PROVE SettingsInv
    OBVIOUS
  <2>1. DOMAIN frames = {}
    BY DEF DispatchInit
  <2> QED
    BY <2>1 DEF SettingsInv
<1>2. SettingsInv => SettingsFollowModules
  BY DEF SettingsInv, SettingsFollowModules, Settled, Honest, OfModule, OfWorkflow, Short
<1> QED
  BY InitRunInv, StepKeepsRunInv, StepKeepsSettings, <1>1, <1>2, PTL DEF RunSpec

-----------------------------------------------------------------------------
\* Types.

Whats == {"unknown", "arity", "hidden", "impure", "no file", "other file", "shell sent"}

\* A fault that is new names a call that was to be made, or the step itself.
LEMMA NewFaultsTyped ==
  ASSUME Steady, Interpreting, NEW x \in faults', x \notin faults
  PROVE  x.what \in Whats /\ x.via \in Via
<1>1. ASSUME Calling PROVE Item.via \in Via
  BY <1>1, CallingIs DEF ItemOK
<1>2. ASSUME NEW what \in Whats, NEW item, item.via \in Via, x = Fault(what, item)
      PROVE  x.what \in Whats /\ x.via \in Via
  BY <1>2, FaultIs, Zenon
<1>3. ASSUME Calling, NEW c, x \in Surprises(c)
      PROVE  x.what \in Whats /\ x.via \in Via
  <2>1. x = Fault("arity", Item) \/ x = Fault("hidden", Item) \/ x = Fault("impure", Item)
    BY <1>3, SurprisesAre, Zenon
  <2>2. "arity" \in Whats /\ "hidden" \in Whats /\ "impure" \in Whats
    BY Zenon DEF Whats
  <2> QED
    BY <1>1, <1>2, <1>3, <2>1, <2>2, Zenon
<1>4. CASE CallUnknown
  <2>1. Calling /\ x = Fault("unknown", Item)
    BY <1>4 DEF CallUnknown
  <2>2. "unknown" \in Whats
    BY Zenon DEF Whats
  <2> QED
    BY <1>1, <1>2, <2>1, <2>2, Zenon
<1>5. CASE CallModule
  <2>1. PICK c \in Callee(Top.file, Item.call) : x \in Surprises(c)
    BY <1>5 DEF CallModule
  <2>2. Calling
    BY <1>5 DEF CallModule
  <2> QED
    BY <1>3, <2>1, <2>2
<1>6. CASE CallScript
  <2>1. Calling
    BY <1>6 DEF CallScript
  <2>2. \/ x = Fault("no file", Item)
        \/ x = Fault("other file", Item)
        \/ \E c \in Callee(Top.file, Item.call) : x \in Surprises(c)
    <3> DEFINE A == IF IF Item.call.k = "script" THEN Item.call.ref.name \in InlineFiles
                       ELSE WrittenBy(Item.call.ref.name) # NoTarget
                    THEN {} ELSE {Fault("no file", Item)}
               U == UNION {Surprises(c) : c \in Callee(Top.file, Item.call)}
    <3>1. PICK B \in {{}, {Fault("other file", Item)}}, C \in {{}, U} : faults' = faults \cup A \cup B \cup C
      BY <1>6, Zenon DEF CallScript
    <3>2. x \in A \/ x \in B \/ x \in C
      BY <3>1, Zenon
    <3>3. x \in A => x = Fault("no file", Item)
      BY Zenon
    <3>4. x \in B => x = Fault("other file", Item)
      BY <3>1, Zenon
    <3>5. ASSUME x \in C PROVE \E c \in Callee(Top.file, Item.call) : x \in Surprises(c)
      <4> DEFINE S(c) == Surprises(c)
                 cs == Callee(Top.file, Item.call)
      <4>1. x \in UNION {S(c) : c \in cs}
        BY <3>1, <3>5, Zenon
      <4> HIDE DEF S, cs
      <4>2. \E c \in cs : x \in S(c)
        BY <4>1
      <4> QED
        BY <4>2, Zenon DEF S, cs
    <3> QED
      BY <3>2, <3>3, <3>4, <3>5, Zenon
  <2>3. "no file" \in Whats /\ "other file" \in Whats
    BY Zenon DEF Whats
  <2> QED
    BY <1>1, <1>2, <1>3, <2>1, <2>2, <2>3, Zenon
<1>7. CASE StepFails
  <2> DEFINE item == [call |-> Step.val, via |-> "step"]
  <2>1. x = Fault("shell sent", item)
    BY <1>7, Zenon DEF StepFails
  <2>2. "shell sent" \in Whats
    BY Zenon DEF Whats
  <2>3. item.via \in Via
    BY DEF Via
  <2> HIDE DEF item
  <2> QED
    BY <1>2, <2>1, <2>2, <2>3, Zenon
<1> QED
  BY <1>4, <1>5, <1>6, <1>7
     DEF Interpreting, Begin, EnterBranch, NoLines, CallArgument, CallSucceeded, Handle, Fail,
         Finish, Return, ActivationEnds, PartEnds, Leave

\* Why a name is bound again; "plain" leaves none of the exceptions.
Plain(d, n) == n \notin LoopNames(d) /\ n \notin FailureNames(d) /\ n \notin FieldNames(d)

LEMMA ReboundIs ==
  ASSUME NEW fr, NEW names, NEW x \in Rebound(fr, names)
  PROVE  /\ x \in {"plain", "loop", "failure", "field"}
         /\ x = "plain" => \E n \in names \cap DOMAIN fr.vars : fr.vars[n] = "own" /\ Plain(fr.decl, n)
<1>1. PICK n \in names \cap DOMAIN fr.vars :
        /\ fr.vars[n] = "own"
        /\ x = CASE n \in LoopNames(fr.decl) -> "loop"
                 [] n \in FailureNames(fr.decl) -> "failure"
                 [] n \in FieldNames(fr.decl) -> "field"
                 [] OTHER -> "plain"
  BY Zenon DEF Rebound
<1>2. CASE Plain(fr.decl, n)
  <2>1. x = "plain"
    BY <1>1, <1>2 DEF Plain
  <2> QED
    BY <1>1, <1>2, <2>1, Zenon
<1>3. CASE ~Plain(fr.decl, n)
  <2>1. x \in {"loop", "failure", "field"}
    BY <1>1, <1>3 DEF Plain
  <2> QED
    BY <2>1
<1> QED
  BY <1>2, <1>3

LEMMA StepKeepsTypes ==
  RunInv /\ DispatchTypeOK /\ [RunNext]_<<graphVars, runVars>> => DispatchTypeOK'
<1> SUFFICES ASSUME RunInv, DispatchTypeOK, [RunNext]_<<graphVars, runVars>> PROVE DispatchTypeOK'
  OBVIOUS
<1>1. \A i \in DOMAIN frames' : frames'[i].sort \in {"workflow", "rule", "branch", "handler"}
  <2>1. FramesOK(source, modules, frames)'
    BY StepKeepsRunInv DEF RunInv, FramesInv
  <2> QED
    BY <2>1 DEF FramesOK, FrameOK
<1>2. CASE Interpreting
  <2>1. stage' \in {"load", "compiled", "rejected", "run", "ok", "fail"}
    BY <1>2, InterpretingIs
  <2>2. outcome' \in {"none", "ok", "fail"}
    BY <1>2 DEF DispatchTypeOK, Interpreting, Begin, EnterBranch, NoLines, CallArgument, CallUnknown, CallModule,
                CallScript, CallSucceeded, Handle, Fail, Finish, StepFails, Return, ActivationEnds, PartEnds, Leave
  <2>3. rebinds' \subseteq {"plain", "loop", "failure", "field"}
    <3>1. CASE Finish
      <4>1. PICK names : rebinds' \in {rebinds, rebinds \cup Rebound(Top, names)}
        BY <3>1 DEF Finish
      <4> QED
        BY <4>1, ReboundIs, Zenon DEF DispatchTypeOK
    <3>2. CASE ~Finish
      <4>1. rebinds' = rebinds
        BY <1>2, <3>2 DEF Interpreting, Begin, EnterBranch, NoLines, CallArgument, CallUnknown, CallModule,
                          CallScript, CallSucceeded, Handle, Fail, StepFails, Return, ActivationEnds, PartEnds, Zenon
      <4> QED
        BY <4>1, Zenon DEF DispatchTypeOK
    <3> QED
      BY <3>1, <3>2
  <2>4. ASSUME NEW x \in faults' PROVE x.what \in Whats /\ x.via \in Via
    <3>1. Steady
      BY <1>2, InterpretingIs, RunIsSteady
    <3>2. CASE x \in faults
      BY <3>2, Zenon DEF DispatchTypeOK, Whats
    <3> QED
      BY <1>2, <3>1, <3>2, NewFaultsTyped
  <2> QED
    BY <1>1, <2>1, <2>2, <2>3, <2>4, Zenon DEF DispatchTypeOK, Whats
<1>3. CASE UNCHANGED runVars
  BY <1>3, Zenon DEF DispatchTypeOK, runVars
<1>4. CASE Compile \/ RunDefault
  <2>1. UNCHANGED <<outcome, faults, rebinds>> /\ stage' \in {"compiled", "rejected", "run", "fail", "load"}
    BY <1>4 DEF Compile, RunDefault
  <2> QED
    BY <1>1, <2>1, Zenon DEF DispatchTypeOK
<1> QED
  BY <1>2, <1>3, <1>4 DEF RunNext, DispatchNext, Interpreting, StartRunner

(***************************************************************************)
(* Stages, frames, outcomes and what is remembered of dispatches keep      *)
(* their types (runRoot and executeSteps in node-workflow-runtime.ts), for *)
(* any programs.                                                           *)
(***************************************************************************)
THEOREM DispatchTypes == RunSpec => []DispatchTypeOK
<1>1. GraphInit /\ DispatchInit => DispatchTypeOK
  BY DEF DispatchInit, DispatchTypeOK
<1> QED
  BY InitRunInv, StepKeepsRunInv, StepKeepsTypes, <1>1, PTL DEF RunSpec

-----------------------------------------------------------------------------
\* Names are bound once.

\* Where the steps a frame has left stand in its body: at home, from the next on;
\* in a loop only that they are within one.
Places == [home : Seq(Nat), next : Nat \ {0}, looped : BOOLEAN]

Place(a) == Append(a.home, a.next)
After(a) == Append(a.home, a.next + 1)
Advanced(a) == IF a.looped THEN a ELSE [a EXCEPT !.next = @ + 1]

\* The names the walk has seen outside every loop before it comes to p.
Seen(d, p) ==
  Params(d) \cup
    {y.step.name : y \in {x \in StepsOf(d) : x.step.op = "const" /\ x.loops = {} /\ Before(x.path, p)}}

EntryAt(a, j, y) ==
  IF a.looped THEN y.loops # {} ELSE y.loops = {} /\ y.path = Append(a.home, a.next + j - 1)

Standing(d, todo, a) ==
  \A j \in DOMAIN todo : \E y \in StepsOf(d) : y.step = todo[j] /\ EntryAt(a, j, y)

\* Nothing of its own is known to a frame that the walk has not seen.
SeenAt(d, vars, p) ==
  \A n \in DOMAIN vars : vars[n] = "own" /\ Plain(d, n) => n \in Seen(d, p)

\* An if may have bound what is in either of its branches.
Reached(fr, a) == IF ~a.looped /\ fr.begun /\ Head(fr.todo).op = "if" THEN After(a) ELSE Place(a)

Where(fr, a) == Standing(fr.decl, fr.todo, a) /\ SeenAt(fr.decl, fr.vars, Reached(fr, a))

\* A branch at a stands within the step that is on in the frame below, at b.
Linked(low, a, b) ==
  /\ low.begun
  /\ IF a.looped
     THEN a.home = b.home /\ a.next = b.next /\ (b.looped \/ Head(low.todo).op = "for")
     ELSE ~b.looped /\ a.home = Place(b) /\ Head(low.todo).op = "if"

Placed(q, at) ==
  /\ \A i \in DOMAIN q : at[i] \in Places /\ Where(q[i], at[i])
  /\ \A i \in DOMAIN q : i # 1 /\ q[i].sort = "branch" => Linked(q[i - 1], at[i], at[i - 1])

InPlace(q) == \E at \in [DOMAIN q -> Places] : Placed(q, at)

\* The order of the walk, from one place to the next.
LEMMA AppendedPath ==
  ASSUME NEW p \in Seq(Nat), NEW i \in Nat
  PROVE  /\ Append(p, i) \in Seq(Nat)
         /\ Len(p) \in Nat /\ DOMAIN p = 1..Len(p)
         /\ DOMAIN Append(p, i) = 1 .. Len(p) + 1
         /\ Append(p, i)[Len(p) + 1] = i
         /\ \A j \in 1..Len(p) : Append(p, i)[j] = p[j] /\ p[j] \in Nat
<1>1. /\ Append(p, i) \in Seq(Nat) /\ Len(Append(p, i)) = Len(p) + 1
      /\ \A j \in 1..Len(p) : Append(p, i)[j] = p[j]
      /\ Append(p, i)[Len(p) + 1] = i
  BY AppendProperties
<1>2. Len(p) \in Nat /\ DOMAIN p = 1..Len(p) /\ DOMAIN Append(p, i) = 1 .. Len(p) + 1
  BY <1>1, LenProperties
<1> QED
  BY <1>1, <1>2, ElementOfSeq

LEMMA BeforeAt ==
  ASSUME NEW q, NEW t, NEW k \in DOMAIN t, 1..k \subseteq DOMAIN q, q[k] \in 1 .. t[k] - 1,
         \A x \in 1 .. k - 1 : q[x] = t[x]
  PROVE  Before(q, t)
BY DEF Before

LEMMA BeforeNext ==
  ASSUME NEW p \in Seq(Nat), NEW i \in Nat, NEW q, Before(q, Append(p, i))
  PROVE  Before(q, Append(p, i + 1))
<1> DEFINE n == Len(p)
           r == Append(p, i)
           t == Append(p, i + 1)
<1>1. /\ n \in Nat /\ DOMAIN r = 1 .. n + 1 /\ r[n + 1] = i
      /\ \A j \in 1..n : r[j] = p[j] /\ p[j] \in Nat
  BY AppendedPath
<1>2. DOMAIN t = 1 .. n + 1 /\ t[n + 1] = i + 1 /\ \A j \in 1..n : t[j] = p[j]
  BY AppendedPath
<1> HIDE DEF n, r, t
<1>3. PICK k \in 1 .. n + 1 :
        1..k \subseteq DOMAIN q /\ q[k] \in 1 .. r[k] - 1 /\ \A j \in 1 .. k - 1 : q[j] = r[j]
  BY <1>1 DEF Before, r
<1>4. \A j \in 1 .. k - 1 : q[j] = t[j]
  BY <1>1, <1>2, <1>3
<1>5. q[k] \in 1 .. t[k] - 1
  <2>1. CASE k = n + 1
    BY <1>1, <1>2, <1>3, <2>1
  <2>2. CASE k # n + 1
    BY <1>1, <1>2, <1>3, <2>2
  <2> QED
    BY <2>1, <2>2
<1> QED
  BY <1>2, <1>3, <1>4, <1>5 DEF Before, t

LEMMA BeforeInner ==
  ASSUME NEW p \in Seq(Nat), NEW i \in Nat, NEW q, Before(q, p)
  PROVE  Before(q, Append(p, i))
<1> DEFINE n == Len(p)
           r == Append(p, i)
<1>1. n \in Nat /\ DOMAIN p = 1..n /\ DOMAIN r = 1 .. n + 1 /\ \A j \in 1..n : r[j] = p[j]
  BY AppendedPath
<1> HIDE DEF n, r
<1>2. PICK k \in 1..n :
        1..k \subseteq DOMAIN q /\ q[k] \in 1 .. p[k] - 1 /\ \A j \in 1 .. k - 1 : q[j] = p[j]
  BY <1>1 DEF Before
<1>3. \A j \in 1 .. k - 1 : q[j] = r[j]
  BY <1>1, <1>2
<1>4. q[k] \in 1 .. r[k] - 1 /\ k \in DOMAIN r
  BY <1>1, <1>2
<1> QED
  BY <1>2, <1>3, <1>4 DEF Before, r

\* What comes before a step of a branch comes before the step after the if.
LEMMA BeforeOuter ==
  ASSUME NEW p \in Seq(Nat), NEW i \in Nat \ {0}, NEW j \in Nat, NEW q, Before(q, Append(Append(p, i), j))
  PROVE  Before(q, Append(p, i + 1))
<1> DEFINE n == Len(p)
           s == Append(p, i)
           r == Append(s, j)
           t == Append(p, i + 1)
<1>1. /\ n \in Nat /\ DOMAIN s = 1 .. n + 1 /\ s[n + 1] = i /\ s \in Seq(Nat)
      /\ \A x \in 1..n : s[x] = p[x] /\ p[x] \in Nat
  BY AppendedPath
<1>2. DOMAIN t = 1 .. n + 1 /\ t[n + 1] = i + 1 /\ \A x \in 1..n : t[x] = p[x]
  BY AppendedPath
<1> HIDE DEF n, s, r, t
<1>3. Len(s) = n + 1
  BY <1>1, LenProperties
<1>4. DOMAIN r = 1 .. n + 2 /\ \A x \in 1 .. n + 1 : r[x] = s[x]
  BY <1>1, <1>3, AppendedPath DEF r
<1>5. PICK k \in 1 .. n + 2 :
        1..k \subseteq DOMAIN q /\ q[k] \in 1 .. r[k] - 1 /\ \A x \in 1 .. k - 1 : q[x] = r[x]
  BY <1>4 DEF Before, r, s
<1>6. CASE k = n + 2
  <2> DEFINE m == n + 1
  <2>1. \A x \in 1 .. m - 1 : q[x] = t[x]
    BY <1>1, <1>2, <1>4, <1>5, <1>6
  <2>2. q[m] = i /\ 1..m \subseteq DOMAIN q
    BY <1>1, <1>4, <1>5, <1>6
  <2>3. q[m] \in 1 .. t[m] - 1 /\ m \in DOMAIN t
    BY <1>1, <1>2, <2>2
  <2> HIDE DEF m
  <2>4. Before(q, t)
    BY <2>1, <2>2, <2>3, BeforeAt
  <2> QED
    BY <2>4 DEF t
<1>7. CASE k # n + 2
  <2>1. k \in 1 .. n + 1 /\ r[k] = s[k] /\ \A x \in 1 .. k - 1 : q[x] = t[x]
    BY <1>1, <1>2, <1>4, <1>5, <1>7
  <2>2. q[k] \in 1 .. t[k] - 1
    <3>1. CASE k = n + 1
      BY <1>1, <1>2, <1>5, <2>1, <3>1
    <3>2. CASE k # n + 1
      BY <1>1, <1>2, <1>5, <2>1, <3>2
    <3> QED
      BY <3>1, <3>2
  <2> QED
    BY <1>2, <1>5, <2>1, <2>2 DEF Before, t
<1> QED
  BY <1>6, <1>7

LEMMA BeforeSelf ==
  ASSUME NEW p \in Seq(Nat), NEW i \in Nat \ {0}
  PROVE  Before(Append(p, i), Append(p, i + 1))
<1> DEFINE n == Len(p)
           r == Append(p, i)
           t == Append(p, i + 1)
<1>1. n \in Nat /\ DOMAIN r = 1 .. n + 1 /\ r[n + 1] = i /\ \A j \in 1..n : r[j] = p[j]
  BY AppendedPath
<1>2. DOMAIN t = 1 .. n + 1 /\ t[n + 1] = i + 1 /\ \A j \in 1..n : t[j] = p[j]
  BY AppendedPath
<1> HIDE DEF n, r, t
<1> DEFINE m == n + 1
<1>3. /\ m \in DOMAIN t /\ 1..m \subseteq DOMAIN r
      /\ r[m] \in 1 .. t[m] - 1
      /\ \A j \in 1 .. m - 1 : r[j] = t[j]
  BY <1>1, <1>2
<1> HIDE DEF m
<1>4. Before(r, t)
  BY <1>3, BeforeAt
<1> USE DEF r, t
<1> QED
  BY <1>4, Zenon

LEMMA SeenGrows ==
  ASSUME NEW d, NEW vars, NEW p, NEW r, \A q : Before(q, p) => Before(q, r), SeenAt(d, vars, p)
  PROVE  SeenAt(d, vars, r)
<1> DEFINE Met(x, y) == x.step.op = "const" /\ x.loops = {} /\ Before(x.path, y)
           Names(y) == {x.step.name : x \in {z \in StepsOf(d) : Met(z, y)}}
<1>1. ASSUME NEW n \in Seen(d, p) PROVE n \in Seen(d, r)
  <2>1. Seen(d, p) = Params(d) \cup Names(p) /\ Seen(d, r) = Params(d) \cup Names(r)
    BY DEF Seen
  <2>2. \A x : Met(x, p) => Met(x, r)
    OBVIOUS
  <2> HIDE DEF Met
  <2>3. Names(p) \subseteq Names(r)
    BY <2>2
  <2> HIDE DEF Names
  <2> QED
    BY <2>1, <2>3
<1> HIDE DEF Names, Met
<1>2. ASSUME NEW n \in DOMAIN vars, vars[n] = "own", Plain(d, n) PROVE n \in Seen(d, r)
  BY <1>1, <1>2 DEF SeenAt
<1> QED
  BY <1>2 DEF SeenAt

\* The frames below the one that changes keep their places, and so does a branch
\* whose steps go on at the same home.
SameHome(a, b) == a.looped = b.looped /\ a.home = b.home /\ (a.looped => a.next = b.next)

LEMMA CutInPlace ==
  ASSUME NEW q, NEW n \in Nat, DOMAIN q = 1..n, NEW at \in [DOMAIN q -> Places], Placed(q, at),
         NEW m \in 1..n, NEW g, DOMAIN g = 1..m, \A j \in 1 .. m - 1 : g[j] = q[j],
         NEW a \in Places, g[m].sort = q[m].sort, SameHome(a, at[m]), Where(g[m], a)
  PROVE  InPlace(g)
<1> DEFINE to == [j \in 1..m |-> IF j = m THEN a ELSE at[j]]
<1>1. to \in [DOMAIN g -> Places]
  OBVIOUS
<1>2. to[m] = a /\ \A j \in 1 .. m - 1 : to[j] = at[j]
  OBVIOUS
<1> HIDE DEF to
<1>3. ASSUME NEW i \in 1..m PROVE to[i] \in Places /\ Where(g[i], to[i])
  <2>1. CASE i = m
    BY <1>2, <2>1
  <2>2. CASE i # m
    <3>1. i \in 1 .. m - 1 /\ i \in 1..n
      BY <2>2
    <3>2. Where(q[i], at[i]) /\ g[i] = q[i] /\ to[i] = at[i]
      BY <1>2, <3>1 DEF Placed
    <3> QED
      BY <3>1, <3>2
  <2> QED
    BY <2>1, <2>2
<1>4. ASSUME NEW i \in 1..m, i # 1, g[i].sort = "branch" PROVE Linked(g[i - 1], to[i], to[i - 1])
  <2>1. i - 1 \in 1 .. m - 1 /\ i \in 1..n
    BY <1>4
  <2>2. g[i - 1] = q[i - 1] /\ to[i - 1] = at[i - 1]
    BY <1>2, <2>1
  <2>3. CASE i = m
    <3>1. Linked(q[i - 1], at[i], at[i - 1])
      BY <1>4, <2>1, <2>3 DEF Placed
    <3>2. to[i] = a /\ SameHome(a, at[i])
      BY <1>2, <2>3
    <3> QED
      BY <2>2, <3>1, <3>2 DEF Linked, SameHome
  <2>4. CASE i # m
    <3>1. i \in 1 .. m - 1
      BY <2>4
    <3>2. g[i] = q[i] /\ to[i] = at[i]
      BY <1>2, <3>1
    <3>3. Linked(q[i - 1], at[i], at[i - 1])
      BY <1>4, <2>1, <3>2 DEF Placed
    <3> QED
      BY <2>2, <3>2, <3>3
  <2> QED
    BY <2>3, <2>4
<1>5. Placed(g, to)
  BY <1>3, <1>4 DEF Placed
<1> QED
  BY <1>1, <1>5 DEF InPlace

LEMMA PrefixInPlace ==
  ASSUME NEW q, NEW n \in Nat, DOMAIN q = 1..n, InPlace(q),
         NEW m \in 0..n, NEW g, DOMAIN g = 1..m, \A j \in 1..m : g[j] = q[j]
  PROVE  InPlace(g)
<1>1. PICK at \in [DOMAIN q -> Places] : Placed(q, at)
  BY DEF InPlace
<1>2. CASE m = 0
  <2>1. DOMAIN g = {} /\ [j \in {} |-> j] \in [DOMAIN g -> Places]
    BY <1>2
  <2>2. Placed(g, [j \in {} |-> j])
    BY <2>1 DEF Placed
  <2> QED
    BY <2>1, <2>2 DEF InPlace
<1>3. CASE m # 0
  <2>1. m \in 1..n /\ g[m] = q[m] /\ \A j \in 1 .. m - 1 : g[j] = q[j]
    BY <1>3
  <2>2. at[m] \in Places /\ Where(g[m], at[m]) /\ SameHome(at[m], at[m])
    BY <1>1, <2>1 DEF Placed, SameHome
  <2> QED
    BY <1>1, <2>1, <2>2, CutInPlace
<1> QED
  BY <1>2, <1>3

LEMMA AddedInPlace ==
  ASSUME NEW q, NEW n \in Nat \ {0}, DOMAIN q = 1..n, NEW at \in [DOMAIN q -> Places], Placed(q, at),
         NEW g, DOMAIN g = 1 .. n + 1, \A j \in 1 .. n - 1 : g[j] = q[j],
         g[n].sort = q[n].sort, Where(g[n], at[n]),
         NEW a \in Places, Where(g[n + 1], a),
         g[n + 1].sort = "branch" => Linked(g[n], a, at[n])
  PROVE  InPlace(g)
<1> DEFINE to == [j \in 1 .. n + 1 |-> IF j = n + 1 THEN a ELSE at[j]]
<1>1. to \in [DOMAIN g -> Places]
  OBVIOUS
<1>2. to[n + 1] = a /\ \A j \in 1..n : to[j] = at[j]
  OBVIOUS
<1> HIDE DEF to
<1>3. ASSUME NEW i \in 1 .. n + 1 PROVE to[i] \in Places /\ Where(g[i], to[i])
  <2>1. CASE i = n + 1
    BY <1>2, <2>1
  <2>2. CASE i = n
    BY <1>2, <2>2
  <2>3. CASE i \in 1 .. n - 1
    <3>1. Where(q[i], at[i]) /\ g[i] = q[i] /\ to[i] = at[i] /\ i \in 1..n
      BY <1>2, <2>3 DEF Placed
    <3> QED
      BY <3>1
  <2> QED
    BY <2>1, <2>2, <2>3
<1>4. ASSUME NEW i \in 1 .. n + 1, i # 1, g[i].sort = "branch" PROVE Linked(g[i - 1], to[i], to[i - 1])
  <2>1. CASE i = n + 1
    <3>1. i - 1 = n /\ to[i] = a /\ to[n] = at[n]
      BY <1>2, <2>1
    <3> QED
      BY <1>4, <2>1, <3>1
  <2>2. CASE i # n + 1
    <3>1. i \in 1..n /\ i - 1 \in 1 .. n - 1 /\ i - 1 \in 1..n
      BY <1>4, <2>2
    <3>2. g[i].sort = q[i].sort
      BY <3>1
    <3>3. Linked(q[i - 1], at[i], at[i - 1])
      BY <1>4, <3>1, <3>2 DEF Placed
    <3>4. g[i - 1] = q[i - 1] /\ to[i] = at[i] /\ to[i - 1] = at[i - 1]
      BY <1>2, <3>1
    <3> QED
      BY <3>3, <3>4
  <2> QED
    BY <2>1, <2>2
<1>5. Placed(g, to)
  BY <1>3, <1>4 DEF Placed
<1> QED
  BY <1>1, <1>5 DEF InPlace

\* The steps of a body, a branch or a handler in order, from its first place.
LEMMA BodyEntry ==
  ASSUME NEW d, NEW e \in StepsOf(d), Inside(e) \subseteq StepsOf(d), NEW i \in DOMAIN e.step.body
  PROVE  \E y \in StepsOf(d) :
           /\ y.step = e.step.body[i]
           /\ y.path = Append(e.path, i)
           /\ y.loops = IF e.step.op = "for" THEN e.loops \cup {e.path} ELSE e.loops
<1> DEFINE y == [step |-> e.step.body[i],
                 failure |-> IF e.step.guard = "none" THEN e.failure ELSE {e.step.name},
                 path |-> Append(e.path, i),
                 loops |-> IF e.step.op = "for" THEN e.loops \cup {e.path} ELSE e.loops,
                 written |-> e.written]
<1>1. y \in Inside(e)
  BY Zenon DEF Inside
<1>2. /\ y.step = e.step.body[i]
      /\ y.path = Append(e.path, i)
      /\ y.loops = IF e.step.op = "for" THEN e.loops \cup {e.path} ELSE e.loops
  OBVIOUS
<1> HIDE DEF y
<1> QED
  BY <1>1, <1>2

LEMMA ElseEntry ==
  ASSUME NEW d, NEW e \in StepsOf(d), Inside(e) \subseteq StepsOf(d), NEW i \in DOMAIN e.step.els
  PROVE  \E y \in StepsOf(d) :
           /\ y.step = e.step.els[i]
           /\ y.path = Append(e.path, Len(e.step.body) + i)
           /\ y.loops = e.loops
<1> DEFINE y == [step |-> e.step.els[i],
                 failure |-> e.failure,
                 path |-> Append(e.path, Len(e.step.body) + i),
                 loops |-> e.loops,
                 written |-> FALSE]
<1>1. y \in Inside(e)
  BY Zenon DEF Inside
<1>2. y.step = e.step.els[i] /\ y.path = Append(e.path, Len(e.step.body) + i) /\ y.loops = e.loops
  OBVIOUS
<1> HIDE DEF y
<1> QED
  BY <1>1, <1>2

-----------------------------------------------------------------------------
\* A step of the frame on top, and where the frame stands after it.

LEMMA AdvancedIs ==
  ASSUME NEW a \in Places
  PROVE  /\ a.home \in Seq(Nat) /\ a.next \in Nat \ {0} /\ a.looped \in BOOLEAN
         /\ Advanced(a) \in Places
         /\ SameHome(Advanced(a), a)
         /\ SameHome(a, a)
         /\ Place(Advanced(a)) = IF a.looped THEN Place(a) ELSE After(a)
<1>1. a.home \in Seq(Nat) /\ a.next \in Nat \ {0} /\ a.looped \in BOOLEAN
  BY DEF Places
<1>2. CASE a.looped
  BY <1>1, <1>2 DEF Advanced, SameHome
<1>3. CASE ~a.looped
  <2> DEFINE b == [a EXCEPT !.next = @ + 1]
  <2>1. b \in Places /\ b.home = a.home /\ b.looped = a.looped /\ b.next = a.next + 1
    BY <1>1 DEF Places
  <2>2. Advanced(a) = b
    BY <1>3 DEF Advanced
  <2> HIDE DEF b
  <2> QED
    BY <1>1, <1>3, <2>1, <2>2 DEF SameHome, Place, After
<1> QED
  BY <1>1, <1>2, <1>3

LEMMA AdvancedSees ==
  ASSUME NEW fr, NEW a \in Places, SeenAt(fr.decl, fr.vars, Reached(fr, a))
  PROVE  SeenAt(fr.decl, fr.vars, Place(Advanced(a)))
<1>1. \A q : Before(q, Place(a)) => Before(q, After(a))
  <2>1. a.home \in Seq(Nat) /\ a.next \in Nat
    BY AdvancedIs
  <2> QED
    BY <2>1, BeforeNext DEF Place, After
<1>2. CASE a.looped
  BY <1>2, AdvancedIs DEF Reached
<1>3. CASE ~a.looped /\ Reached(fr, a) = After(a)
  BY <1>3, AdvancedIs
<1>4. CASE ~a.looped /\ Reached(fr, a) = Place(a)
  <2>1. SeenAt(fr.decl, fr.vars, After(a))
    BY <1>1, <1>4, SeenGrows
  <2> QED
    BY <1>4, <2>1, AdvancedIs
<1> QED
  BY <1>2, <1>3, <1>4 DEF Reached

LEMMA TailStands ==
  ASSUME NEW d, NEW S, NEW todo \in Seq(S), todo # <<>>, NEW a \in Places, Standing(d, todo, a)
  PROVE  Standing(d, Tail(todo), Advanced(a))
<1>1. /\ Len(todo) \in Nat /\ Len(todo) > 0 /\ DOMAIN todo = 1..Len(todo)
      /\ DOMAIN Tail(todo) = 1 .. Len(todo) - 1
      /\ \A j \in 1 .. Len(todo) - 1 : Tail(todo)[j] = todo[j + 1]
  BY EmptySeq, LenProperties, HeadTailProperties
<1> SUFFICES ASSUME NEW j \in DOMAIN Tail(todo)
             PROVE  \E y \in StepsOf(d) : y.step = Tail(todo)[j] /\ EntryAt(Advanced(a), j, y)
  BY DEF Standing
<1>2. j \in Nat /\ j + 1 \in DOMAIN todo /\ Tail(todo)[j] = todo[j + 1]
  BY <1>1
<1>3. PICK y \in StepsOf(d) : y.step = todo[j + 1] /\ EntryAt(a, j + 1, y)
  BY <1>2 DEF Standing
<1>4. EntryAt(Advanced(a), j, y)
  <2>1. CASE a.looped
    BY <1>3, <2>1 DEF EntryAt, Advanced
  <2>2. CASE ~a.looped
    <3>1. a.next \in Nat /\ Advanced(a) = [a EXCEPT !.next = a.next + 1]
      BY <2>2, AdvancedIs DEF Advanced
    <3>2. Advanced(a).home = a.home /\ Advanced(a).next = a.next + 1 /\ ~Advanced(a).looped
      BY <2>2, <3>1 DEF Places
    <3>3. a.next + (j + 1) - 1 = a.next + 1 + j - 1
      BY <1>2, <3>1
    <3> QED
      BY <1>3, <2>2, <3>2, <3>3 DEF EntryAt
  <2> QED
    BY <2>1, <2>2
<1> QED
  BY <1>2, <1>3, <1>4

LEMMA StandingAtTop ==
  ASSUME Steady, NEW at \in [DOMAIN frames -> Places], Placed(frames, at)
  PROVE  at[Len(frames)] \in Places /\ Where(Top, at[Len(frames)])
BY TopIsOK DEF Placed

\* The entry of the step that is on.
LEMMA HeadEntry ==
  ASSUME Steady, Top.todo # <<>>, NEW a \in Places, Where(Top, a)
  PROVE  \E y \in StepsOf(Top.decl) :
           y.step = Step /\ IF a.looped THEN y.loops # {} ELSE y.loops = {} /\ y.path = Place(a)
<1>1. Top.todo \in Seq(Steps(Top.decl))
  BY TopIsOK DEF FrameOK
<1>2. 1 \in DOMAIN Top.todo /\ Step = Top.todo[1]
  BY <1>1, EmptySeq, LenProperties, HeadTailProperties DEF Step
<1>3. PICK y \in StepsOf(Top.decl) : y.step = Step /\ EntryAt(a, 1, y)
  BY <1>2 DEF Where, Standing
<1>4. a.next + 1 - 1 = a.next
  BY AdvancedIs
<1> QED
  BY <1>3, <1>4 DEF EntryAt, Place

LEMMA ReplacedInPlace ==
  ASSUME Steady, NEW at \in [DOMAIN frames -> Places], Placed(frames, at),
         NEW fr, fr.sort = Top.sort, NEW a \in Places, SameHome(a, at[Len(frames)]), Where(fr, a)
  PROVE  InPlace(Replace(fr))
<1> DEFINE g == Replace(fr)
           n == Len(frames)
<1>1. n \in Nat /\ n > 0 /\ DOMAIN frames = 1..n /\ Top = frames[n]
  BY TopIsOK
<1>2. DOMAIN g = DOMAIN frames /\ \A j \in DOMAIN frames : g[j] = IF j = n THEN fr ELSE frames[j]
  BY ChangedTop
<1> HIDE DEF g
<1>3. /\ n \in 1..n /\ DOMAIN g = 1..n
      /\ \A j \in 1 .. n - 1 : g[j] = frames[j]
      /\ g[n] = fr /\ g[n].sort = frames[n].sort
  BY <1>1, <1>2
<1> HIDE DEF n
<1>4. SameHome(a, at[n])
  BY DEF n
<1>5. InPlace(g)
  BY <1>1, <1>3, <1>4, CutInPlace
<1> QED
  BY <1>5 DEF g

\* Steps that change neither what is left to do nor the variables.
LEMMA StaysInPlace ==
  ASSUME Steady, InPlace(frames), NEW fr,
         fr.sort = Top.sort, fr.decl = Top.decl, fr.todo = Top.todo, fr.vars = Top.vars,
         fr.begun = Top.begun \/ Step.op # "if"
  PROVE  InPlace(Replace(fr))
<1>1. PICK at \in [DOMAIN frames -> Places] : Placed(frames, at)
  BY DEF InPlace
<1> DEFINE a == at[Len(frames)]
<1>2. a \in Places /\ Where(Top, a)
  BY <1>1, StandingAtTop
<1>3. Reached(fr, a) = Reached(Top, a)
  BY DEF Reached, Step
<1>4. Where(fr, a)
  BY <1>2, <1>3 DEF Where
<1> HIDE DEF a
<1>5. SameHome(a, a)
  BY <1>2, AdvancedIs
<1> QED
  BY <1>1, <1>2, <1>4, <1>5, ReplacedInPlace DEF a

LEMMA BeginInPlace == ASSUME Steady, InPlace(frames), Begin PROVE InPlace(frames')
<1>1. PICK w \in Work(Step) : frames' = Replace([Top EXCEPT !.begun = TRUE, !.work = w])
  BY DEF Begin
<1> DEFINE fr == [Top EXCEPT !.begun = TRUE, !.work = w]
<1>2. fr.sort = Top.sort /\ fr.decl = Top.decl /\ fr.todo = Top.todo /\ fr.vars = Top.vars
  OBVIOUS
<1>3. Step.op # "if" /\ frames' = Replace(fr)
  BY <1>1 DEF Begin
<1> HIDE DEF fr
<1> QED
  BY <1>2, <1>3, StaysInPlace

LEMMA CallArgumentInPlace == ASSUME Steady, InPlace(frames), CallArgument PROVE InPlace(frames')
<1>1. PICK w : frames' = Replace([Top EXCEPT !.work = w])
  BY DEF CallArgument
<1> DEFINE fr == [Top EXCEPT !.work = w]
<1>2. /\ fr.sort = Top.sort /\ fr.decl = Top.decl /\ fr.todo = Top.todo /\ fr.vars = Top.vars
      /\ fr.begun = Top.begun /\ frames' = Replace(fr)
  BY <1>1
<1> HIDE DEF fr
<1> QED
  BY <1>2, StaysInPlace

LEMMA CallSucceededInPlace == ASSUME Steady, InPlace(frames), CallSucceeded PROVE InPlace(frames')
<1> DEFINE fr == [Top EXCEPT !.work = Tail(@)]
<1>1. /\ fr.sort = Top.sort /\ fr.decl = Top.decl /\ fr.todo = Top.todo /\ fr.vars = Top.vars
      /\ fr.begun = Top.begun /\ frames' = Replace(fr)
  BY DEF CallSucceeded
<1> HIDE DEF fr
<1> QED
  BY <1>1, StaysInPlace

\* Steps after which the next one is on.
LEMMA AdvancedInPlace ==
  ASSUME Steady, InPlace(frames), Top.todo # <<>>, NEW fr,
         fr.sort = Top.sort, fr.decl = Top.decl, fr.todo = Tail(Top.todo), fr.begun = FALSE,
         \A a \in Places : Where(Top, a) => SeenAt(Top.decl, fr.vars, Place(Advanced(a)))
  PROVE  InPlace(Replace(fr))
<1>1. PICK at \in [DOMAIN frames -> Places] : Placed(frames, at)
  BY DEF InPlace
<1> DEFINE a == at[Len(frames)]
<1>2. a \in Places /\ Where(Top, a)
  BY <1>1, StandingAtTop
<1>3. Top.todo \in Seq(Steps(Top.decl))
  BY TopIsOK DEF FrameOK
<1> HIDE DEF a
<1>4. Standing(Top.decl, Tail(Top.todo), Advanced(a))
  BY <1>2, <1>3, TailStands DEF Where
<1>5. SeenAt(fr.decl, fr.vars, Reached(fr, Advanced(a)))
  BY <1>2 DEF Reached
<1>6. Where(fr, Advanced(a))
  BY <1>4, <1>5 DEF Where
<1>7. Advanced(a) \in Places /\ SameHome(Advanced(a), a)
  BY <1>2, AdvancedIs
<1> QED
  BY <1>1, <1>6, <1>7, ReplacedInPlace DEF a

LEMMA NoLinesInPlace == ASSUME Steady, InPlace(frames), NoLines PROVE InPlace(frames')
<1> DEFINE fr == [Top EXCEPT !.todo = Tail(@)]
<1>1. DOMAIN Top = Fields
  BY TopIsOK DEF FrameOK
<1>2. /\ fr.sort = Top.sort /\ fr.decl = Top.decl /\ fr.todo = Tail(Top.todo) /\ fr.vars = Top.vars
      /\ fr.begun = Top.begun /\ frames' = Replace(fr)
  BY <1>1 DEF NoLines, Fields
<1>3. Top.todo # <<>> /\ fr.begun = FALSE
  <2>1. Top.begun \in BOOLEAN
    BY TopIsOK DEF FrameOK
  <2> QED
    BY <1>2, <2>1 DEF NoLines, Fresh
<1> HIDE DEF fr
<1>4. ASSUME NEW a \in Places, Where(Top, a) PROVE SeenAt(Top.decl, fr.vars, Place(Advanced(a)))
  BY <1>2, <1>4, AdvancedSees DEF Where
<1> QED
  BY <1>2, <1>3, <1>4, AdvancedInPlace

\* What a step binds, and the walk's check of it.
LEMMA PlainOfStep ==
  ASSUME Steady, Top.todo # <<>>, NEW n \in Bound(Step), Plain(Top.decl, n)
  PROVE  n = Step.name
<1>1. Step \in Steps(Top.decl)
  BY StepIsOK
<1>2. CASE n # Step.name
  <2>1. PICK f \in Step.val.fields : n = FieldVar(Step.name, f)
    BY <1>2 DEF Bound
  <2> DEFINE F(s) == {FieldVar(s.name, g) : g \in s.val.fields}
             S == Steps(Top.decl)
  <2>2. n \in F(Step)
    BY <2>1
  <2>3. FieldNames(Top.decl) = UNION {F(s) : s \in S}
    BY DEF FieldNames
  <2>4. Step \in S
    BY <1>1
  <2> HIDE DEF F, S
  <2>5. n \in FieldNames(Top.decl)
    BY <2>2, <2>3, <2>4
  <2> QED
    BY <2>5 DEF Plain
<1> QED
  BY <1>2

LEMMA LoopNameIs ==
  ASSUME NEW d, NEW y \in StepsOf(d), y.loops # {} \/ y.step.op = "for"
  PROVE  y.step.name \in LoopNames(d)
BY DEF LoopNames

LEMMA ConstantSeen ==
  ASSUME Steady, Top.todo # <<>>, Step.op = "const", Plain(Top.decl, Step.name), NEW a \in Places, Where(Top, a)
  PROVE  ~a.looped /\ Step.name \in Seen(Top.decl, After(a))
<1>1. PICK y \in StepsOf(Top.decl) :
        y.step = Step /\ IF a.looped THEN y.loops # {} ELSE y.loops = {} /\ y.path = Place(a)
  BY HeadEntry
<1>2. ~a.looped
  BY <1>1, LoopNameIs DEF Plain
<1>3. Before(y.path, After(a))
  <2>1. a.home \in Seq(Nat) /\ a.next \in Nat \ {0}
    BY AdvancedIs
  <2> QED
    BY <1>1, <1>2, <2>1, BeforeSelf DEF Place, After
<1>4. Step.name \in Seen(Top.decl, After(a))
  BY <1>1, <1>2, <1>3 DEF Seen
<1> QED
  BY <1>2, <1>4

LEMMA FinishInPlace == ASSUME Steady, InPlace(frames), Finish PROVE InPlace(frames')
<1>1. FrameOK(source, modules, Top) /\ Top.begun /\ Top.todo # <<>>
  BY TopIsOK DEF Finish, Computed, FrameOK
<1>2. CASE Top.handling /\ Step.guard = "recover"
  <2> DEFINE fr == [Top EXCEPT !.begun = FALSE, !.handling = FALSE]
  <2>1. fr.sort = Top.sort /\ fr.decl = Top.decl /\ fr.todo = Top.todo /\ fr.vars = Top.vars
    OBVIOUS
  <2>2. frames' = Replace(fr)
    BY <1>2 DEF Finish
  <2>3. Step.op # "if"
    BY <1>1, <1>2, StepIsOK
  <2> HIDE DEF fr
  <2> QED
    BY <2>1, <2>2, <2>3, StaysInPlace
<1>3. CASE ~(Top.handling /\ Step.guard = "recover")
  <2> DEFINE names == IF Step.op = "const" THEN Bound(Step) ELSE {}
             vs == Upon(Own(names), Top.vars)
             fr == [Top EXCEPT !.begun = FALSE, !.handling = FALSE, !.tries = 0,
                               !.todo = Tail(@), !.vars = vs, !.certain = @ \cup names]
  <2>1. /\ fr.sort = Top.sort /\ fr.decl = Top.decl /\ fr.todo = Tail(Top.todo) /\ fr.begun = FALSE
        /\ fr.vars = vs
    BY <1>1 DEF FrameOK, Fields
  <2>2. frames' = Replace(fr)
    BY <1>3 DEF Finish
  <2> HIDE DEF fr
  <2>3. ASSUME NEW a \in Places, Where(Top, a) PROVE SeenAt(Top.decl, vs, Place(Advanced(a)))
    <3>1. SeenAt(Top.decl, Top.vars, Place(Advanced(a)))
      BY <2>3, AdvancedSees DEF Where
    <3>2. ASSUME NEW n \in DOMAIN vs, vs[n] = "own", Plain(Top.decl, n) PROVE n \in Seen(Top.decl, Place(Advanced(a)))
      <4>1. CASE n \in names
        <5>1. n = Step.name /\ Step.op = "const"
          BY <1>1, <3>2, <4>1, PlainOfStep
        <5>2. ~a.looped /\ n \in Seen(Top.decl, After(a))
          BY <1>1, <2>3, <3>2, <5>1, ConstantSeen
        <5> QED
          BY <5>2, AdvancedIs
      <4>2. CASE n \notin names
        <5>1. n \in DOMAIN Top.vars /\ Top.vars[n] = "own"
          BY <3>2, <4>2 DEF Upon, Own
        <5> QED
          BY <3>1, <3>2, <5>1 DEF SeenAt
      <4> QED
        BY <4>1, <4>2
    <3> HIDE DEF vs
    <3> QED
      BY <3>2 DEF SeenAt
  <2> HIDE DEF vs
  <2> QED
    BY <1>1, <2>1, <2>2, <2>3, AdvancedInPlace
<1> QED
  BY <1>2, <1>3

-----------------------------------------------------------------------------
\* Branches and handlers, and where they begin.

LEMMA PushedInPlace ==
  ASSUME Steady, NEW at \in [DOMAIN frames -> Places], Placed(frames, at),
         NEW below, below.sort = Top.sort, Where(below, at[Len(frames)]),
         NEW fr, NEW c \in Places, Where(fr, c),
         fr.sort = "branch" => Linked(below, c, at[Len(frames)])
  PROVE  InPlace(Push(fr, below))
<1> DEFINE n == Len(frames)
           r == Replace(below)
           g == Append(r, fr)
<1>1. n \in Nat \ {0} /\ DOMAIN frames = 1..n /\ Top = frames[n]
  BY TopIsOK
<1>2. \A j \in DOMAIN frames : r[j] = IF j = n THEN below ELSE frames[j]
  BY ChangedTop
<1>3. r \in Seq(Range(frames) \cup {below}) /\ Len(r) = n
  <2>1. frames \in Seq(Range(frames) \cup {below})
    BY SeqMonotonic DEF Steady, FramesOK
  <2> QED
    BY <1>1, <2>1, ExceptSeq, ChangedTop DEF Replace
<1> HIDE DEF r
<1>4. /\ Len(g) = n + 1 /\ g \in Seq(Range(frames) \cup {below, fr})
      /\ \A j \in 1..n : g[j] = r[j]
      /\ g[n + 1] = fr
  <2>1. r \in Seq(Range(frames) \cup {below, fr})
    BY <1>3, SeqMonotonic
  <2> QED
    BY <1>3, <2>1, AppendProperties
<1>5. DOMAIN g = 1 .. n + 1
  BY <1>4, LenProperties
<1>6. Push(fr, below) = g
  BY DEF Push, r
<1> HIDE DEF g
<1>7. /\ \A j \in 1 .. n - 1 : g[j] = frames[j]
      /\ g[n] = below /\ g[n].sort = frames[n].sort
  BY <1>1, <1>2, <1>4
<1>8. Where(g[n], at[n]) /\ Where(g[n + 1], c) /\ (g[n + 1].sort = "branch" => Linked(g[n], c, at[n]))
  BY <1>4, <1>7
<1> HIDE DEF n
<1>9. InPlace(g)
  BY <1>1, <1>5, <1>7, <1>8, AddedInPlace
<1> QED
  BY <1>6, <1>9

LEMMA EntriesClosed ==
  ASSUME Steady, NEW y \in StepsOf(Top.decl)
  PROVE  Inside(y) \subseteq StepsOf(Top.decl)
<1>1. Top.file \in Path /\ Top.decl \in source[Top.file].decls
  BY TopIsOK DEF FrameOK, Steady
<1>2. ParserGives(source[Top.file])
  BY <1>1 DEF Steady, SourceOK
<1> QED
  BY <1>1, <1>2 DEF ParserGives

LEMMA RepeatedFrom ==
  ASSUME NEW S, NEW body \in Seq(S), NEW n \in Nat, NEW i \in DOMAIN Repeated(n, body)
  PROVE  \E j \in DOMAIN body : Repeated(n, body)[i] = body[j]
<1> DEFINE k == Len(body)
           j == ((i - 1) % k) + 1
<1>1. k \in Nat /\ DOMAIN body = 1..k
  BY LenProperties
<1>2. n * k \in Nat /\ i \in 1 .. n * k /\ Repeated(n, body)[i] = body[j]
  BY <1>1 DEF Repeated
<1>3. k # 0
  <2>1. k = 0 => n * k = 0
    OBVIOUS
  <2> QED
    BY <1>2, <2>1
<1>4. j \in 1..k
  BY <1>1, <1>2, <1>3
<1> QED
  BY <1>1, <1>2, <1>4

\* Where the part begins that the step at a leads to, with the i-th entry in it.
Within(a, i, op) ==
  IF a.looped \/ op = "for" THEN [a EXCEPT !.looped = TRUE] ELSE [home |-> Place(a), next |-> i, looped |-> FALSE]

LEMMA WithinIs ==
  ASSUME NEW a \in Places, NEW i \in Nat \ {0}, NEW op
  PROVE  /\ Within(a, i, op) \in Places
         /\ Within(a, i, op).looped <=> a.looped \/ op = "for"
         /\ \A q : Before(q, Place(a)) => Before(q, Place(Within(a, i, op)))
         /\ a.looped \/ op = "for" => /\ Within(a, i, op).home = a.home
                                  /\ Within(a, i, op).next = a.next
         /\ ~(a.looped \/ op = "for") => /\ Within(a, i, op).home = Place(a)
                                     /\ Within(a, i, op).next = i
<1>1. a.home \in Seq(Nat) /\ a.next \in Nat \ {0} /\ a.looped \in BOOLEAN /\ Place(a) \in Seq(Nat)
  <2>1. a.home \in Seq(Nat) /\ a.next \in Nat \ {0} /\ a.looped \in BOOLEAN
    BY AdvancedIs
  <2> QED
    BY <2>1, AppendedPath DEF Place
<1>2. CASE a.looped \/ op = "for"
  <2> DEFINE c == [a EXCEPT !.looped = TRUE]
  <2>1. c \in Places /\ c.home = a.home /\ c.next = a.next /\ c.looped = TRUE
    BY DEF Places
  <2>2. Within(a, i, op) = c
    BY <1>2 DEF Within
  <2> HIDE DEF c
  <2>3. Place(c) = Place(a)
    BY <2>1 DEF Place
  <2> QED
    BY <1>2, <2>1, <2>2, <2>3
<1>3. CASE ~(a.looped \/ op = "for")
  <2> DEFINE c == [home |-> Place(a), next |-> i, looped |-> FALSE]
  <2>1. c \in Places /\ c.home = Place(a) /\ c.next = i /\ c.looped = FALSE
    BY <1>1 DEF Places
  <2>2. Within(a, i, op) = c
    BY <1>3 DEF Within
  <2> HIDE DEF c
  <2>3. Place(c) = Append(Place(a), i)
    BY <2>1 DEF Place
  <2>4. \A q : Before(q, Place(a)) => Before(q, Place(c))
    BY <1>1, <2>3, BeforeInner
  <2> QED
    BY <1>3, <2>1, <2>2, <2>4
<1> QED
  BY <1>2, <1>3

\* A part with the steps of the i-th and later places within the step that is on.
LEMMA PartInPlace ==
  ASSUME Steady, Top.todo # <<>>,
         NEW at \in [DOMAIN frames -> Places], Placed(frames, at), SeenAt(Top.decl, Top.vars, Place(at[Len(frames)])),
         NEW i \in Nat \ {0},
         NEW below, below.sort = Top.sort, Where(below, at[Len(frames)]),
         NEW fr, fr.decl = Top.decl, fr.begun = FALSE, Standing(Top.decl, fr.todo, Within(at[Len(frames)], i, Step.op)),
         \A n \in DOMAIN fr.vars : fr.vars[n] = "own" /\ Plain(Top.decl, n) => n \in DOMAIN Top.vars /\ Top.vars[n] = "own",
         fr.sort = "branch" => Linked(below, Within(at[Len(frames)], i, Step.op), at[Len(frames)])
  PROVE  InPlace(Push(fr, below))
<1> DEFINE a == at[Len(frames)]
           c == Within(a, i, Step.op)
<1>1. a \in Places
  BY StandingAtTop
<1> HIDE DEF a
<1>2. c \in Places /\ \A q : Before(q, Place(a)) => Before(q, Place(c))
  BY <1>1, WithinIs
<1>3. SeenAt(Top.decl, Top.vars, Place(a))
  BY DEF a
<1> HIDE DEF c
<1>4. SeenAt(Top.decl, Top.vars, Place(c))
  BY <1>2, <1>3, SeenGrows
<1>5. SeenAt(fr.decl, fr.vars, Reached(fr, c))
  BY <1>4 DEF SeenAt, Reached
<1>6. Where(fr, c)
  BY <1>5 DEF Where, a, c
<1> QED
  BY <1>2, <1>6, PushedInPlace DEF a, c

LEMMA BodyStands ==
  ASSUME Steady, Top.todo # <<>>, NEW a \in Places, Where(Top, a)
  PROVE  /\ Standing(Top.decl, Step.body, Within(a, 1, Step.op))
         /\ Step.op # "for" => Standing(Top.decl, Step.els, Within(a, Len(Step.body) + 1, Step.op))
<1>1. PICK y \in StepsOf(Top.decl) :
        y.step = Step /\ IF a.looped THEN y.loops # {} ELSE y.loops = {} /\ y.path = Place(a)
  BY HeadEntry
<1>2. Inside(y) \subseteq StepsOf(Top.decl)
  BY EntriesClosed
<1>3. /\ Len(Step.body) \in Nat /\ DOMAIN Step.body = 1..Len(Step.body)
      /\ DOMAIN Step.els = 1..Len(Step.els) /\ Len(Step.els) \in Nat
  BY StepIsOK, LenProperties
<1>4. ASSUME NEW j \in DOMAIN Step.body
      PROVE  \E e \in StepsOf(Top.decl) : e.step = Step.body[j] /\ EntryAt(Within(a, 1, Step.op), j, e)
  <2>1. PICK e \in StepsOf(Top.decl) :
          /\ e.step = Step.body[j]
          /\ e.path = Append(y.path, j)
          /\ e.loops = IF Step.op = "for" THEN y.loops \cup {y.path} ELSE y.loops
    <3>1. j \in DOMAIN y.step.body
      BY <1>1
    <3>2. \E e \in StepsOf(Top.decl) :
            /\ e.step = y.step.body[j]
            /\ e.path = Append(y.path, j)
            /\ e.loops = IF y.step.op = "for" THEN y.loops \cup {y.path} ELSE y.loops
      BY <1>2, <3>1, BodyEntry
    <3> QED
      BY <1>1, <3>2
  <2> DEFINE c == Within(a, 1, Step.op)
  <2>2. CASE a.looped \/ Step.op = "for"
    <3>1. e.loops # {}
      <4>1. CASE Step.op = "for"
        BY <2>1, <4>1
      <4>2. CASE Step.op # "for"
        BY <1>1, <2>1, <2>2, <4>2
      <4> QED
        BY <4>1, <4>2
    <3>2. c.looped
      BY <2>2, WithinIs
    <3> HIDE DEF c
    <3>3. EntryAt(c, j, e)
      BY <3>1, <3>2 DEF EntryAt
    <3> QED
      BY <2>1, <3>3 DEF c
  <2>3. CASE ~(a.looped \/ Step.op = "for")
    <3>1. e.loops = {} /\ e.path = Append(Place(a), j)
      BY <1>1, <2>1, <2>3
    <3>2. c.home = Place(a) /\ c.next = 1 /\ ~c.looped
      BY <2>3, WithinIs
    <3>3. 1 + j - 1 = j
      BY <1>3
    <3> HIDE DEF c
    <3>4. EntryAt(c, j, e)
      BY <3>1, <3>2, <3>3 DEF EntryAt
    <3> QED
      BY <2>1, <3>4 DEF c
  <2> QED
    BY <2>2, <2>3
<1>5. ASSUME Step.op # "for", NEW j \in DOMAIN Step.els
      PROVE  \E e \in StepsOf(Top.decl) : e.step = Step.els[j] /\ EntryAt(Within(a, Len(Step.body) + 1, Step.op), j, e)
  <2>1. PICK e \in StepsOf(Top.decl) :
          e.step = Step.els[j] /\ e.path = Append(y.path, Len(Step.body) + j) /\ e.loops = y.loops
    BY <1>1, <1>2, ElseEntry
  <2> DEFINE i == Len(Step.body) + 1
             c == Within(a, i, Step.op)
  <2>2. i \in Nat \ {0} /\ i + j - 1 = Len(Step.body) + j
    BY <1>3
  <2> HIDE DEF i
  <2>3. CASE a.looped
    <3>1. e.loops # {} /\ c.looped
      BY <1>1, <2>1, <2>2, <2>3, WithinIs
    <3> HIDE DEF c
    <3>2. EntryAt(c, j, e)
      BY <3>1 DEF EntryAt
    <3> QED
      BY <2>1, <3>2 DEF c, i
  <2>4. CASE ~a.looped
    <3>1. e.loops = {} /\ e.path = Append(Place(a), i + j - 1)
      BY <1>1, <2>1, <2>2, <2>4
    <3>2. c.home = Place(a) /\ c.next = i /\ ~c.looped
      BY <1>5, <2>2, <2>4, WithinIs
    <3> HIDE DEF c
    <3>3. EntryAt(c, j, e)
      BY <3>1, <3>2 DEF EntryAt
    <3> QED
      BY <2>1, <3>3 DEF c, i
  <2> QED
    BY <2>3, <2>4
<1> QED
  BY <1>4, <1>5 DEF Standing

\* The step is begun, and an if may now have bound more.
LEMMA BegunInPlace ==
  ASSUME Steady, Top.todo # <<>>, ~Top.begun, NEW a \in Places, Where(Top, a),
         NEW below, below.decl = Top.decl, below.todo = Top.todo, below.vars = Top.vars, below.begun = TRUE
  PROVE  Where(below, a) /\ SeenAt(Top.decl, Top.vars, Place(a))
<1>1. SeenAt(Top.decl, Top.vars, Place(a))
  BY DEF Where, Reached
<1>2. \A q : Before(q, Place(a)) => Before(q, After(a))
  <2>1. a.home \in Seq(Nat) /\ a.next \in Nat
    BY AdvancedIs
  <2> QED
    BY <2>1, BeforeNext DEF Place, After
<1>3. SeenAt(Top.decl, Top.vars, After(a))
  BY <1>1, <1>2, SeenGrows
<1>4. SeenAt(below.decl, below.vars, Reached(below, a))
  BY <1>1, <1>3 DEF Reached
<1> QED
  BY <1>1, <1>4 DEF Where

LEMMA EnterBranchInPlace == ASSUME Steady, InPlace(frames), EnterBranch PROVE InPlace(frames')
<1> DEFINE below == [Top EXCEPT !.begun = TRUE]
<1>1. FrameOK(source, modules, Top) /\ Top.todo # <<>> /\ ~Top.begun
  BY TopIsOK DEF EnterBranch, Fresh
<1>2. PICK at \in [DOMAIN frames -> Places] : Placed(frames, at)
  BY DEF InPlace
<1> DEFINE a == at[Len(frames)]
<1>3. a \in Places /\ Where(Top, a)
  BY <1>2, StandingAtTop
<1>4. /\ below.sort = Top.sort /\ below.decl = Top.decl /\ below.todo = Top.todo
      /\ below.vars = Top.vars /\ below.begun = TRUE
  BY <1>1 DEF FrameOK, Fields
<1> HIDE DEF below
<1>5. Where(below, a) /\ SeenAt(Top.decl, Top.vars, Place(a))
  <2> HIDE DEF a
  <2> QED
    BY <1>1, <1>3, <1>4, BegunInPlace
<1>6. Head(below.todo) = Step
  BY <1>4 DEF Step
<1>7. CASE Step.op = "if"
  <2>1. PICK b \in {Step.body, Step.els} :
          frames' = Push(Frame("branch", Top.file, Top.decl, b, Top.vars, Top.certain, Top.settings), below)
    BY <1>7 DEF EnterBranch, below
  <2> DEFINE fr == Frame("branch", Top.file, Top.decl, b, Top.vars, Top.certain, Top.settings)
  <2>2. fr.decl = Top.decl /\ fr.begun = FALSE /\ fr.todo = b /\ fr.vars = Top.vars
    BY DEF Frame
  <2>3. PICK i \in Nat \ {0} : Standing(Top.decl, b, Within(a, i, Step.op))
    <3>1. CASE b = Step.body
      <4>1. Standing(Top.decl, Step.body, Within(a, 1, Step.op))
        BY <1>1, <1>3, <1>7, BodyStands
      <4> QED
        BY <3>1, <4>1
    <3>2. CASE b = Step.els
      <4>1. Len(Step.body) + 1 \in Nat \ {0}
        BY <1>1, StepIsOK, LenProperties
      <4>2. Standing(Top.decl, Step.els, Within(a, Len(Step.body) + 1, Step.op))
        BY <1>1, <1>3, <1>7, BodyStands
      <4> QED
        BY <3>2, <4>1, <4>2
    <3> QED
      BY <3>1, <3>2
  <2>4. frames' = Push(fr, below)
    BY <2>1
  <2> DEFINE c == Within(a, i, Step.op)
  <2>5. Linked(below, c, a)
    <3> HIDE DEF a
    <3>1. /\ c.looped <=> a.looped
          /\ a.looped => c.home = a.home /\ c.next = a.next
          /\ ~a.looped => c.home = Place(a)
      BY <1>3, <1>7, WithinIs
    <3> HIDE DEF c
    <3> QED
      BY <1>4, <1>6, <1>7, <3>1 DEF Linked
  <2> HIDE DEF fr
  <2>6. InPlace(Push(fr, below))
    BY <1>1, <1>2, <1>4, <1>5, <2>2, <2>3, <2>5, PartInPlace
  <2> QED
    BY <2>4, <2>6
<1>8. CASE Step.op = "for"
  <2> DEFINE vs == Upon(Own({Step.name}), Top.vars)
  <2>1. PICK n \in 1..MaxLines :
          frames' = Push(Frame("branch", Top.file, Top.decl, Repeated(n, Step.body), vs,
                               Top.certain \cup {Step.name}, Top.settings), below)
    BY <1>8 DEF EnterBranch, below
  <2> DEFINE b == Repeated(n, Step.body)
             fr == Frame("branch", Top.file, Top.decl, b, vs, Top.certain \cup {Step.name}, Top.settings)
             c == Within(a, 1, Step.op)
  <2>2. fr.decl = Top.decl /\ fr.begun = FALSE /\ fr.todo = b /\ fr.vars = vs
    BY DEF Frame
  <2>3. c.looped /\ c.home = a.home /\ c.next = a.next
    <3> HIDE DEF a
    <3> QED
      BY <1>3, <1>8, WithinIs
  <2>4. Standing(Top.decl, b, c)
    <3>1. n \in Nat /\ Step.body \in Seq(Steps(Top.decl))
      BY <1>1, StepIsOK, DispatchBounds
    <3>2. Standing(Top.decl, Step.body, c)
      BY <1>1, <1>3, <1>8, BodyStands
    <3> HIDE DEF c
    <3>3. ASSUME NEW i \in DOMAIN b PROVE \E y \in StepsOf(Top.decl) : y.step = b[i] /\ EntryAt(c, i, y)
      <4>1. PICK j \in DOMAIN Step.body : b[i] = Step.body[j]
        BY <3>1, RepeatedFrom
      <4>2. PICK y \in StepsOf(Top.decl) : y.step = Step.body[j] /\ EntryAt(c, j, y)
        BY <3>2 DEF Standing
      <4>3. EntryAt(c, i, y)
        BY <2>3, <4>2 DEF EntryAt
      <4> QED
        BY <4>1, <4>2, <4>3
    <3> HIDE DEF b
    <3> QED
      BY <3>3 DEF Standing
  <2>5. ASSUME NEW x \in DOMAIN vs, vs[x] = "own", Plain(Top.decl, x) PROVE x \in DOMAIN Top.vars /\ Top.vars[x] = "own"
    <3>1. PICK y \in StepsOf(Top.decl) : y.step = Step
      BY <1>1, <1>3, HeadEntry
    <3>2. x # Step.name
      BY <1>8, <2>5, <3>1, LoopNameIs DEF Plain
    <3> QED
      BY <2>5, <3>2 DEF Upon, Own
  <2>6. Linked(below, c, a)
    <3> HIDE DEF a, c
    <3> QED
      BY <1>4, <1>6, <1>8, <2>3 DEF Linked
  <2>7. frames' = Push(fr, below)
    BY <2>1
  <2> HIDE DEF fr, b, vs
  <2>8. \A x \in DOMAIN fr.vars :
          fr.vars[x] = "own" /\ Plain(Top.decl, x) => x \in DOMAIN Top.vars /\ Top.vars[x] = "own"
    BY <2>2, <2>5
  <2>9. Standing(Top.decl, fr.todo, c) /\ (fr.sort = "branch" => Linked(below, c, a))
    BY <2>2, <2>4, <2>6
  <2>10. PICK i \in Nat \ {0} : i = 1
    OBVIOUS
  <2>11. InPlace(Push(fr, below))
    BY <1>1, <1>2, <1>4, <1>5, <2>2, <2>8, <2>9, <2>10, PartInPlace
  <2> QED
    BY <2>7, <2>11
<1> QED
  BY <1>7, <1>8 DEF EnterBranch

LEMMA HandleInPlace == ASSUME Steady, InPlace(frames), Handle PROVE InPlace(frames')
<1> DEFINE below == [Top EXCEPT !.work = <<>>, !.handling = TRUE, !.tries = @ + 1]
           vs == Upon(Own({Step.name}), Top.vars)
           fr == Frame("handler", Top.file, Top.decl, Step.body, vs, Top.certain \cup {Step.name}, Top.settings)
<1>1. FrameOK(source, modules, Top) /\ Top.todo # <<>> /\ Step.guard # "none"
  BY TopIsOK DEF Handle, Handled
<1>2. PICK at \in [DOMAIN frames -> Places] : Placed(frames, at)
  BY DEF InPlace
<1> DEFINE a == at[Len(frames)]
<1>3. a \in Places /\ Where(Top, a)
  BY <1>2, StandingAtTop
<1>4. /\ below.sort = Top.sort /\ below.decl = Top.decl /\ below.todo = Top.todo
      /\ below.vars = Top.vars /\ below.begun = Top.begun
  BY <1>1 DEF FrameOK, Fields
<1>5. frames' = Push(fr, below)
  BY DEF Handle
<1>6. fr.sort = "handler" /\ fr.decl = Top.decl /\ fr.begun = FALSE /\ fr.todo = Step.body /\ fr.vars = vs
  BY DEF Frame
<1>7. Step.op = "exec"
  BY <1>1, StepIsOK
<1> HIDE DEF below, fr
<1>8. Reached(Top, a) = Place(a) /\ Reached(below, a) = Place(a)
  BY <1>4, <1>7 DEF Reached, Step
<1>9. Where(below, a) /\ SeenAt(Top.decl, Top.vars, Place(a))
  BY <1>3, <1>4, <1>8 DEF Where
<1>10. Standing(Top.decl, fr.todo, Within(a, 1, Step.op))
  <2>1. Standing(Top.decl, Step.body, Within(a, 1, Step.op))
    BY <1>1, <1>3, <1>7, BodyStands
  <2> QED
    BY <1>6, <2>1
<1>11. ASSUME NEW x \in DOMAIN vs, vs[x] = "own", Plain(Top.decl, x) PROVE x \in DOMAIN Top.vars /\ Top.vars[x] = "own"
  <2>1. Step.name \in FailureNames(Top.decl)
    BY <1>1, StepIsOK DEF FailureNames
  <2>2. x # Step.name
    BY <1>11, <2>1 DEF Plain
  <2> QED
    BY <1>11, <2>2 DEF Upon, Own
<1> HIDE DEF vs
<1>12. \A x \in DOMAIN fr.vars :
         fr.vars[x] = "own" /\ Plain(Top.decl, x) => x \in DOMAIN Top.vars /\ Top.vars[x] = "own"
  BY <1>6, <1>11
<1>13. PICK i \in Nat \ {0} : i = 1
  OBVIOUS
<1>14. InPlace(Push(fr, below))
  BY <1>1, <1>2, <1>4, <1>6, <1>9, <1>10, <1>12, <1>13, PartInPlace
<1> QED
  BY <1>5, <1>14

-----------------------------------------------------------------------------
\* Frames that go, and what a branch leaves behind.

LEMMA LeftInPlace ==
  ASSUME Steady, InPlace(frames), NEW k \in Nat, k + 1 \in DOMAIN frames
  PROVE  InPlace(SubSeq(frames, 1, k))
<1> DEFINE g == SubSeq(frames, 1, k)
           n == Len(frames)
<1>1. n \in Nat /\ DOMAIN frames = 1..n
  BY TopIsOK
<1>2. g = SubSeq(frames, 1, k)
  OBVIOUS
<1> HIDE DEF g
<1>3. FramesOK(source, modules, g)
  BY <1>2, LeftOK
<1>4. Len(g) = k
  BY <1>2, LeftOK
<1>5. \A j \in 1..k : g[j] = frames[j]
  BY <1>2, LeftOK
<1>6. DOMAIN g = 1..k
  BY <1>3, <1>4, LenProperties DEF FramesOK
<1> HIDE DEF n
<1>7. k \in 0..n
  BY <1>1
<1>8. InPlace(g)
  BY <1>1, <1>5, <1>6, <1>7, PrefixInPlace
<1> QED
  BY <1>8 DEF g

LEMMA NoneInPlace == InPlace(<<>>)
<1>1. DOMAIN <<>> = {}
  OBVIOUS
<1> DEFINE at == [j \in {} |-> j]
<1>2. at \in [DOMAIN <<>> -> Places]
  BY <1>1
<1> HIDE DEF at
<1>3. Placed(<<>>, at)
  BY <1>1 DEF Placed
<1> QED
  BY <1>2, <1>3 DEF InPlace

LEMMA FailInPlace == ASSUME Steady, InPlace(frames), Fail PROVE InPlace(frames')
BY FrontIs, LeftInPlace DEF Fail

LEMMA LeaveInPlace ==
  ASSUME Steady, InPlace(frames), NEW k \in Nat, k + 1 \in DOMAIN frames, Leave(k)
  PROVE  InPlace(frames')
BY LeftInPlace, NoneInPlace DEF Leave

LEMMA ReturnInPlace == ASSUME Steady, InPlace(frames), Return PROVE InPlace(frames')
<1> DEFINE k == Current - 1
<1>1. k \in Nat /\ k + 1 = Current /\ Current \in DOMAIN frames
  BY CurrentIs, TopIsOK
<1>2. Leave(k)
  BY DEF Return
<1> HIDE DEF k
<1> QED
  BY <1>1, <1>2, LeaveInPlace

LEMMA ActivationEndsInPlace == ASSUME Steady, InPlace(frames), ActivationEnds PROVE InPlace(frames')
BY FrontIs, LeaveInPlace DEF ActivationEnds

\* The variables of a branch are bound where the if is done.
LEMMA BranchSeen ==
  ASSUME NEW upper, upper.todo = <<>>, upper.begun => upper.todo # <<>>,
         NEW low, upper.decl = low.decl,
         NEW a \in Places, NEW b \in Places, Linked(low, a, b), Where(upper, a)
  PROVE  SeenAt(low.decl, upper.vars, Reached(low, b))
<1>1. /\ a.home \in Seq(Nat) /\ a.next \in Nat \ {0} /\ b.home \in Seq(Nat) /\ b.next \in Nat \ {0}
  BY AdvancedIs
<1>2. SeenAt(low.decl, upper.vars, Place(a))
  BY DEF Where, Reached
<1>3. CASE a.looped
  <2>1. Place(a) = Place(b)
    BY <1>3 DEF Linked, Place
  <2>2. Reached(low, b) = Place(b)
    BY <1>3 DEF Linked, Reached
  <2> QED
    BY <1>2, <2>1, <2>2
<1>4. CASE ~a.looped
  <2>1. a.home = Place(b) /\ Reached(low, b) = After(b)
    BY <1>4 DEF Linked, Reached
  <2>2. \A q : Before(q, Place(a)) => Before(q, After(b))
    BY <1>1, <2>1, BeforeOuter DEF Place, After
  <2> QED
    BY <1>2, <2>1, <2>2, SeenGrows
<1> QED
  BY <1>3, <1>4

LEMMA PartEndsInPlace == ASSUME Steady, InPlace(frames), PartEnds PROVE InPlace(frames')
<1> DEFINE n == Len(frames)
           k == n - 1
           low == frames[k]
           vs == IF Top.sort = "branch" THEN Top.vars ELSE low.vars
           fr == [low EXCEPT !.vars = vs]
           p == SubSeq(frames, 1, k)
           g == [p EXCEPT ![k] = fr]
<1>1. n \in Nat /\ n > 0 /\ DOMAIN frames = 1..n /\ Top = frames[n]
  BY TopIsOK
<1>2. FrameOK(source, modules, Top) /\ IsPart(Top) /\ Top.todo = <<>>
  BY TopIsOK DEF PartEnds, IsPart
<1>3. n > 1 /\ PartOf(Top, low)
  <2>1. IF n = 1 THEN ~IsPart(Top) ELSE Above(Top, frames[n - 1])
    BY <1>1 DEF Steady, FramesOK
  <2> QED
    BY <1>1, <1>2, <2>1 DEF Above
<1>4. k \in DOMAIN frames /\ k \in Nat /\ k \in 1..n /\ k \in 1..k /\ k + 1 \in DOMAIN frames
  BY <1>1, <1>3
<1>5. DOMAIN low = Fields
  BY <1>4 DEF Steady, FramesOK, FrameOK
<1>6. /\ fr.sort = low.sort /\ fr.decl = low.decl /\ fr.todo = low.todo /\ fr.begun = low.begun
      /\ fr.vars = vs
  BY <1>5 DEF Fields
<1>7. p = SubSeq(frames, 1, k)
  OBVIOUS
<1>8. frames' = g
  <2>1. frames' = [Front(frames) EXCEPT ![k].vars = IF Top.sort = "branch" THEN Top.vars ELSE @]
    BY DEF PartEnds
  <2>2. Front(frames) = p
    BY FrontIs
  <2>3. frames' = [p EXCEPT ![k] = [p[k] EXCEPT !.vars = IF Top.sort = "branch" THEN Top.vars ELSE p[k].vars]]
    BY <2>1, <2>2
  <2>4. p[k] = low
    BY <1>1, <1>4, LeftOK
  <2> QED
    BY <2>3, <2>4
<1> HIDE DEF p, fr
<1>9. \A j \in 1..k : p[j] = frames[j]
  BY <1>4, <1>7, LeftOK
<1>10. DOMAIN p = 1..k
  <2>1. FramesOK(source, modules, p)
    BY <1>4, <1>7, LeftOK
  <2>2. Len(p) = k
    BY <1>4, <1>7, LeftOK
  <2> QED
    BY <2>1, <2>2, LenProperties DEF FramesOK
<1>11. DOMAIN g = 1..k /\ g[k] = fr /\ \A j \in 1 .. k - 1 : g[j] = frames[j]
  BY <1>4, <1>9, <1>10
<1> HIDE DEF g
<1>12. PICK at \in [DOMAIN frames -> Places] : Placed(frames, at)
  BY DEF InPlace
<1> DEFINE a == at[n]
           b == at[k]
<1>13. a \in Places /\ b \in Places /\ Where(Top, a) /\ Where(low, b)
  BY <1>1, <1>4, <1>12 DEF Placed
<1>14. Reached(fr, b) = Reached(low, b)
  BY <1>6 DEF Reached
<1>15. SeenAt(low.decl, vs, Reached(low, b))
  <2>1. CASE Top.sort = "branch"
    <3>1. Linked(low, a, b)
      BY <1>1, <1>3, <1>12, <2>1 DEF Placed
    <3>2. Top.decl = low.decl /\ (Top.begun => Top.todo # <<>>)
      BY <1>2, <1>3 DEF PartOf, FrameOK
    <3> HIDE DEF low, a, b
    <3>3. SeenAt(low.decl, Top.vars, Reached(low, b))
      BY <1>2, <1>13, <3>1, <3>2, BranchSeen
    <3> QED
      BY <2>1, <3>3
  <2>2. CASE Top.sort # "branch"
    BY <1>13, <2>2 DEF Where
  <2> QED
    BY <2>1, <2>2
<1>16. Where(fr, b)
  BY <1>6, <1>13, <1>14, <1>15 DEF Where
<1>17. SameHome(b, at[k])
  BY DEF SameHome
<1>18. Where(g[k], b) /\ g[k].sort = frames[k].sort
  BY <1>6, <1>11, <1>16
<1> HIDE DEF b, k, n
<1>19. InPlace(g)
  BY <1>1, <1>4, <1>11, <1>12, <1>13, <1>17, <1>18, CutInPlace
<1> QED
  BY <1>8, <1>19

\* A callee starts at the top of its body, with its parameters bound.
LEMMA GivenAreParams ==
  ASSUME NEW d, NEW S, d.params \in Seq(S), NEW args, NEW n \in Given(d, args)
  PROVE  n \in Params(d)
<1> DEFINE k == IF Len(args) < Len(d.params) THEN Len(args) ELSE Len(d.params)
<1>1. Len(d.params) \in Nat /\ DOMAIN d.params = 1..Len(d.params)
  BY LenProperties
<1>2. PICK i \in 1..k : n = d.params[i]
  BY DEF Given
<1>3. i \in DOMAIN d.params
  <2>1. CASE Len(args) < Len(d.params)
    BY <1>1, <1>2, <2>1
  <2>2. CASE ~(Len(args) < Len(d.params))
    BY <1>1, <1>2, <2>2
  <2> QED
    BY <2>1, <2>2
<1>4. d.params[i] \in Range(d.params)
  BY <1>3, Zenon DEF Range
<1> QED
  BY <1>2, <1>4 DEF Params

LEMMA TopOfBody ==
  /\ [home |-> <<>>, next |-> 1, looped |-> FALSE] \in Places
  /\ \A j \in Nat : 1 + j - 1 = j /\ Append(<<>>, j) = <<j>>
<1>1. <<>> \in Seq(Nat)
  OBVIOUS
<1> QED
  BY <1>1 DEF Places

LEMMA ActivationStands ==
  ASSUME SourceOK, modules \subseteq Path, NEW file \in modules, NEW d \in source[file].decls,
         d.kind \in {"workflow", "rule"}, NEW args, NEW caller
  PROVE  \E c \in Places : Where(Activation(file, d, args, caller), c)
<1> DEFINE c == [home |-> <<>>, next |-> 1, looped |-> FALSE]
           given == Given(d, args)
           vs == Variables(file, given, caller)
<1>1. PICK settings :
        Activation(file, d, args, caller) = Frame(d.kind, file, d, d.steps, vs, given \cup source[file].consts, settings)
  BY DEF Activation
<1> DEFINE fr == Activation(file, d, args, caller)
<1>2. fr.decl = d /\ fr.todo = d.steps /\ fr.vars = vs /\ fr.begun = FALSE
  BY <1>1 DEF Frame
<1> HIDE DEF fr
<1>3. c \in Places /\ c.home = <<>> /\ c.next = 1 /\ c.looped = FALSE
  BY TopOfBody
<1> HIDE DEF c
<1>4. d.steps \in Seq(Steps(d)) /\ d.params \in Seq(Params(d))
  BY DEF SourceOK, ParserGives
<1>5. ASSUME NEW j \in DOMAIN d.steps PROVE \E y \in StepsOf(d) : y.step = d.steps[j] /\ EntryAt(c, j, y)
  <2> DEFINE y == [step |-> d.steps[j], failure |-> {}, path |-> <<j>>, loops |-> {}, written |-> TRUE]
  <2>1. y \in Outer(d)
    BY DEF Outer
  <2>2. y \in StepsOf(d)
    BY <2>1, Zenon DEF StepsOf
  <2>3. y.step = d.steps[j] /\ y.loops = {} /\ y.path = <<j>>
    OBVIOUS
  <2> HIDE DEF y
  <2>4. j \in Nat
    BY <1>4, LenProperties
  <2>5. EntryAt(c, j, y)
    BY <1>3, <2>3, <2>4, TopOfBody DEF EntryAt
  <2> QED
    BY <2>2, <2>3, <2>5
<1>6. ASSUME NEW n \in DOMAIN vs, vs[n] = "own" PROVE n \in Params(d)
  <2>1. n \in given
    BY <1>6 DEF Variables, Upon, Own, Constants, Copied
  <2> QED
    BY <1>4, <2>1, GivenAreParams
<1> HIDE DEF vs
<1>7. SeenAt(d, vs, Reached(fr, c))
  BY <1>6 DEF SeenAt, Seen
<1>8. Standing(d, d.steps, c)
  BY <1>5 DEF Standing
<1>9. Where(fr, c)
  BY <1>2, <1>7, <1>8 DEF Where
<1> QED
  BY <1>3, <1>9 DEF fr

LEMMA CallModuleInPlace == ASSUME Steady, InPlace(frames), CallModule PROVE InPlace(frames')
<1> DEFINE t == Home(Top.file, Item.call.ref)
<1>1. PICK c \in Callee(Top.file, Item.call) :
        /\ c.kind \in {"workflow", "rule"}
        /\ \/ frames' = Append(frames, Activation(t, c, Item.call.args, Top))
           \/ UNCHANGED frames
  BY DEF CallModule
<1>2. t \in modules /\ c \in source[t].decls
  <2>1. Top.file \in modules /\ modules \subseteq Path
    BY CallingIs DEF CallModule, Steady
  <2> QED
    BY <2>1, HomeIsRead DEF Callee, Declared
<1> DEFINE fr == Activation(t, c, Item.call.args, Top)
           n == Len(frames)
           g == Append(frames, fr)
<1>3. CASE UNCHANGED frames
  BY <1>3
<1>4. CASE frames' = g
  <2>1. n \in Nat \ {0} /\ DOMAIN frames = 1..n
    BY TopIsOK
  <2>2. frames \in Seq(Range(frames) \cup {fr})
    BY SeqMonotonic DEF Steady, FramesOK
  <2>3. PICK home \in Places : Where(fr, home)
    BY <1>1, <1>2, ActivationStands DEF Steady
  <2>4. fr.sort = c.kind
    BY <1>1, <1>2, ActivationOK DEF Steady
  <2> HIDE DEF fr
  <2>5. /\ g \in Seq(Range(frames) \cup {fr}) /\ Len(g) = n + 1
        /\ \A j \in 1..n : g[j] = frames[j]
        /\ g[n + 1] = fr
    BY <2>2, AppendProperties
  <2>6. DOMAIN g = 1 .. n + 1
    BY <2>5, LenProperties
  <2> HIDE DEF g
  <2>7. PICK at \in [DOMAIN frames -> Places] : Placed(frames, at)
    BY DEF InPlace
  <2>8. /\ \A j \in 1 .. n - 1 : g[j] = frames[j]
        /\ g[n] = frames[n] /\ Where(frames[n], at[n])
    BY <2>1, <2>5, <2>7 DEF Placed
  <2>9. Where(g[n], at[n]) /\ g[n].sort = frames[n].sort /\ Where(g[n + 1], home) /\ g[n + 1].sort # "branch"
    BY <1>1, <2>3, <2>4, <2>5, <2>8
  <2> HIDE DEF n
  <2>10. InPlace(g)
    BY <2>1, <2>3, <2>6, <2>7, <2>8, <2>9, AddedInPlace
  <2> QED
    BY <1>4, <2>10
<1> QED
  BY <1>1, <1>3, <1>4

LEMMA RunDefaultInPlace == ASSUME RunInv, InPlace(frames), RunDefault PROVE InPlace(frames')
<1> DEFINE d == Declared(source[Entry], "default", {"workflow"})
           c == CHOOSE x \in d : TRUE
           caller == [file |-> NoPath, vars |-> <<>>, settings |-> HostSettings(user, source[Entry])]
           fr == Activation(Entry, c, <<>>, caller)
<1>1. CASE d = {}
  BY <1>1 DEF RunDefault
<1>2. CASE d # {}
  <2>1. c \in d
    BY <1>2
  <2>2. c \in source[Entry].decls /\ c.kind = "workflow"
    BY <2>1 DEF Declared
  <2>3. Entry \in modules /\ modules \subseteq Path /\ SourceOK
    BY GInvIsClosure DEF RunDefault, RunInv, GInv, GraphTypeOK, GraphIsClosure
  <2>4. (\E h \in Places : Where(fr, h)) /\ fr.sort = "workflow"
    <3> HIDE DEF c, caller
    <3> QED
      BY <2>2, <2>3, ActivationStands, ActivationOK
  <2>5. frames' = <<fr>>
    BY <1>2 DEF RunDefault
  <2> HIDE DEF fr
  <2>6. PICK h \in Places : Where(fr, h)
    BY <2>4
  <2> DEFINE at == [j \in {1} |-> h]
  <2>7. DOMAIN <<fr>> = {1} /\ <<fr>>[1] = fr
    OBVIOUS
  <2>8. at \in [DOMAIN <<fr>> -> Places] /\ at[1] = h
    BY <2>7
  <2> HIDE DEF at
  <2>9. Placed(<<fr>>, at)
    BY <2>6, <2>7, <2>8 DEF Placed
  <2>10. InPlace(<<fr>>)
    BY <2>8, <2>9 DEF InPlace
  <2> QED
    BY <2>5, <2>10
<1> QED
  BY <1>1, <1>2

-----------------------------------------------------------------------------
\* What the walk refuses, no step does.

LEMMA SeenIsBound ==
  ASSUME NEW d, NEW e \in StepsOf(d), NEW n \in Seen(d, e.path)
  PROVE  n \in BoundBefore(d, e)
<1> DEFINE Met(y) == y.step.op = "const" /\ y.loops = {} /\ Before(y.path, e.path)
           Counts(y) == \/ y.step.op = "const" /\ Before(y.path, e.path) /\ y.loops \subseteq e.loops
                        \/ y.path \in e.loops
<1>1. \A y : Met(y) => Counts(y)
  OBVIOUS
<1>2. Seen(d, e.path) = Params(d) \cup {y.step.name : y \in {x \in StepsOf(d) : Met(x)}}
  BY DEF Seen
<1>3. BoundBefore(d, e) = Params(d) \cup {y.step.name : y \in {x \in StepsOf(d) : Counts(x)}}
  BY DEF BoundBefore
<1> HIDE DEF Met, Counts
<1> QED
  BY <1>1, <1>2, <1>3

LEMMA NoPlainRebound ==
  ASSUME Steady, InPlace(frames), Top.todo # <<>>, Step.op = "const", ModuleHolds(source, links, Top.file)
  PROVE  "plain" \notin Rebound(Top, Bound(Step))
<1> SUFFICES ASSUME "plain" \in Rebound(Top, Bound(Step)) PROVE FALSE
  OBVIOUS
<1>1. PICK n \in Bound(Step) \cap DOMAIN Top.vars : Top.vars[n] = "own" /\ Plain(Top.decl, n)
  BY ReboundIs
<1>2. n = Step.name
  BY <1>1, PlainOfStep
<1>3. PICK at \in [DOMAIN frames -> Places] : Placed(frames, at)
  BY DEF InPlace
<1> DEFINE a == at[Len(frames)]
<1>4. a \in Places /\ Where(Top, a)
  BY <1>3, StandingAtTop
<1> HIDE DEF a
<1>5. PICK y \in StepsOf(Top.decl) :
        y.step = Step /\ IF a.looped THEN y.loops # {} ELSE y.loops = {} /\ y.path = Place(a)
  BY <1>4, HeadEntry
<1>6. y.path = Place(a)
  BY <1>1, <1>2, <1>5, LoopNameIs DEF Plain
<1>7. n \in Seen(Top.decl, Place(a))
  <2>1. Reached(Top, a) = Place(a)
    BY DEF Reached, Step
  <2> QED
    BY <1>1, <1>4, <2>1 DEF Where, SeenAt
<1>8. Step.name \in BoundBefore(Top.decl, y)
  BY <1>2, <1>6, <1>7, SeenIsBound
<1>9. BindingsHold(source[Top.file], Top.decl)
  <2>1. Top.decl \in source[Top.file].decls /\ Top.decl.kind \in {"workflow", "rule"}
    BY TopIsOK DEF FrameOK
  <2> QED
    BY <2>1 DEF ModuleHolds
<1> QED
  BY <1>5, <1>8, <1>9 DEF BindingsHold

\* What the theorem rests on: every frame is at a place of its body, and has bound
\* no more than the walk has seen up to there.
BoundOnce == NeverRebound /\ InPlace(frames)

LEMMA InterpretingInPlace == ASSUME RunInv, InPlace(frames), Interpreting PROVE InPlace(frames')
<1>1. Steady
  BY InterpretingIs, RunIsSteady
<1>2. CallUnknown \/ CallScript \/ StepFails => UNCHANGED frames
  BY Zenon DEF CallUnknown, CallScript, StepFails
<1>3. Begin \/ EnterBranch \/ NoLines \/ CallArgument => InPlace(frames')
  BY <1>1, BeginInPlace, EnterBranchInPlace, NoLinesInPlace, CallArgumentInPlace
<1>4. CallModule \/ CallSucceeded \/ Handle \/ Fail => InPlace(frames')
  BY <1>1, CallModuleInPlace, CallSucceededInPlace, HandleInPlace, FailInPlace
<1>5. Finish \/ Return \/ ActivationEnds \/ PartEnds => InPlace(frames')
  BY <1>1, FinishInPlace, ReturnInPlace, ActivationEndsInPlace, PartEndsInPlace
<1> QED
  BY <1>2, <1>3, <1>4, <1>5, Zenon DEF Interpreting

LEMMA FinishBindsOnce == ASSUME RunInv, BoundOnce, Finish PROVE "plain" \notin rebinds'
<1>1. stage = "run" /\ Steady
  BY RunIsSteady DEF Finish, Running
<1>2. CASE rebinds' = rebinds
  BY <1>2 DEF BoundOnce, NeverRebound
<1>3. CASE rebinds' # rebinds
  <2>1. Step.op = "const" /\ rebinds' = rebinds \cup Rebound(Top, Bound(Step))
    <3>1. rebinds' = rebinds \cup Rebound(Top, IF Step.op = "const" THEN Bound(Step) ELSE {})
      BY <1>3 DEF Finish
    <3>2. Rebound(Top, {}) = {}
      BY Zenon DEF Rebound
    <3>3. Step.op # "const" => rebinds' = rebinds
      BY <3>1, <3>2
    <3> QED
      BY <1>3, <3>1, <3>3
  <2>2. Top.todo # <<>> /\ Top.file \in modules
    BY <1>1, TopIsOK DEF Finish, Computed, FrameOK
  <2>3. ModuleHolds(source, links, Top.file)
    BY <1>1, <2>2 DEF RunInv, Phases, Accepted
  <2>4. "plain" \notin Rebound(Top, Bound(Step))
    BY <1>1, <2>1, <2>2, <2>3, NoPlainRebound DEF BoundOnce
  <2> QED
    BY <2>1, <2>4 DEF BoundOnce, NeverRebound
<1> QED
  BY <1>2, <1>3

LEMMA StepKeepsBoundOnce ==
  RunInv /\ BoundOnce /\ [RunNext]_<<graphVars, runVars>> => BoundOnce'
<1> SUFFICES ASSUME RunInv, BoundOnce, [RunNext]_<<graphVars, runVars>> PROVE BoundOnce'
  OBVIOUS
<1>1. CASE Interpreting
  <2>1. InPlace(frames')
    BY <1>1, InterpretingInPlace DEF BoundOnce
  <2>2. "plain" \notin rebinds'
    <3>1. CASE Finish
      BY <3>1, FinishBindsOnce
    <3>2. CASE ~Finish
      <4>1. rebinds' = rebinds
        BY <1>1, <3>2 DEF Interpreting, Begin, EnterBranch, NoLines, CallArgument, CallUnknown, CallModule,
                          CallScript, CallSucceeded, Handle, Fail, StepFails, Return, ActivationEnds, PartEnds, Zenon
      <4> QED
        BY <4>1 DEF BoundOnce, NeverRebound
    <3> QED
      BY <3>1, <3>2
  <2>3. NeverRebound'
    BY <2>2 DEF NeverRebound
  <2>4. InPlace(frames)'
    BY <2>1 DEF InPlace, Placed, Linked, Where, Reached
  <2> QED
    BY <2>3, <2>4 DEF BoundOnce
<1>2. CASE UNCHANGED <<rebinds, frames>>
  BY <1>2 DEF BoundOnce, NeverRebound, InPlace, Placed, Linked, Where, Reached
<1>3. CASE RunDefault
  <2>1. InPlace(frames')
    BY <1>3, RunDefaultInPlace DEF BoundOnce
  <2>2. rebinds' = rebinds
    BY <1>3 DEF RunDefault
  <2>3. InPlace(frames)'
    BY <2>1 DEF InPlace, Placed, Linked, Where, Reached
  <2> QED
    BY <2>2, <2>3 DEF BoundOnce, NeverRebound
<1>4. \/ Interpreting \/ RunDefault \/ UNCHANGED <<rebinds, frames>>
  BY Zenon DEF RunNext, DispatchNext, Interpreting, Compile, StartRunner, runVars
<1> QED
  BY <1>1, <1>2, <1>3, <1>4

(***************************************************************************)
(* No step of an accepted program binds a name that its activation has     *)
(* already bound, whichever branches it took, however often its loops and  *)
(* handlers ran and whatever it called, but for the names bound within     *)
(* loops, those of handlers and the fields of typed prompts (checkBinding  *)
(* in validate.ts reads the lines once, executeSteps follows the control   *)
(* flow): for any programs whose steps nest to any depth.                  *)
(***************************************************************************)
THEOREM BoundOnly == RunSpec => []NeverRebound
<1>1. GraphInit /\ DispatchInit => BoundOnce
  BY NoneInPlace DEF DispatchInit, BoundOnce, NeverRebound
<1>2. BoundOnce => NeverRebound
  BY DEF BoundOnce
<1> QED
  BY InitRunInv, StepKeepsRunInv, StepKeepsBoundOnce, <1>1, <1>2, PTL DEF RunSpec

=============================================================================
