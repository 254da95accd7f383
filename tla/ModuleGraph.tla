---------------------------- MODULE ModuleGraph ----------------------------
(***************************************************************************)
(* The module graph of a run.  The command line loads the entry file and   *)
(* everything it imports, a file at a time, first in first out, and hands  *)
(* the syntax trees to the runner.  Where an import leads depends on which *)
(* files exist at the moment it is resolved, and the runner resolves every *)
(* import a second time: files that come or go in between can lead it      *)
(* elsewhere.                                                              *)
(***************************************************************************)
EXTENDS Naturals, FiniteSets, Sequences

CONSTANTS
  Path,       \* the files a program may consist of
  Alias,      \* the aliases they import under
  NoPath,     \* an import without a library fallback
  Entry,      \* the file the command is given
  Imports,    \* per file, its imports in order
  MaxChanges  \* bound: how often a file comes or goes during one run

\* An import names a file next to the importing one, and when its path has a
\* slash also a file of an installed library.
Import == [alias : Alias, near : Path, far : Path \cup {NoPath}]

ASSUME PathsAreNotNoPath == NoPath \notin Path
ASSUME EntryIsPath == Entry \in Path
ASSUME ImportsTyped == Imports \in [Path -> Seq(Import)]
\* A repeated alias is reported by the validator and not modelled.
ASSUME AliasesDistinct ==
  \A p \in Path : \A m, n \in DOMAIN Imports[p] :
    Imports[p][m].alias = Imports[p][n].alias => m = n
ASSUME ChangesCounted == MaxChanges \in Nat

VARIABLES
  disk,       \* the files that exist
  changes,    \* how often that has changed
  loading,    \* "loading", "loaded", "missing", then "handed" to the runner
  queue,      \* the files still to read
  modules,    \* the files read
  reads,      \* how often each was read
  links,      \* <<importer, alias, file>> as the command line resolved them
  runLinks    \* the same, as the runner resolved them

graphVars == <<disk, changes, loading, queue, modules, reads, links, runLinks>>

GraphTypeOK ==
  /\ disk \subseteq Path
  /\ changes \in Nat
  /\ loading \in {"loading", "loaded", "missing", "handed"}
  /\ queue \in Seq(Path)
  /\ modules \subseteq Path
  /\ reads \in [Path -> Nat]
  /\ links \subseteq Path \X Alias \X Path
  /\ runLinks \subseteq Path \X Alias \X Path

GraphInit ==
  /\ disk \in SUBSET Path
  /\ changes = 0
  /\ loading = "loading"
  /\ queue = <<Entry>>
  /\ modules = {}
  /\ reads = [p \in Path |-> 0]
  /\ links = {}
  /\ runLinks = {}

\* A file next to the importer wins, then the library's, and when neither
\* exists the first is named all the same.
ResolveImport(i) ==
  IF i.near \in disk THEN i.near
  ELSE IF i.far \in disk THEN i.far
  ELSE i.near

ImportLinks(p) ==
  {<<p, Imports[p][n].alias, ResolveImport(Imports[p][n])>> : n \in DOMAIN Imports[p]}

\* The files p imports, in order.  The code leaves out those it has read
\* already, which SkipFile drops when their turn comes.
Targets(p) == [n \in DOMAIN Imports[p] |-> ResolveImport(Imports[p][n])]

SkipFile ==
  /\ loading = "loading"
  /\ queue # <<>>
  /\ Head(queue) \in modules
  /\ queue' = Tail(queue)
  /\ UNCHANGED <<disk, changes, loading, modules, reads, links, runLinks>>

\* A mutant: the files already read are not remembered.
ReadAgain ==
  /\ loading = "loading"
  /\ queue # <<>>
  /\ LET p == Head(queue)
     IN  /\ p \in disk
         /\ modules' = modules \cup {p}
         /\ reads' = [reads EXCEPT ![p] = @ + 1]
         /\ links' = links \cup ImportLinks(p)
         /\ queue' = Tail(queue) \o Targets(p)
  /\ reads[Head(queue)] < 2
  /\ UNCHANGED <<disk, changes, loading, runLinks>>

ReadFile ==
  /\ loading = "loading"
  /\ queue # <<>>
  /\ LET p == Head(queue)
     IN  /\ p \in disk \ modules
         /\ modules' = modules \cup {p}
         /\ reads' = [reads EXCEPT ![p] = @ + 1]
         /\ links' = links \cup ImportLinks(p)
         /\ queue' = Tail(queue) \o Targets(p)
  /\ UNCHANGED <<disk, changes, loading, runLinks>>

MissFile ==
  /\ loading = "loading"
  /\ queue # <<>>
  /\ Head(queue) \notin disk \cup modules
  /\ loading' = "missing"
  /\ UNCHANGED <<disk, changes, queue, modules, reads, links, runLinks>>

GraphLoaded ==
  /\ loading = "loading"
  /\ queue = <<>>
  /\ loading' = "loaded"
  /\ UNCHANGED <<disk, changes, queue, modules, reads, links, runLinks>>

\* The runner gets the syntax trees and resolves their imports again.
HandOver ==
  /\ loading = "loaded"
  /\ loading' = "handed"
  /\ runLinks' = UNION {ImportLinks(p) : p \in modules}
  /\ UNCHANGED <<disk, changes, queue, modules, reads, links>>

\* Somebody else creates or removes a file.
FileChanges ==
  /\ loading \in {"loading", "loaded"}
  /\ changes < MaxChanges
  /\ changes' = changes + 1
  /\ \E p \in Path : disk' = IF p \in disk THEN disk \ {p} ELSE disk \cup {p}
  /\ UNCHANGED <<loading, queue, modules, reads, links, runLinks>>

GraphNext == SkipFile \/ ReadFile \/ MissFile \/ GraphLoaded \/ HandOver \/ FileChanges

GraphSpec == GraphInit /\ [][GraphNext]_graphVars

-----------------------------------------------------------------------------

Closed(S) == \A l \in links : l[1] \in S => l[3] \in S

(***************************************************************************)
(* "Walks the entry plus its transitive .jh import closure.  Each          *)
(* reachable file is read from disk and parsed exactly once"               *)
(* (module-graph.ts:41).  A loaded graph is the least set of files that    *)
(* holds the entry and is closed under its links, whatever cycles and      *)
(* diamonds the imports form and whichever files came and went while it    *)
(* was being read.                                                         *)
(***************************************************************************)
GraphIsClosure ==
  /\ \A p \in Path : reads[p] = IF p \in modules THEN 1 ELSE 0
  /\ loading \in {"loaded", "handed"} =>
       /\ Entry \in modules
       /\ Closed(modules)
       /\ \A S \in SUBSET Path : Entry \in S /\ Closed(S) => modules \subseteq S

=============================================================================
