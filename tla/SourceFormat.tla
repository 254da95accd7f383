---------------------------- MODULE SourceFormat ----------------------------
(***************************************************************************)
(* `jaiph format`: a body, or the declarations of a file, is typed a line  *)
(* at a time, parsed, and what it says is written back as lines, which are *)
(* parsed again the next time.                                             *)
(***************************************************************************)
EXTENDS SourceEmit

CONSTANTS
  MaxText,    \* bound: lines of a body
  MaxItems,   \* bound: declarations, comments and blank lines of a file
  MaxFormats  \* bound: how often it is formatted

ASSUME FormatBounds == MaxText \in Nat /\ MaxItems \in Nat /\ MaxFormats \in Nat

VARIABLES
  home,     \* "workflow" or "rule", whose body is typed, "file", or "none"
  text,     \* the lines
  parses,   \* what the parser makes of them
  formats,  \* how often they were formatted
  tree,     \* what they said when they were formatted first
  remarks   \* and how many comments they had

formatVars == <<home, text, parses, formats, tree, remarks>>

FormatTypeOK ==
  /\ home \in {"workflow", "rule", "file", "none"}
  /\ Len(text) <= 2 * MaxText
  /\ formats \in 0..MaxFormats
  /\ remarks \in Nat

-----------------------------------------------------------------------------

Parses(in, ls) == IF in = "file" THEN ParseFile(ls) ELSE Parse(in, ls)
Rewritten(p) == IF home = "file" THEN EmitFile(p) ELSE EmitBody(p)

RECURSIVE Remarks(_)
Remarks(ls) ==
  FoldLeft(LAMBDA n, l : n + (IF l.t \in Remark THEN 1 ELSE Remarks(l.inner)), 0, ls)

\* Lines are typed as long as there is no error and the body is not closed, and (a
\* bound) as there is room to close what is open.
Type(lines) ==
  /\ home # "none"
  /\ formats = 0
  /\ IF home = "file" THEN Len(text) < MaxItems ELSE Len(text) + OpenBlocks(text) < MaxText
  /\ parses.is = IF home = "file" THEN "ok" ELSE "more"
  /\ \E l \in lines : text' = Append(text, l)
  /\ parses' = Parses(home, text')
  /\ UNCHANGED <<home, formats, tree, remarks>>

Format ==
  /\ home # "none"
  /\ formats < MaxFormats
  /\ parses.is = "ok"
  /\ text' = Rewritten(parses)
  /\ parses' = Parses(home, text')
  /\ tree' = IF formats = 0 THEN parses ELSE tree
  /\ remarks' = IF formats = 0 THEN Remarks(text) ELSE remarks
  /\ formats' = formats + 1
  /\ UNCHANGED home

FormatInit(homes) ==
  /\ home \in homes
  /\ text = <<>>
  /\ formats = 0
  /\ parses = Parses(home, text)
  /\ tree = parses
  /\ remarks = 0

-----------------------------------------------------------------------------

RECURSIVE Nodes(_)
Nodes(steps) ==
  UNION {{s} \cup Nodes(s.body) \cup Nodes(s.els) : s \in {x \in Range(steps) : x.t # "shell"}}
    \cup {s \in Range(steps) : s.t = "shell"}

\* The steps the formatter is known not to write as it read them.
Lossy(s) ==
  \/ s.t = "exec" /\ (s.val.form = "script" \/ (s.single /\ Len(Emit(s.body)) > 1))
  \/ s.t = "if" /\ Len(s.els) = 1 /\ s.els[1].t = "if" /\ s.els[1].body = <<>>
  \/ s.t = "stmt" /\ s.kw = "log" /\ (s.val.esc > 0 \/ (s.val.form = "ref" /\ s.val.has # {}))
  \/ s.val.form = "script" /\ s.val.has = {"interpolated"}
  \/ s.val.has \cap {"textarg", "quote", "empty"} # {}

\* The declarations and test steps, too: what was decoded is not escaped again, a
\* tab is escaped and not decoded, and a string ${true} is written true.
LossyPart(x) ==
  \/ x.t \in {"test", "expect"} /\ x.val.has \cap {"quote", "break"} # {}
  \/ x.t \in {"answer", "run"} /\ "break" \in x.val.has
  \/ x.t = "answer" /\ x.val.form = "match" /\ "quote" \in x.val.has
  \/ x.t = "const" /\ "tab" \in x.val.has
  \/ x.t = "key" /\ x.val.form = "ref" /\ x.val.has # {}

Parts(items) == Range(items) \cup UNION {Range(x.body) : x \in {y \in Range(items) : y.t \in {"config", "test"}}}
AllNodes(p) == IF home = "file" THEN UNION {Nodes(x.body[1].steps) : x \in {y \in Parts(p.items) : HasBody(y)}} ELSE Nodes(p.steps)

\* A comment that looks like a shebang becomes one when it is moved to the top.
BecomesShebang(p) ==
  LET first == IF p.items = <<>> THEN p.notes ELSE p.items[1].notes
  IN  ~p.bang /\ first # <<>> /\ first[1].t = "bang"

Loses(p) ==
  \/ home = "file" /\ (BecomesShebang(p) \/ \E x \in Parts(p.items) : LossyPart(x))
  \/ \E s \in AllNodes(p) : Lossy(s)

(***************************************************************************)
(* "Formatting is idempotent. Comments and shebangs are preserved"         *)
(* (docs/cli.md:164), and it changes no program: however often a body or a *)
(* file is formatted, it is accepted again, says what it said at first and *)
(* has as many comments.  Loses lists the exceptions, all of them faults   *)
(* of the formatter.                                                       *)
(***************************************************************************)
FormatRoundTrips ==
  formats > 0 /\ ~Loses(tree) => parses = tree /\ Remarks(text) = remarks

-----------------------------------------------------------------------------

\* Every brace is closed, the body's own by the last line.
Balanced ==
  /\ OpenBlocks(text) = -1
  /\ \A n \in 1 .. Len(text) - 1 : OpenBlocks(SubSeq(text, 1, n)) >= 0

Follows(first(_), second(_)) ==
  \E m, n \in DOMAIN text : m < n /\ first(text[m]) /\ second(text[n])
IsElse(l) == l.t \in {"else", "elseif"}

(***************************************************************************)
(* The braces a person matches are those the parser matches: what it takes *)
(* for a whole body has every block closed, and where every block is       *)
(* closed it does not miss a brace.  The exceptions are of the code: an    *)
(* else can close a loop; the scan of a catch or recover block counts the  *)
(* braces of an else, and of quoted text, that nothing closes; a shell     *)
(* line in a workflow, and a config block out of place, may have braces of *)
(* their own.                                                              *)
(***************************************************************************)
BracesDecide ==
  formats = 0 /\ home \in {"workflow", "rule"} =>
    \/ \E n \in DOMAIN text : text[n].t \in {"open", "config"}
    \/ Follows(LAMBDA l : l.t = "for", IsElse)
    \/ /\ parses.is = "ok" => Balanced
       /\ Balanced /\ parses.is = "more" =>
            Follows(LAMBDA l : l.t = "clause" /\ l.shape = "block",
                    LAMBDA l : IsElse(l) \/ "brace" \in l.val.has)

=============================================================================
