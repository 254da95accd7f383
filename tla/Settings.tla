------------------------------ MODULE Settings ------------------------------
(***************************************************************************)
(* config blocks: what a module, and a workflow of it, sets for the        *)
(* prompts and scripts it runs, on top of what is already in force.  A     *)
(* setting is known by whose it is: the user's, by an environment          *)
(* variable; a file's, by its module-level block or a workflow's; or       *)
(* nobody's.                                                               *)
(***************************************************************************)
EXTENDS Validation, ModuleGraph

CONSTANTS
  Key,        \* the keys of config blocks that become environment variables
  EntryOnly   \* those that name the program prompts run in

ASSUME EntryKeys == EntryOnly \subseteq Key
ASSUME OwnersDistinct == {"user", "nobody"} \cap Path = {}

\* f on top of g: what g says of the names f leaves alone.
Upon(f, g) == [n \in DOMAIN f \cup DOMAIN g |-> IF n \in DOMAIN f THEN f[n] ELSE g[n]]

\* from: who bound the names its text reads.
Setting(by, level, from) == [by |-> by, level |-> level, from |-> from]

\* user.set: the keys with a variable in the user's environment; user.unlocked:
\* imported modules may set the entry-only keys too.
NoUser == [set |-> {}, unlocked |-> FALSE]

\* A block maps keys to the names in ${...} of their values, which are read as
\* variables are known when the block is applied.
Interpolated(config, vars, by, level) ==
  [k \in DOMAIN config |-> Setting(by, level, {vars[n] : n \in config[k] \cap DOMAIN vars})]

\* What the host puts into the runner's environment: the user's variables, which
\* it marks as locked, and under those the defaults of the module that is run.
HostSettings(user, m) ==
  Upon([k \in user.set |-> Setting("user", "host", {})],
       Upon(Interpolated(m.config, [n \in m.consts |-> "const"], Entry, "host"),
            [k \in Key |-> Setting("nobody", "host", {})]))

\* The keys a block of the file may set.
Open(user, file, keys) ==
  {k \in keys \ user.set : k \in EntryOnly => file = Entry \/ user.unlocked}

Under(parent, user, config, vars, file, level) ==
  LET texts == Interpolated(config, vars, file, level)
  IN  Upon([k \in Open(user, file, DOMAIN config) |-> texts[k]], parent)

\* A mutant: the block of the module that is run is applied only once.
EnteredOnce(parent, user, m, vars, file, caller) ==
  IF caller = file \/ (file = Entry /\ caller # NoPath) THEN parent
  ELSE Under(parent, user, m.config, vars, file, "module")

\* A module's block is applied when a call enters the module from another one.
Entered(parent, user, m, vars, file, caller) ==
  IF caller = file THEN parent ELSE Under(parent, user, m.config, vars, file, "module")

\* A workflow's own block comes on top; a rule has none.
InForce(parent, user, m, d, vars, file, caller) ==
  Under(Entered(parent, user, m, vars, file, caller), user, d.config, vars, file, "workflow")

=============================================================================
