---------------------------- MODULE MCRunRegistry ----------------------------
(***************************************************************************)
(* Instances of RunRegistry for TLC: a keyed create, and one without a key *)
(* by another principal.                                                   *)
(***************************************************************************)
EXTENDS RunRegistry

MCRequests == {[owner |-> "ann", key |-> "k1", args |-> "x"],
               [owner |-> "bob", key |-> NoKey, args |-> "x"]}

\* Two runs side by side on the host and in containers; three runs, one at a
\* time, for a key that is used again once its run was evicted.
MCConfigs ==
  {[sandbox |-> "host", cap |-> 2, retain |-> 1, runs |-> 2, crashes |-> 2],
   [sandbox |-> "docker", cap |-> 2, retain |-> 0, runs |-> 2, crashes |-> 1],
   [sandbox |-> "host", cap |-> 1, retain |-> 1, runs |-> 3, crashes |-> 1]}

=============================================================================
