--------------------------- MODULE RequestService ---------------------------
(***************************************************************************)
(* What the MCP engine promises its clients, whatever happens behind it:   *)
(* an open request is told of its progress and then answered, once and     *)
(* last; a request that its client withdrew hears nothing more.  A client  *)
(* that shares its request ids with another may withdraw the other's.      *)
(* McpSession implements this specification.                               *)
(***************************************************************************)
EXTENDS Sequences

CONSTANT Calls  \* the requests, whoever makes them

VARIABLES
  own,    \* clients draw from ids of their own
  state,  \* what a client may still expect of each request
  told    \* what it was told

requestVars == <<own, state, told>>

Open == {c \in Calls : state[c] = "open"}

RequestInit ==
  /\ own \in BOOLEAN
  /\ state = [c \in Calls |-> "unsent"]
  /\ told = [c \in Calls |-> <<>>]

Ask(c) ==
  /\ state[c] = "unsent"
  /\ state' = [state EXCEPT ![c] = "open"]
  /\ UNCHANGED <<own, told>>

Progress(c) ==
  /\ c \in Open
  /\ told' = [told EXCEPT ![c] = Append(@, "progress")]
  /\ UNCHANGED <<own, state>>

Answer(c) ==
  /\ c \in Open
  /\ state' = [state EXCEPT ![c] = "answered"]
  /\ told' = [told EXCEPT ![c] = Append(@, "response")]
  /\ UNCHANGED own

\* The client of c cancels it or hangs up on it.
Withdraw(c) ==
  /\ state[c] # "unsent"
  /\ \E W \in SUBSET Open :
       /\ own => W = {c}
       /\ state' = [d \in Calls |-> IF d \in W THEN "withdrawn" ELSE state[d]]
  /\ UNCHANGED <<own, told>>

\* Only what was withdrawn may end without an answer.
Drop(c) ==
  /\ state[c] = "withdrawn"
  /\ state' = [state EXCEPT ![c] = "over"]
  /\ UNCHANGED <<own, told>>

RequestNext == \E c \in Calls : Ask(c) \/ Progress(c) \/ Answer(c) \/ Withdraw(c) \/ Drop(c)

RequestSpec == RequestInit /\ [][RequestNext]_requestVars

=============================================================================
