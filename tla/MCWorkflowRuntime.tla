-------------------------- MODULE MCWorkflowRuntime --------------------------
(***************************************************************************)
(* Instances of WorkflowRuntime for TLC: an entry workflow `main`, nested  *)
(* workflows, one routed channel and one nobody listens to.                *)
(***************************************************************************)
EXTENDS WorkflowRuntime

MCRoutes == [ch \in {"findings", "metrics"} |->
               IF ch = "findings" THEN <<"w">> ELSE <<>>]

\* Sends and nested runs; the join with its handlers and reads; retries and
\* circular sends without an early return.
MCPrograms ==
  { [language |-> {"fail", "return", "run", "async", "read", "send"},
     handlers |-> {"none"}, callees |-> {"w", "script"}],
    [language |-> {"fail", "return", "run", "async", "read", "list"},
     handlers |-> {"none", "catch", "recover"}, callees |-> {"script"}],
    [language |-> {"fail", "run", "async", "read", "list", "send"},
     handlers |-> {"none", "recover"}, callees |-> {"script"}] }

\* Two workflows that send, started by `run async`.
MCSenderPrograms ==
  { [language |-> {"async", "send"}, handlers |-> {"none"}, callees |-> {"v", "w"}] }

MCRecoverLimit == [w \in Workflows |-> 1]

=============================================================================
