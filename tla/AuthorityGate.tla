---------------------------- MODULE AuthorityGate ----------------------------
(***************************************************************************)
(* What the approval gate promises (docs/workflow-rationale.md, the        *)
(* approval and execution stages), without files, checksums or prompts:    *)
(* the researcher decides for a plan under a policy; an execution sends at *)
(* most two requests, the baseline and then one mutation, both under one   *)
(* decision taken before and with one credential; executions are numbered  *)
(* and never send for an older one again.  BoundedExecution implements it. *)
(***************************************************************************)
EXTENDS Naturals

CONSTANTS Plans, PolicyStates, Credentials,
          Runs  \* numbers of executions

VARIABLES decided,  \* pairs of plan and policy the researcher approved
          requests  \* what left the machine

Decide(p, y) ==
    /\ decided' = decided \cup {[plan |-> p, policy |-> y]}
    /\ UNCHANGED requests

\* The baseline of a new execution.
SendFirst(r, d, c) ==
    /\ \A q \in requests : q.run < r
    /\ requests' = requests \cup
           {[run |-> r, n |-> 1, plan |-> d.plan, policy |-> d.policy, cred |-> c]}
    /\ UNCHANGED decided

\* The mutation repeats the authority of the baseline it follows.
SendSecond(q) ==
    /\ q.n = 1
    /\ \A p \in requests : p.run < q.run \/ p = q
    /\ requests' = requests \cup {[q EXCEPT !.n = 2]}
    /\ UNCHANGED decided

Init == decided = {} /\ requests = {}

Next == \/ \E p \in Plans, y \in PolicyStates : Decide(p, y)
        \/ \E r \in Runs, d \in decided, c \in Credentials : SendFirst(r, d, c)
        \/ \E q \in requests : SendSecond(q)

Spec == Init /\ [][Next]_<<decided, requests>>
=============================================================================
