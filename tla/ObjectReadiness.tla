---------------------------- MODULE ObjectReadiness ----------------------------
(***************************************************************************)
(* From traffic to a plan: researchers browse with their accounts, export  *)
(* captures, import them, take the inventory, generate the backlog, review *)
(* policies and plan. What the plan believes about objects is compared     *)
(* with what really happened on the server.                                *)
(*                                                                         *)
(* One command runs at a time; only hunt inventory is split, between the   *)
(* two writes of endpoints.yaml, because it can be killed there.           *)
(***************************************************************************)
EXTENDS ReadinessGates, Sequences, Functions

CONSTANTS
    Captures,       \* the captures the researchers record
    About,          \* what each is: actor, auth, mode, stamped
    Used,           \* the operations each is used for
    Aim,            \* the parent whose objects the hypotheses are about
    History,        \* the exchanges before the model starts, all imported
    MaxExchanges,   \* bound on the length of the log
    Unreviewed,     \* the target file as hunt init leaves it
    Policies        \* the contents the target file takes, without a control

\* Seconds are coarse: two exchanges in a row may share one
Stamp(i) == 1 + (i \div 2)

Places == 1..Len(History)
Aimed == {o \in {History[i].object : i \in Places} : o.parent = Aim}

\* What was imported before is true: in order, no object made twice or deleted,
\* and the objects under the parent numbered from 1.
ASSUME HistoryAssumption ==
    /\ History \in Seq(Range(History))
    /\ Anonymous \notin Accounts
    /\ \A c \in Captures : About[c].actor \in Accounts \cup {Anonymous}
    /\ \A i \in Places :
          /\ History[i].id = i
          /\ History[i].time \in {NoTime, Stamp(i)}
          /\ History[i].actor \in Accounts \cup {Anonymous}
          /\ History[i].capture \notin Captures
          /\ ~(History[i].op = "DELETE" /\ History[i].ok)
          /\ \A j \in Places :
                (i # j /\ "CREATE" = History[i].op /\ "CREATE" = History[j].op)
                   => History[i].object # History[j].object
    /\ \A o \in Aimed : o.value \in 1..Cardinality(Aimed)

VARIABLES
    log,            \* every exchange, in the order it really happened
    alive,          \* the objects on the server
    imported,       \* the captures imported so far
    endpoints,      \* endpoints.yaml
    running,        \* hunt inventory is between its two writes
    provenance,     \* what inventory says it was made from and has written
    records,        \* hypotheses.yaml, by key
    policy,         \* the target file
    plan            \* the latest plan, until something it was made from changes

vars == <<log, alive, imported, endpoints, running, provenance, records, policy, plan>>

-----------------------------------------------------------------------------
(* What the files hold                                                     *)

From(captures) == {x \in {log[i] : i \in 1..Len(log)} : x.capture \in captures}

\* observations.yaml
X == From(imported)

\* build_inventory, before the ownership pass and after it
Before == [e \in {EndpointOf(x) : x \in X} |-> Surveyed(X, e)]
After == [e \in {EndpointOf(x) : x \in X} |-> Projected(X, e)]

Keys == {"read", "delete", "login"}
TargetOf(key) == [op |-> IF key = "delete" THEN "DELETE" ELSE "READ", parent |-> Aim]
NoRecord == [kind |-> "NONE"]

\* plan_source_fingerprint covers the record, the exchanges, the endpoints and
\* the target: once one of them changes the plan is stale, which every later
\* gate refuses, and the model forgets it
NoPlan == [status |-> "NONE"]

-----------------------------------------------------------------------------
(* Browsing                                                                *)

Objects == {log[i].object : i \in 1..Len(log)}
OwnerOf(object) == (CHOOSE x \in {log[i] : i \in 1..Len(log)} :
                       x.op = "CREATE" /\ x.object = object).actor
Fresh(parent) == [parent |-> parent,
                  value |-> 1 + Cardinality({o \in Objects : o.parent = parent})]

Exchange(c, op, object, ok) ==
    [id |-> Len(log) + 1, capture |-> c,
     position |-> 1 + Cardinality({i \in 1..Len(log) : log[i].capture = c}),
     time |-> IF About[c].stamped THEN Stamp(Len(log) + 1) ELSE NoTime,
     actor |-> About[c].actor, auth |-> About[c].auth, mode |-> About[c].mode,
     op |-> op, object |-> object, ok |-> ok]

\* An exchange changes no file before its capture is imported, so the files a
\* session of browsing and commands leads to are those it leads to when the
\* browsing is done first.
Recorded == {History[i].capture : i \in 1..Len(History)}

\* The server keeps its word to an owner; what it answers another account is
\* what the researcher wants to find out
Answers(c, op, object) ==
    CASE op = "CREATE" -> {TRUE}
      [] op # "CREATE" /\ object \notin alive -> {FALSE}
      [] op # "CREATE" /\ object \in alive ->
             IF About[c].actor = OwnerOf(object) THEN {TRUE} ELSE {TRUE, FALSE}

Browse(c, op) ==
    /\ Len(log) < MaxExchanges
    /\ imported = Recorded
    /\ endpoints = <<>>
    /\ op \in Used[c]
    /\ ~running
    /\ \E object \in IF op = "CREATE" THEN {Fresh(Aim)} ELSE {o \in Objects : o.parent = Aim} :
          \E ok \in Answers(c, op, object) :
             /\ log' = Append(log, Exchange(c, op, object, ok))
             /\ alive' = CASE op = "CREATE" -> alive \cup {object}
                           [] op = "DELETE" /\ ok -> alive \ {object}
                           [] OTHER -> alive
    /\ UNCHANGED <<imported, endpoints, running, provenance, records, policy, plan>>

\* hunt ingest: the whole capture, which is closed by then
Import(c) ==
    /\ ~running
    /\ c \notin imported
    /\ From({c}) # {}
    /\ imported' = imported \cup {c}
    /\ plan' = NoPlan
    /\ UNCHANGED <<log, alive, endpoints, running, provenance, records, policy>>

-----------------------------------------------------------------------------
(* hunt inventory                                                          *)

\* Faulty: the provenance goes with the first write.
SurveyWithProvenance ==
    /\ ~running
    /\ endpoints' = Before
    /\ provenance' = [input |-> X, output |-> Before]
    /\ running' = TRUE
    /\ plan' = NoPlan
    /\ UNCHANGED <<log, alive, imported, records, policy>>

Survey ==
    /\ ~running
    /\ endpoints' = Before
    /\ running' = TRUE
    /\ plan' = NoPlan
    /\ UNCHANGED <<log, alive, imported, provenance, records, policy>>

Project ==
    /\ running
    /\ endpoints' = After
    /\ provenance' = [input |-> X, output |-> endpoints']
    /\ running' = FALSE
    /\ plan' = NoPlan
    /\ UNCHANGED <<log, alive, imported, records, policy>>

Killed ==
    /\ running
    /\ running' = FALSE
    /\ UNCHANGED <<log, alive, imported, endpoints, provenance, records, policy, plan>>

\* The recorded input and output are those in place. The code also compares
\* parts of the target file, so it calls fewer inventories current than this.
InventoryIsCurrent == provenance.input = X /\ provenance.output = endpoints

-----------------------------------------------------------------------------
(* hunt hypothesize                                                        *)

\* _runtime_observations
PassiveAt(e) == {x \in Ordinary(X) : x.id \in endpoints[e].sources}

\* _drafts: the gates of the three candidates
Emitted(key) ==
    LET e == TargetOf(key)
    IN /\ e \in DOMAIN endpoints
       /\ IF key = "login"
          THEN /\ \E x \in PassiveAt(e) : x.auth # "none"
               /\ \E x \in PassiveAt(e) : x.auth = "none" /\ x.ok
          ELSE endpoints[e].binding # {} \/ \E x \in PassiveAt(e) : x.auth # "none"

\* _object_authorization_hypothesis and _authentication_hypothesis
Draft(key) ==
    LET e == TargetOf(key)
    IN [category |-> IF key = "login" THEN "authentication" ELSE "authorization",
        rule |-> IF key = "login" THEN "AUTH_ENFORCEMENT" ELSE "AUTH_OBJECT_ACCESS",
        kind |-> "SECURITY_HYPOTHESIS",
        endpoint |-> e,
        target |-> IF key = "login" THEN [class |-> "UNRESOLVED", state |-> "UNKNOWN"]
                   ELSE endpoints[e].semantics,
        observations |-> endpoints[e].sources]

\* finalize_hypothesis_store: what anyone may see is research, not a test
Finalized(h) ==
    IF h.category = "authorization" /\ Visibility(h, endpoints, policy) \in {"PUBLIC", "SHARED"}
    THEN [h EXCEPT !.kind = "RESEARCH_TASK"]
    ELSE h

\* A record that is not emitted again is suppressed and never planned
GenerateHypotheses ==
    /\ ~running
    /\ records' = [key \in Keys |-> IF Emitted(key) THEN Finalized(Draft(key)) ELSE NoRecord]
    /\ plan' = NoPlan
    /\ UNCHANGED <<log, alive, imported, endpoints, running, provenance, policy>>

-----------------------------------------------------------------------------
(* The target file                                                         *)

\* hunt target and hunt actor: a review of a control survives
EditPolicy ==
    /\ ~running
    /\ \E p \in Policies : policy' = [p EXCEPT !.control = policy.control]
    /\ policy' # policy
    /\ plan' = NoPlan
    /\ UNCHANGED <<log, alive, imported, endpoints, running, provenance, records>>

\* The researcher writes down the object and the read the cleanup relies on,
\* with the checksum the readiness report printed
ReviewCleanup ==
    /\ ~running
    /\ records["delete"] # NoRecord
    /\ \E b \in Access(records["delete"], endpoints) :
       \E oracle \in Oracles(records["delete"], X, endpoints) :
          policy' = [policy EXCEPT !.control =
                       [object |-> b.object, actors |-> Accounts, oracle |-> oracle,
                        checksum |-> Checksum(records["delete"], X, endpoints, policy)]]
    /\ plan' = NoPlan
    /\ UNCHANGED <<log, alive, imported, endpoints, running, provenance, records>>

-----------------------------------------------------------------------------
(* hunt plan                                                               *)

\* generate_plan: it reads the record as it was generated and everything else
\* as it is now
PlanHypothesis(key) ==
    /\ ~running
    /\ records[key].kind = "SECURITY_HYPOTHESIS"
    /\ \E v \in Assessments(records[key], X, endpoints, policy) :
          plan' = [key |-> key, blockers |-> v.blockers, witness |-> v.witness,
                   status |-> IF v.blockers = {} THEN "READY_FOR_REVIEW" ELSE "BLOCKED"]
    /\ UNCHANGED <<log, alive, imported, endpoints, running, provenance, records, policy>>

-----------------------------------------------------------------------------
Init ==
    /\ log = History
    /\ alive = {x.object : x \in {History[i] : i \in 1..Len(History)}}
    /\ imported = Recorded
    /\ endpoints = <<>>
    /\ running = FALSE
    /\ provenance = [input |-> {}, output |-> <<>>]
    /\ records = [key \in Keys |-> NoRecord]
    /\ policy = Unreviewed
    /\ plan = NoPlan

Next ==
    \/ \E c \in Captures : Import(c) \/ \E op \in Ops : Browse(c, op)
    \/ Survey
    \/ Project
    \/ Killed
    \/ GenerateHypotheses
    \/ EditPolicy
    \/ ReviewCleanup
    \/ \E key \in Keys : PlanHypothesis(key)

Spec == Init /\ [][Next]_vars

-----------------------------------------------------------------------------
(* Properties                                                              *)

\* The plan was made from what the files hold now, the inventory included
PlanIsCurrent ==
    /\ plan.status # "NONE"
    /\ endpoints = After

Said(object) == {x \in Ordinary(X) : x.object = object}

\* A current plan that is ready for review swaps objects of two accounts, one
\* of them where the hypothesis aims. Each was made and then used by the
\* account it is attributed to, and no imported traffic shows it to anybody
\* else: a test on it can tell a broken boundary from a shared object.
WitnessesOwnTheirObjects ==
    (PlanIsCurrent /\ plan.status = "READY_FOR_REVIEW" /\ plan.key # "login") =>
        /\ Cardinality({b.actor : b \in plan.witness}) = 2
        /\ \E b \in plan.witness : b.object.parent = Aim
        /\ \A b \in plan.witness :
              /\ OwnerOf(b.object) = b.actor
              /\ \E use \in Said(b.object) : use.actor = b.actor /\ use.op = "READ" /\ use.ok
              /\ \A x \in Said(b.object) : x.ok => x.actor = b.actor /\ x.auth # "none"

\* When the exchanges on its object can be put in order and were answered under
\* one kind of credential, a witness of a current plan is not one that imported
\* traffic has deleted since.
WitnessesAreAlive ==
    (PlanIsCurrent /\ plan.status = "READY_FOR_REVIEW" /\ plan.key # "login") =>
        \A b \in plan.witness :
            (\A x, y \in Said(b.object) :
                x.time # NoTime /\ (x.ok /\ y.ok => SameCredential(x, y))) =>
                    ~\E x \in Said(b.object) : x.op = "DELETE" /\ x.ok

\* An inventory whose provenance is current has been through the ownership
\* pass, whatever killed the command before: a half-written endpoints.yaml is
\* never taken for a finished one.
CurrentInventoryIsProjected ==
    InventoryIsCurrent =>
        endpoints = After

\* As long as a reviewed cleanup control is accepted for a plan, the object it
\* names is one an account in the review made itself and nobody else was seen
\* on, and the oracle read has been observed.
ReviewedCleanupHolds ==
    (PlanIsCurrent /\ plan.key = "delete" /\ "CLEANUP" \notin plan.blockers) =>
        /\ OwnerOf(policy.control.object) \in policy.control.actors
        /\ \A x \in Said(policy.control.object) :
              x.ok => x.actor = OwnerOf(policy.control.object)
        /\ \E x \in X : EndpointOf(x) = policy.control.oracle

\* The next action for a stale baseline is to observe fresh objects as LIVE.
\* Once that is done for every account the plan needs, it is no longer blocked
\* by a stale baseline.
FreshObjectUnblocks ==
    (PlanIsCurrent /\ plan.key = "read" /\ "STALE_BASELINE" \in plan.blockers) =>
        ~\E w \in Witnesses({b \in Access(records["read"], endpoints) : b.liveness = "LIVE"}, {Aim}, 2) :
            TRUE
=============================================================================
