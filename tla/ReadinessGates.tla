---------------------------- MODULE ReadinessGates ----------------------------
(***************************************************************************)
(* The one evaluator that decides whether a hypothesis can become a test   *)
(* (hypotheses/readiness.py, constructability.py, semantics.py).           *)
(*                                                                         *)
(* A hypothesis is a record                                                *)
(*   category, rule    what the generator emitted                          *)
(*   kind              SECURITY_HYPOTHESIS or RESEARCH_TASK                *)
(*   endpoint          its source endpoint                                 *)
(*   target            the class and state of its mutation target          *)
(* It is judged against X, the imported exchanges, E, the inventory (a     *)
(* function on endpoints), and P, the target file:                         *)
(*   authenticated, confirmed   the accounts that are set up, the ones     *)
(*                              whose identity an assertion confirmed      *)
(*   budget        maximum_requests_per_plan                               *)
(*   intent        the reviewed visibility of the endpoint, or NoRule      *)
(*   control       the reviewed cleanup control, or NoControl              *)
(*                                                                         *)
(* Left out, because nothing here varies them: a target that is synthetic  *)
(* or a local lab (it needs no cleanup control), hosts outside the scope,  *)
(* fewer than two researcher accounts, a mutation outside the path, and    *)
(* the capabilities of the business-logic candidates.                      *)
(***************************************************************************)
EXTENDS ControlledOwnership

NoRule == "NoRule"
NoControl == [none |-> TRUE]
NoContext == "NoContext"

-----------------------------------------------------------------------------
(* The protected subject and who may see it                                *)

\* The access evidence that names this mutation target
Access(h, E) == E[h.endpoint].binding

OwnerSignals(h, E) ==
    \/ h.target.class = "OWNED_OBJECT" /\ h.target.state \in {"CONFIRMED", "STRONG_INFERRED"}
    \/ Access(h, E) # {}

PublicSignals(h, E) ==
    \/ h.endpoint.op = "READ" /\ E[h.endpoint].anonymous
    \/ PublicScope

\* assess_domain_intent: the review, then what was seen, owner before public.
\* The only owner signal here is a controlled lifecycle, a producer-consumer
\* binding.
Visibility(h, E, P) ==
    CASE P.intent # NoRule -> P.intent
      [] P.intent = NoRule /\ OwnerSignals(h, E) ->
             "ACTOR_BOUND"
      [] P.intent = NoRule /\ ~OwnerSignals(h, E) /\ PublicSignals(h, E) ->
             IF E[h.endpoint].anonymous THEN "PUBLIC" ELSE "SHARED"
      [] OTHER -> "UNKNOWN"

-----------------------------------------------------------------------------
(* Comparison baselines                                                    *)

\* _runtime_comparison_context: the service and authentication of an exchange
Context(endpoint, x) ==
    IF /\ x.id \in endpoint.sources
       /\ x.auth # "none" \/ ~endpoint.required
    THEN x.auth
    ELSE NoContext

\* _source_comparison_contexts
SourceContexts(h, X, E) ==
    {Context(E[h.endpoint], x) : x \in {y \in X : y.id \in h.observations}} \ {NoContext}
TargetParents(h, X, E) ==
    {x.object.parent : x \in {y \in X : /\ y.id \in h.observations
                                        /\ Context(E[h.endpoint], y) # NoContext}}

\* _comparison_candidate, with _baseline_runtime_provenance
IsCandidate(b, h, X, E, P) ==
    LET e == [op |-> b.op, parent |-> b.object.parent]
        known == {x \in X : x.id = b.observation}
    IN /\ b.actor \in P.authenticated
       /\ e \in DOMAIN E
       /\ \E x \in known :
             /\ x.actor = b.actor
             /\ x.object = b.object
             /\ x.auth = b.auth
             /\ Context(E[e], x) \in SourceContexts(h, X, E)

Candidates(h, X, E, P) == {b \in Access(h, E) : IsCandidate(b, h, X, E, P)}

\* _canonical_comparison_baselines: corroborating uses are one baseline
Merged(candidates, b) ==
    LET same == {c \in candidates : c.actor = b.actor /\ c.object = b.object}
        says == {c.liveness : c \in same}
    IN [actor |-> b.actor, object |-> b.object,
        liveness |-> IF Cardinality(says) = 1 THEN b.liveness ELSE "UNKNOWN"]
Canonical(candidates) == {Merged(candidates, b) : b \in candidates}

\* _required_actors
RequiredActors(h) == IF h.category = "authorization" THEN 2 ELSE 1

\* _comparison_witness: as many accounts as required with an object each, one
\* of them where the hypothesis aims. The order the code tries them in is one
\* of digests.
Witnesses(baselines, parents, required) ==
    {w \in SUBSET baselines :
        /\ Cardinality(w) = required
        /\ Cardinality({b.actor : b \in w}) = required
        /\ Cardinality({b.object : b \in w}) = required
        /\ parents # {} => \E b \in w : b.object.parent \in parents}

\* _select_comparison_group: one authentication context at a time, a context
\* that has a witness first, then the one with most accounts, then objects
InContext(candidates, c) == Canonical({b \in candidates : b.auth = c})
Anchored(candidates, parents, c) ==
    parents # {} => \E b \in InContext(candidates, c) : b.object.parent \in parents
Rank(candidates, parents, required, c) ==
    LET baselines == InContext(candidates, c)
    IN <<IF Witnesses(baselines, parents, required) = {} THEN 0 ELSE 1,
         Cardinality({b.actor : b \in baselines}), Cardinality({b.object : b \in baselines})>>
Above(p, q) ==
    \/ p[1] > q[1]
    \/ p[1] = q[1] /\ p[2] > q[2]
    \/ p[1] = q[1] /\ p[2] = q[2] /\ p[3] > q[3]
Groups(candidates, parents, required) ==
    LET open == {c \in {b.auth : b \in candidates} : Anchored(candidates, parents, c)}
    IN {c \in open : \A d \in open :
           ~Above(Rank(candidates, parents, required, d), Rank(candidates, parents, required, c))}

\* The comparisons the evaluator may settle on: a witness and the accounts of
\* the baselines it was chosen from, or no witness
Comparisons(candidates, parents, required) ==
    IF Groups(candidates, parents, required) = {} THEN {[witness |-> {}, actors |-> {}]}
    ELSE UNION {
        LET baselines == InContext(candidates, c)
            choices == Witnesses(baselines, parents, required)
        IN {[witness |-> w, actors |-> {b.actor : b \in baselines}]
              : w \in IF choices = {} THEN {{}} ELSE choices}
        : c \in Groups(candidates, parents, required)}

-----------------------------------------------------------------------------
(* Cleanup of a state-changing test                                        *)

\* _oracle_endpoints with runtime evidence: a safe read of the same parent
Oracles(h, X, E) ==
    {e \in DOMAIN E : /\ e.op = "READ"
                      /\ e.parent = h.endpoint.parent
                      /\ \E x \in X : x.id \in E[e].sources}

\* cleanup_control_source_checksum: the target file without its controls, the
\* exchanges and the endpoint the review was made on
Checksum(h, X, E, P) ==
    [policy |-> [P EXCEPT !.control = NoControl],
     exchanges |-> {x \in X : x.id \in h.observations \cup E[h.endpoint].sources},
     endpoint |-> E[h.endpoint]]

\* _resolve_cleanup_resource_ref: every baseline of the named object stands
IsCleanupResource(object, h, X, E, P) ==
    LET named == {b \in Access(h, E) : b.object = object}
    IN /\ named # {}
       /\ \A b \in named :
             /\ b.actor \in P.control.actors
             /\ b.object.parent = h.endpoint.parent
             /\ \E x \in X : x.id = b.observation /\ x.actor = b.actor

\* _resolve_cleanup_control
CleanupStands(h, X, E, P, actors) ==
    /\ P.control # NoControl
    /\ P.control.checksum = Checksum(h, X, E, P)
    /\ P.control.actors \subseteq Accounts
    /\ actors \subseteq P.control.actors
    /\ IsCleanupResource(P.control.object, h, X, E, P)
    /\ P.control.oracle \in Oracles(h, X, E)

-----------------------------------------------------------------------------
(* The verdict                                                             *)

Read(h) == h.endpoint.op = "READ"
NeedsBaseline(h) == h.rule = "AUTH_OBJECT_ACCESS"

\* runtime_source_ids
Runtime(h, X, E) == {x.id : x \in X} \cap h.observations \cap E[h.endpoint].sources

\* The capabilities of build_record_readiness_context
OwnedObject(h) ==
    h.target.class = "OWNED_OBJECT" /\ h.target.state \notin {"SHARED", "CONTRADICTED"}

OwnershipKnown(h, E, P) ==
    /\ h.target.class = "OWNED_OBJECT"
    /\ h.target.state \in {"CONFIRMED", "STRONG_INFERRED"}
    /\ Visibility(h, E, P) \in {"OWNER_SCOPED", "ACTOR_BOUND"}

BaselineKnown(h, X, E, c) ==
    IF h.category = "authorization" THEN c.witness # {} ELSE Runtime(h, X, E) # {}

TemplateKnown(h, X, E) == Runtime(h, X, E) # {}

OracleKnown(h, X, E) ==
    IF Read(h) THEN Runtime(h, X, E) # {}
    ELSE Oracles(h, X, E) # {} /\ h.observations \cap {x.id : x \in X} # {}

CleanupKnown(h, X, E, P, c) == Read(h) \/ CleanupStands(h, X, E, P, c.actors)

Unmet(h, X, E, P, c) ==
    {code \in {"SEMANTIC_TARGET", "OWNERSHIP", "BASELINE", "TEMPLATE", "ORACLE", "CLEANUP"} :
          CASE code = "SEMANTIC_TARGET" -> NeedsBaseline(h) /\ ~OwnedObject(h)
            [] code = "OWNERSHIP" -> h.category = "authorization" /\ ~OwnershipKnown(h, E, P)
            [] code = "BASELINE" -> ~BaselineKnown(h, X, E, c)
            [] code = "TEMPLATE" -> ~TemplateKnown(h, X, E)
            [] code = "ORACLE" -> ~OracleKnown(h, X, E)
            [] code = "CLEANUP" -> ~CleanupKnown(h, X, E, P, c)}

\* identity_facts: the accounts of the witness, or whoever was seen sending it
ExecutionActors(h, X, E, c) ==
    IF c.witness # {} THEN {b.actor : b \in c.witness}
    ELSE {x.actor : x \in {y \in X : y.id \in Runtime(h, X, E)}} \cap Accounts

\* core_template_exists
Template(h, X, E, c) ==
    /\ Read(h)
    /\ TemplateKnown(h, X, E)
    /\ NeedsBaseline(h) =>
          /\ OwnedObject(h)
          /\ c.witness # {}
          /\ \A b \in c.witness : b.liveness = "LIVE"

\* assess_execution_constructability
Blocked(h, X, E, P, c) ==
    {code \in {"UNSUPPORTED", "STALE_BASELINE", "NO_LIVE_OBJECT", "IDENTITY", "BUDGET"} :
        CASE code = "UNSUPPORTED" -> ~Read(h)
          [] code = "STALE_BASELINE" ->
               \E b \in c.witness : b.liveness \in {"DELETED", "HISTORICAL_ONLY"}
          [] code = "NO_LIVE_OBJECT" -> \E b \in c.witness : b.liveness = "UNKNOWN"
          [] code = "IDENTITY" -> ~(ExecutionActors(h, X, E, c) \subseteq P.confirmed)
          [] code = "BUDGET" -> Template(h, X, E, c) /\ P.budget < 2}

\* evaluate_readiness
Verdict(h, X, E, P, c) ==
    LET blockers == Unmet(h, X, E, P, c) \cup Blocked(h, X, E, P, c)
        value == CASE h.kind # "SECURITY_HYPOTHESIS" -> "RESEARCH_ONLY"
                   [] h.kind = "SECURITY_HYPOTHESIS" /\ blockers # {} -> "REVIEW_REQUIRED"
                   [] OTHER -> "TEST_READY"
    IN [readiness |-> value, blockers |-> blockers, witness |-> c.witness,
        actionable |-> value = "TEST_READY" /\ Template(h, X, E, c)]

\* assess_record_readiness, once for every comparison it may settle on
Assessments(h, X, E, P) ==
    {Verdict(h, X, E, P, c) :
        c \in Comparisons(Candidates(h, X, E, P), TargetParents(h, X, E), RequiredActors(h))}
=============================================================================
