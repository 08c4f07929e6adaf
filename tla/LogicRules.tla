------------------------------- MODULE LogicRules -------------------------------
(***************************************************************************)
(* behavior/analysis.py: the business rules a reconstruction suggests, the *)
(* mutations that would break them, and the ones refused for want of       *)
(* meaning.                                                                *)
(*                                                                         *)
(* M is what Journeys!Reconstruction returns.  N is what the analysis      *)
(* reads of the inventory, the target file and the backlog:                *)
(*   endpoints    endpoints with sources, item (the route names one        *)
(*                object), collection (the route it is an item of) and     *)
(*                answers (state and money fields only the response has)   *)
(*   bound        endpoints with a controlled actor-object binding         *)
(*   live         whether the object of some binding is known to exist     *)
(*   owned        endpoints whose visibility is bound to an owner or role  *)
(*   guarded      endpoints an active authorization hypothesis covers      *)
(*   controlled   the researcher's accounts; budget and disposable (a lab  *)
(*                target, which needs no cleanup)                          *)
(*                                                                         *)
(* Journeys of one family take the same steps (Signature), so a family has *)
(* one path.  The code finds the action of a rule in the rule's text; here *)
(* the rule carries it.                                                    *)
(***************************************************************************)
EXTENDS Journeys

OneTime == {"ACCEPT", "APPROVE", "CLAIM", "COMPLETE", "CONFIRM", "CONSUME", "REDEEM", "REFUND",
            "REVERSE", "RETURN", "WITHDRAW"}
Final == {"CANCEL", "CLOSE", "COMPLETE", "CONSUME", "DELETE", "EXPIRE", "REFUND", "REJECT",
          "SHIP"}
Rollback == {"CANCEL", "REFUND", "RETURN", "REVERSE"}
Approving == {"APPROVE", "REVIEW"}
Initiating == {"CREATE", "INITIATE", "REQUEST", "SUBMIT"}
Shadowed == {"invoice", "order", "payment", "subscription", "transfer"}
Financial == {"amount", "balance", "credit", "invoice", "payment", "refund", "reward",
              "transfer", "wallet"}

Verb(name) == name[1]
When(condition, x) == IF condition THEN {x} ELSE {}

\* Confidence, as the code ranks it.
Rank == [SPECULATIVE |-> 0, WEAK |-> 1, MODERATE |-> 2, HIGH |-> 3]

-----------------------------------------------------------------------------
(* What a family shows                                                     *)

JourneysOf(f, M) == {j \in M.journeys : j.family = f.id}
StepsIn(journeys) == UNION {Range(j.steps) : j \in journeys}

\* _observations_for_actions
ObservationsOf(journeys, names) == {s.id : s \in {t \in StepsIn(journeys) : t.name \in names}}

Names(f) == Range(f.path)

\* _state_changing_actions; the last of them on the path is the preferred one.
Changing(f, M) == Names(f) \cap {a.action.name : a \in {b \in M.actions : b.changing}}
LastOnPath(f, names) == f.path[Max({n \in DOMAIN f.path : f.path[n] \in names})]
Preferred(f, M) == LastOnPath(f, Changing(f, M))

\* _value_mutation_action: of the actions that send a value, the first that
\* rolls back, else the last.
ValueActions(f, M) ==
    {s.name : s \in {t \in StepsIn(JourneysOf(f, M)) :
                       t.changing /\ \E v \in t.values : v.dir = "REQUEST"}}
ValueAction(f, M) ==
    LET back == {n \in DOMAIN f.path : f.path[n] \in ValueActions(f, M)
                                       /\ Verb(f.path[n]) \in Rollback}
    IN IF back # {} THEN f.path[Min(back)] ELSE LastOnPath(f, ValueActions(f, M))

\* _confidence_for_family
FamilyConfidence(f) ==
    FirstRule(<< <<f.confidence = "HIGH", Rank.HIGH>>,
                 <<Cardinality(f.journeys) >= 2, Rank.MODERATE>> >>, Rank.WEAK)

ReachesTerminal(name, journeys) ==
    \E s \in StepsIn(journeys) : s.name = name /\
       \E i \in DOMAIN s.states : /\ s.states[i].by = "EXPLICIT_FIELD"
                                  /\ s.states[i].after \in Terminal

\* Comparisons of natural traffic that touch the family.
ComparisonLinks(f, M) ==
    LET ids == ObservationsOf(JourneysOf(f, M), Names(f))
    IN {l \in M.links : /\ l.type = "CROSS_ACTOR_COMPARISON"
                        /\ {l.fromMode, l.toMode} \cap {"RESEARCHER_PROBE", "MIXED"} = {}
                        /\ {l.from, l.to} \cap ids # {}}

Lifecycles(f, M) == {j.resources : j \in JourneysOf(f, M)} \ {{}}

Steered(steps) == UNION {s.steers : s \in steps}
Bound(steps) == UNION {s.bound : s \in steps}
ValuesOf(steps, dir) == {v \in UNION {s.values : s \in steps} : v.dir = dir}
FieldsOf(values) == {v.field : v \in values}

StateTypes(name, journeys) ==
    UNION {{s.states[i].type : i \in DOMAIN s.states} :
              s \in {t \in StepsIn(journeys) : t.name = name}}

-----------------------------------------------------------------------------
(* The rules                                                               *)

NoNeed == <<>>
Bare == [need |-> NoNeed, against |-> {}, causes |-> {}, mutable |-> {}, authoritative |-> {},
         endpoints |-> {}, candidates |-> {}]

\* _invariant: a contradiction lowers the confidence by one.
Rule(f, type, action, support, more) ==
    LET known == more @@ Bare @@ [types |-> f.types]
    IN [type |-> type, family |-> f.id, action |-> action, support |-> support,
        confidence |-> IF known.against = {} THEN FamilyConfidence(f)
                       ELSE Max({FamilyConfidence(f) - 1, Rank.SPECULATIVE})] @@ known

OrderingRules(f, M) ==
    {Rule(f, "ORDERING", p.then, p.observations,
          [need |-> p.first, against |-> p.counterexamples, causes |-> p.bases]) :
       p \in {q \in f.needs : q.then \in Changing(f, M)}}

ActionRules(f, M) ==
    LET journeys == JourneysOf(f, M)
        Of(type, names) == {Rule(f, type, a, ObservationsOf(journeys, {a}), Bare) : a \in names}
    IN Of("SINGLE_EXECUTION", {a \in Changing(f, M) : Verb(a) \in OneTime})
       \cup Of("TERMINAL_STATE",
               {a \in Names(f) : Verb(a) \in Final /\ ReachesTerminal(a, journeys)})
       \cup {Rule(f, "ROLLBACK_CONSISTENCY", a, ObservationsOf(journeys, {a}),
                  [types |-> StateTypes(a, journeys)]) :
               a \in {b \in Names(f) : /\ Verb(b) \in Rollback
                                       /\ Cardinality(StateTypes(b, journeys)) >= 2}}

BindingRules(f, M) ==
    LET steps == StepsIn(JourneysOf(f, M))
        all == ObservationsOf(JourneysOf(f, M), Names(f))
        tokens == {l \in M.links : l.kind = "WORKFLOW_TOKEN" /\ Merges(l) /\ l.from \in all}
    IN When(ComparisonLinks(f, M) # {} /\ Bound(steps) # {} /\ Changing(f, M) # {},
            Rule(f, "ACTOR_BINDING", Preferred(f, M), all, Bare))
       \cup When(/\ Steered(steps) # {} /\ Cardinality(Lifecycles(f, M)) >= 2
                 /\ Changing(f, M) # {},
                 Rule(f, "RESOURCE_BINDING", Preferred(f, M), all, Bare))
       \cup When(tokens # {}, Rule(f, "TOKEN_SCOPE", Last(f.path),
                                   UNION {{l.from, l.to} : l \in tokens}, Bare))

\* VALUE_CONSERVATION: a refund is also compared with the balances its actors saw.
ValueRules(f, M) ==
    LET journeys == JourneysOf(f, M)
        Money(s) == {v \in ValuesOf({s}, "RESPONSE") : v.field[3] \in {"balance", "credit"}}
        balances == {s \in StepsIn(M.journeys) : s.actor \in f.actors /\ Money(s) # {}}
        sent == FieldsOf(ValuesOf(StepsIn(journeys), "REQUEST"))
        seen == FieldsOf(ValuesOf(StepsIn(journeys), "RESPONSE"))
                \cup IF \E a \in Names(f) : Verb(a) \in {"REFUND", "RETURN", "REVERSE"}
                       THEN FieldsOf(ValuesOf(balances, "RESPONSE")) ELSE {}
    IN When(sent # {} /\ Changing(f, M) # {},
            Rule(f, "VALUE_CONSERVATION",
                 IF ValueActions(f, M) = {} THEN NoNeed ELSE ValueAction(f, M),
                 ObservationsOf(journeys, Names(f)) \cup {s.id : s \in balances},
                 [mutable |-> sent, authoritative |-> seen,
                  types |-> f.types
                            \cup IF \E v \in sent \cup seen : v[3] \in {"balance", "credit"}
                                   THEN {"account"} ELSE {}]))

\* The family a shadow endpoint of the type is reported for.
IsPreferredFamily(f, type, M) ==
    LET Weight(g) == 1000 * Rank[g.confidence] + Cardinality(g.journeys)
        rivals == {g \in M.families : type \in g.types}
    IN f = CHOOSE g \in rivals : \A h \in rivals : Weight(h) <= Weight(g)

ShadowRules(f, M, N) ==
    {Rule(f, "SERVER_CONTROLLED_FIELDS", <<"UPDATE", e.resource>>, e.sources,
          [types |-> {e.resource}, endpoints |-> {e.id}, authoritative |-> e.answers,
           candidates |-> {<<"PATCH", e.route>>, <<"PUT", e.route>>}]) :
       e \in {d \in N.endpoints :
                /\ d.method = "GET" /\ d.item
                /\ d.resource \in f.types \cap Shadowed
                /\ IsPreferredFamily(f, d.resource, M)
                /\ Cardinality(d.sources) >= 2 /\ d.answers # {}
                /\ \E c \in N.endpoints : /\ c.method = "POST" /\ c.route = d.collection
                                          /\ c.resource = d.resource
                /\ ~\E c \in N.endpoints : c.method \in {"PATCH", "PUT"} /\ c.route = d.route}}

RoleRules(f, M) ==
    LET approving == {a \in Names(f) : Verb(a) \in Approving}
        starting == {a \in Names(f) : Verb(a) \in Initiating}
    IN When(approving # {} /\ starting # {},
            Rule(f, "ROLE_SEPARATION", CHOOSE a \in approving : TRUE,
                 ObservationsOf(JourneysOf(f, M), approving \cup starting), Bare))

\* infer_business_invariants.  A rule's identifier is its family, type and
\* text: of two prerequisites between the same actions one stays.
RuleId(r) == <<r.family, r.type, r.action, r.need>>

Rules(M, N) ==
    LET found == UNION {OrderingRules(f, M) \cup ActionRules(f, M) \cup BindingRules(f, M)
                        \cup ValueRules(f, M) \cup ShadowRules(f, M, N) \cup RoleRules(f, M) :
                          f \in M.families}
    IN {CHOOSE r \in found : RuleId(r) = i : i \in {RuleId(r) : r \in found}}

-----------------------------------------------------------------------------
(* The mutations                                                           *)

\* What generate_logic_hypotheses makes of a rule: mutation, action changed,
\* actions it is about, accounts it takes.
Lead(mutation, action, about, actors) ==
    [mutation |-> mutation, action |-> action, about |-> about, actors |-> actors]

\* The action after which a terminal one is tried.
BeforeTerminal(f, terminal) ==
    LET open == {n \in DOMAIN f.path : f.path[n] # terminal /\ Verb(f.path[n]) \notin Final}
    IN f.path[IF open = {} THEN 1 ELSE Max(open)]

Leads(r, f) ==
    LET a == r.action IN
    CASE r.type = "ORDERING" ->
           {Lead(m, a, {r.need, a}, 1) : m \in {"OUT_OF_ORDER_EXECUTION", "STEP_SKIPPING"}}
      [] r.type = "SINGLE_EXECUTION" ->
           {Lead(m, a, {a}, 1) : m \in {"REPLAY", "DUPLICATE_ACTION", "CONCURRENT_EXECUTION"}}
      [] r.type = "TERMINAL_STATE" ->
           {Lead("TERMINAL_STATE_BYPASS", BeforeTerminal(f, a), {a, BeforeTerminal(f, a)}, 1)}
      [] r.type = "ACTOR_BINDING" -> {Lead("ACTOR_SWITCH", a, {a}, 2)}
      [] r.type = "RESOURCE_BINDING" -> {Lead("RESOURCE_SWITCH", a, {a}, 2)}
      [] r.type = "TOKEN_SCOPE" -> {Lead("CROSS_WORKFLOW_TOKEN_REUSE", a, {a}, 2)}
      [] r.type = "ROLLBACK_CONSISTENCY" -> {Lead("PARTIAL_ROLLBACK", a, {a}, 1)}
      [] r.type = "VALUE_CONSERVATION" ->
           When(a # NoNeed, Lead("QUANTITY_VALUE_INVARIANT", a, {a}, 1))
      [] r.type = "SERVER_CONTROLLED_FIELDS" -> {Lead("SHADOW_ENDPOINT", a, {}, 1)}
      [] r.type = "ROLE_SEPARATION" -> {Lead("ROLE_APPROVAL_BYPASS", a, {a}, 2)}

\* _safety
Safety(mutation, action) ==
    FirstRule(<<
        <<mutation = "CONCURRENT_EXECUTION", "CONCURRENT">>,
        <<\/ mutation = "SHADOW_ENDPOINT"
          \/ Verb(action) \in {"CAPTURE", "PAY", "REFUND", "RETURN", "SETTLE", "TRANSFER",
                               "WITHDRAW"}
          \/ action[2] \in {"payment", "refund", "transfer", "wallet"},
          "FINANCIAL_STATE_CHANGE">>,
        <<Verb(action) \in {"DELETE", "CLOSE", "TERMINATE"}, "DESTRUCTIVE">>,
        <<Verb(action) \in {"PROVISION", "SHIP"}, "EXTERNAL_SIDE_EFFECT">>,
        <<Verb(action) = "READ", "READ_ONLY">>,
        <<Verb(action) \in {"CANCEL", "SUSPEND", "DISABLE"}, "REVERSIBLE_STATE_CHANGE">> >>,
        "LOW_RISK_STATE_CHANGE")

Bounded == {"LOW_RISK_STATE_CHANGE", "READ_ONLY", "REVERSIBLE_STATE_CHANGE"}

\* _endpoint_ids, or the endpoints of the rule
EndpointsOf(r, f, lead, M) ==
    IF r.endpoints # {} THEN r.endpoints
    ELSE {s.endpoint : s \in {t \in StepsIn(JourneysOf(f, M)) : t.name \in lead.about}}

\* Why a candidate is only a lead: no such route was seen, or the endpoint
\* has an authorization hypothesis already (load_existing_endpoint_hypotheses).
Suppression(lead, endpoints, N) ==
    When(lead.mutation = "SHADOW_ENDPOINT", "unobserved_method")
    \cup When(lead.mutation = "RESOURCE_SWITCH" /\ endpoints \cap N.guarded # {}, "guarded")

RequestBudget(lead) ==
    IF lead.mutation \in {"REPLAY", "DUPLICATE_ACTION", "CONCURRENT_EXECUTION"} THEN 5 ELSE 4

\* _logic_readiness: every rule here changes state, so a resolved transition
\* is both the baseline and the oracle.
UnmetBy(f, lead, endpoints, safety, M, N) ==
    LET resolved == \E t \in M.transitions :
                       t.family = f.id /\ t.from # Unresolved /\ t.to # Unresolved
        bindings == {"ACTOR_SWITCH", "RESOURCE_SWITCH", "CROSS_WORKFLOW_TOKEN_REUSE"}
        met == [CONCRETE_TEST |-> endpoints # {},
                ACTOR |-> Cardinality(N.controlled) >= lead.actors,
                OWNERSHIP |-> lead.mutation \in bindings => endpoints \cap N.owned # {},
                BASELINE |-> resolved,
                REQUEST_TEMPLATE |-> endpoints # {} /\ lead.mutation # "SHADOW_ENDPOINT",
                ORACLE |-> resolved,
                BUDGET |-> N.budget >= RequestBudget(lead),
                SEGMENTATION |-> f.confidence # "WEAK",
                CLEANUP |-> N.disposable \/ safety = "REVERSIBLE_STATE_CHANGE"]
    IN {c \in DOMAIN met : ~met[c]}

\* _score
Score(r, f, lead, unmet) ==
    LET Clip(n) == Min({Max({n, 1}), 5})
        support == Cardinality(f.journeys)
        money == \/ lead.action[2] \in Financial \/ Verb(lead.action) \in {"PAY", "REFUND",
                                                      "RETURN", "SETTLE", "TRANSFER", "WITHDRAW"}
                 \/ \E v \in r.authoritative : v[3] \in Financial
    IN [likelihood |-> Clip(1 + (IF support >= 3 THEN 2 ELSE IF support = 2 THEN 1 ELSE 0)
                              + (IF r.confidence = Rank.HIGH THEN 1 ELSE 0)
                              - (IF r.against # {} THEN 1 ELSE 0)),
        impact |-> Clip(2 + (IF money THEN 2 ELSE 0)
                          + (IF Verb(lead.action) = "APPROVE" THEN 1 ELSE 0)),
        readiness |-> Clip(5 - Cardinality(unmet) - Cardinality(unmet \cap {"ACTOR", "BASELINE"})),
        confidence |-> <<1, 2, 4, 5>>[r.confidence + 1]]

Total(score) == score.likelihood + score.impact + score.readiness + score.confidence

\* _hypothesis: a lead that is unsafe, weak or suppressed is no hypothesis.
Hypothesis(r, f, lead, M, N) ==
    LET endpoints == EndpointsOf(r, f, lead, M)
        safety == Safety(lead.mutation, lead.action)
        unmet == UnmetBy(f, lead, endpoints, safety, M, N)
        suppressed == Suppression(lead, endpoints, N)
        tested == /\ safety \in Bounded /\ suppressed = {}
                  /\ r.confidence \in {Rank.MODERATE, Rank.HIGH}
    IN [id |-> <<RuleId(r), lead.mutation, lead.action>>, mutation |-> lead.mutation,
        action |-> lead.action, rule |-> r, family |-> f.id, actors |-> lead.actors,
        endpoints |-> endpoints, safety |-> safety, suppressed |-> suppressed, unmet |-> unmet,
        evidence |-> r.support \cup ObservationsOf(JourneysOf(f, M), lead.about),
        score |-> Score(r, f, lead, unmet),
        kind |-> IF tested THEN "SECURITY_HYPOTHESIS" ELSE "RESEARCH_TASK",
        readiness |-> IF ~tested THEN "RESEARCH_ONLY"
                      ELSE IF unmet # {} THEN "REVIEW_REQUIRED" ELSE "TEST_READY",
        epistemic |-> IF tested THEN "TEST_CANDIDATE" ELSE "RESEARCH_TASK"]

\* generate_logic_hypotheses
FamilyNamed(id, M) == CHOOSE f \in M.families : f.id = id

Hypotheses(M, N) ==
    UNION {{Hypothesis(r, FamilyNamed(r.family, M), lead, M, N) :
              lead \in Leads(r, FamilyNamed(r.family, M))} : r \in Rules(M, N)}

-----------------------------------------------------------------------------
(* The mutations refused                                                   *)

Rejection(f, mutation, action, reasons) ==
    [family |-> f.id, mutation |-> mutation, action |-> action, reasons |-> reasons]

\* Why two actors, or two resources, cannot be compared in the family
NoBaseline(N, none, historical, elsewhere) ==
    IF N.bound = {} THEN none ELSE IF ~N.live THEN historical ELSE elsewhere

OrderRejections(f, M) ==
    LET one == CHOOSE j \in JourneysOf(f, M) : TRUE
    IN {Rejection(f, m, f.path[n + 1], {"adjacency_only"}) :
          m \in {"STEP_SKIPPING", "OUT_OF_ORDER_EXECUTION"},
          n \in {k \in f.clues : one.steps[k + 1].changing}}

PreferredRejections(f, M, N) ==
    LET action == Preferred(f, M)
        steps == {s \in StepsIn(JourneysOf(f, M)) : s.name = action}
        few == Cardinality(Lifecycles(f, M)) < 2
    IN IF Changing(f, M) = {} THEN {}
       ELSE When(ValuesOf(steps, "REQUEST") = {},
                 Rejection(f, "QUANTITY_VALUE_INVARIANT", action, {"no_value_field"}))
       \cup When(ComparisonLinks(f, M) = {} \/ Bound(steps) = {},
                 Rejection(f, "ACTOR_SWITCH", action,
                    When(Bound(steps) = {}, "no_binding")
                    \cup When(ComparisonLinks(f, M) = {},
                              NoBaseline(N, "no_comparison", "no_live_object", "elsewhere"))))
       \cup When(Steered(steps) = {} \/ few,
                 Rejection(f, "RESOURCE_SWITCH", action,
                    When(Steered(steps) = {}, "no_identifier")
                    \cup When(few, NoBaseline(N, "fewer_than_two_lifecycles",
                                              "no_live_object", "elsewhere"))))

ActionRejections(f, M) ==
    LET journeys == JourneysOf(f, M)
    IN {Rejection(f, m, a, {"not_one_time"}) :
          m \in {"REPLAY", "DUPLICATE_ACTION", "CONCURRENT_EXECUTION"},
          a \in {b \in Changing(f, M) : Verb(b) \notin OneTime}}
       \cup {Rejection(f, "TERMINAL_STATE_BYPASS", a, {"no_terminal_state"}) :
               a \in {b \in Changing(f, M) : Verb(b) \in Final /\ ~ReachesTerminal(b, journeys)}}
       \cup {Rejection(f, "PARTIAL_ROLLBACK", a, {"one_resource"}) :
               a \in {b \in Changing(f, M) : /\ Verb(b) \in Rollback
                                             /\ Cardinality(StateTypes(b, journeys)) < 2}}

\* generate_mutation_rejections: what no hypothesis was made of
Rejections(M, N, hypotheses) ==
    LET accepted == {<<h.family, h.mutation, h.action>> : h \in hypotheses}
    IN {r \in UNION {OrderRejections(f, M) \cup PreferredRejections(f, M, N)
                     \cup ActionRejections(f, M) : f \in M.families} :
          <<r.family, r.mutation, r.action>> \notin accepted}
=============================================================================
