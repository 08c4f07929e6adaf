--------------------------- MODULE HypothesisClusters ---------------------------
(***************************************************************************)
(* behavior/hypothesis_precision.py: what a mutation asks, independently   *)
(* of the journeys it was found on; the evidence that qualifies it; and    *)
(* the clusters of hypotheses that ask the same.                           *)
(*                                                                         *)
(* N also holds the observations (id, actor, capture), the ones that were  *)
(* authenticated and the role of each account.  Its endpoints have the     *)
(* placeholders of the route, and their parameters tell whether they       *)
(* identify an object.  Action names and routes are well formed here, so   *)
(* that a label is the action's own name.                                  *)
(***************************************************************************)
EXTENDS LogicRules

Ordering == {"OUT_OF_ORDER_EXECUTION", "STEP_SKIPPING"}
ResourceMutations == {"RESOURCE_SWITCH", "CROSS_WORKFLOW_TOKEN_REUSE", "PARTIAL_ROLLBACK"}
ActorMutations == {"ACTOR_SWITCH", "ROLE_APPROVAL_BYPASS"}
NotAnObject == {"REGION", "SHARED_SCOPE", "TENANT_CONTAINER", "PARENT_CONTAINER", "COLLECTION",
                "ACTOR_IDENTIFIER", "AUTH_IDENTIFIER", "NON_SECURITY_RELEVANT"}
Nobody == {"ANONYMOUS", "UNKNOWN"}

Strength == [INSUFFICIENT |-> 0, WEAK |-> 1, MODERATE |-> 2, STRONG |-> 3]
Trust == [LOW |-> 1, MEDIUM |-> 2, HIGH |-> 3]
Promotion == [SUPPRESSED |-> 0, RESEARCH_LOW |-> 1, RESEARCH_MEDIUM |-> 2, RESEARCH_HIGH |-> 3,
              REVIEW_REQUIRED |-> 4, TEST_READY |-> 5]

-----------------------------------------------------------------------------
(* What a hypothesis asks                                                  *)

\* _relevant_endpoints
EndpointsFor(h, N) ==
    LET named == {e \in N.endpoints : e.id \in h.endpoints}
    IN IF named # {} THEN named
       ELSE {e \in N.endpoints : <<e.method, e.route>> \in h.rule.candidates}

Roles(actors, N) == {N.role[a] : a \in actors \ Nobody}

\* _semantics: the question, whose fingerprint names the cluster.  The family
\* is not part of it.
Question(h, M, N) ==
    LET f == FamilyNamed(h.family, M)
        endpoints == EndpointsFor(h, N)
        resources == h.rule.types \cup {e.resource : e \in endpoints} \cup f.types
                     \cup {h.action[2]}
        fields == Steered({s \in StepsIn(JourneysOf(f, M)) : s.name = h.action})
        moves == {t \in M.transitions : t.family = f.id /\ t.by = h.action}
        move == CHOOSE t \in moves : TRUE
    IN [mutation |-> h.mutation, action |-> h.action, property |-> h.rule.type,
        actors |-> IF h.mutation \in ActorMutations THEN Roles(f.actors, N) ELSE {},
        resources |-> IF h.mutation \in ResourceMutations THEN <<resources, fields>>
                      ELSE <<{h.action[2]}, {}>>,
        states |-> IF h.mutation \notin Ordering \/ moves = {} THEN {}
                   ELSE {move.from, move.to},
        needs |-> IF h.mutation \in Ordering THEN {h.rule.need, h.action} ELSE {},
        endpoints |-> {<<e.method, e.route>> : e \in endpoints} \cup h.rule.candidates]

-----------------------------------------------------------------------------
(* The evidence for it                                                     *)

\* _support_units: journeys that differ in capture, actor, resource or path
\* count as independent.
Supports(h, M, N) ==
    LET Steps(j) == SelectSeq(j.steps, LAMBDA s : s.id \in h.evidence \/ s.name = h.action)
        touched == {j \in JourneysOf(FamilyNamed(h.family, M), M) : Steps(j) # <<>>}
        seen == {o \in N.observations : o.id \in h.evidence}
    IN IF touched # {}
         THEN {[captures |-> j.captures, actors |-> j.actors \ Nobody,
                resources |-> j.resources,
                path |-> [n \in DOMAIN Steps(j) |-> Steps(j)[n].name]] : j \in touched}
         ELSE {[captures |-> {o.capture : o \in seen},
                actors |-> {o.actor : o \in seen} \ {"UNKNOWN"},
                resources |-> {}, path |-> <<h.action>>]}

\* _evidence
EvidenceFor(h, M, N) ==
    LET f == FamilyNamed(h.family, M)
        journeys == JourneysOf(f, M)
        endpoints == EndpointsFor(h, N)
        steps == {s \in StepsIn(journeys) : s.name = h.action}
        comparisons == ComparisonLinks(f, M)
        changing == (\E s \in steps : s.changing) \/ (\E e \in endpoints : e.changes)
        authenticated == h.evidence \cap N.authenticated # {} \/ \E e \in endpoints : e.required
        owned == h.endpoints \cap N.bound # {}
        parameters == UNION {e.parameters : e \in endpoints}
        identified ==
            \/ \E p \in parameters : p.dir = "REQUEST" /\ p.object /\ p.class \notin NotAnObject
            \/ \E s \in Steered(steps) :
                  /\ ~\E e \in endpoints : <<s[2], s[3]>> \in e.placeholders
                  /\ ~\E p \in parameters : p.dir = "REQUEST" /\ <<p.of, p.word>> = <<s[2], s[3]>>
        reads == /\ ~changing /\ authenticated
                 /\ \E e \in endpoints : e.method \in {"GET", "HEAD"}
                 /\ owned \/ \E e \in endpoints : e.relevance >= 4
    IN [authenticated |-> authenticated,
        sensitiveRead |-> reads,
        sensitive |-> \/ changing \/ reads
                      \/ h.safety \notin {"READ_ONLY", "LOW_RISK_STATE_CHANGE"}
                      \/ \E e \in endpoints : e.relevance >= 5,
        changing |-> changing,
        identifier |-> identified,
        owned |-> owned,
        compared |-> comparisons # {}
                     /\ Cardinality(UNION {{l.fromActor, l.toActor} : l \in comparisons}
                                    \ Nobody) >= 2,
        capability |-> \E l \in comparisons : /\ l.basis = "CAPABILITY_ISSUED"
                                              /\ l.evidence.capability /\ l.evidence.advances,
        causal |-> h.rule.causes # {} /\ h.rule.need \notin {NoNeed, h.rule.action},
        business |-> /\ ~\E e \in endpoints : e.class \in NoiseClasses
                     /\ h.rule.types \cup {e.resource : e \in endpoints} # {"resource"},
        identifiable |-> identified /\ \E j \in journeys : j.resources # {},
        crossing |-> identified /\ Cardinality(Lifecycles(f, M)) >= 2,
        privileged |-> \/ h.mutation = "ROLE_APPROVAL_BYPASS" \/ Verb(h.action) \in Approving
                       \/ \E r \in Roles(UNION {j.actors : j \in journeys}, N) : r # "user"]

ActorBound(e) ==
    e.compared /\ e.identifier /\ e.business /\ e.sensitive
    /\ (e.owned \/ e.capability \/ e.causal)

ResourceBound(e) ==
    e.identifier /\ e.business /\ e.identifiable /\ e.crossing /\ e.sensitive
    /\ (e.owned \/ e.causal)

\* _evidence_strength
StrengthOf(h, e, supports) ==
    LET named == Cardinality({k \in DOMAIN e \ {"sensitiveRead"} : e[k]})
        core == CASE h.mutation = "ACTOR_SWITCH" -> ActorBound(e)
                  [] h.mutation = "RESOURCE_SWITCH" -> ResourceBound(e)
                  [] h.mutation \in Ordering -> e.causal /\ e.sensitive
                  [] OTHER -> e.business /\ (e.sensitive \/ e.privileged)
    IN FirstRule(<< <<core /\ supports >= 2 /\ named >= 5, Strength.STRONG>>,
                    <<core /\ named >= 3, Strength.MODERATE>>,
                    <<e.business /\ e.sensitive, Strength.WEAK>> >>, Strength.INSUFFICIENT)

\* _security_confidence
TrustIn(rule, strength) ==
    FirstRule(<< <<strength = Strength.STRONG /\ rule.confidence >= Rank.MODERATE, Trust.HIGH>>,
                 <<strength >= Strength.MODERATE /\ rule.confidence > Rank.SPECULATIVE,
                   Trust.MEDIUM>> >>, Trust.LOW)

\* _research_score
ResearchScore(h, e, supports, strength, trust) ==
    LET counted == {"authenticated", "sensitive", "identifier", "owned", "compared",
                    "capability", "causal", "business", "crossing"}
    IN 3 * Total(h.score) + 3 * Cardinality({k \in counted : e[k]})
       + 2 * Min({supports, 3}) + 3 * strength + 2 * trust + 3

\* Why _qualification suppresses a hypothesis
Doubts(h, e, N) ==
    When(h.mutation \in Ordering /\ h.rule.need = h.rule.action, "SELF_REFERENTIAL_ORDERING")
    \cup When(\E x \in EndpointsFor(h, N) : x.class \in NoiseClasses, "LOW_SECURITY_RELEVANCE")
    \cup When(h.mutation = "ACTOR_SWITCH" /\ ~ActorBound(e),
              "INSUFFICIENT_ACTOR_BINDING_EVIDENCE")
    \cup When(h.mutation = "RESOURCE_SWITCH" /\ ~ResourceBound(e),
              "INSUFFICIENT_RESOURCE_SWITCH_EVIDENCE")
    \cup When("guarded" \in h.suppressed, "OVERLAPS_STRONGER_ENDPOINT_HYPOTHESIS")

Promoted(h, doubts, strength, trust) ==
    LET tested == h.kind = "SECURITY_HYPOTHESIS" /\ strength >= Strength.MODERATE
    IN FirstRule(<<
        <<doubts # {}, Promotion.SUPPRESSED>>,
        <<tested /\ h.readiness = "TEST_READY" /\ trust # Trust.LOW, Promotion.TEST_READY>>,
        <<tested /\ h.readiness = "REVIEW_REQUIRED", Promotion.REVIEW_REQUIRED>>,
        <<strength = Strength.STRONG /\ trust = Trust.HIGH, Promotion.RESEARCH_HIGH>>,
        <<strength >= Strength.MODERATE, Promotion.RESEARCH_MEDIUM>> >>, Promotion.RESEARCH_LOW)

\* One item of calibrate_hypotheses
Calibrated(h, M, N) ==
    LET supports == Supports(h, M, N)
        e == EvidenceFor(h, M, N)
        strength == StrengthOf(h, e, Cardinality(supports))
        trust == TrustIn(h.rule, strength)
        doubts == Doubts(h, e, N)
    IN [question |-> Question(h, M, N), supports |-> supports, strength |-> strength,
        trust |-> trust, doubts |-> doubts, promotion |-> Promoted(h, doubts, strength, trust),
        research |-> ResearchScore(h, e, Cardinality(supports), strength, trust)] @@ h

-----------------------------------------------------------------------------
(* Clusters                                                                *)

\* _cluster_readiness
ClusterReadiness(visible) ==
    FirstRule(<< <<visible # {} /\ \A h \in visible : h.readiness = "TEST_READY"
                                                      /\ h.unmet = {}, "TEST_READY">>,
                 <<\E h \in visible : h.readiness # "RESEARCH_ONLY", "REVIEW_REQUIRED">> >>,
              "RESEARCH_ONLY")

\* The member that stands for the cluster: among the visible ones the best
\* promoted, then the best scored.
Better(h, k) ==
    \/ h.promotion > k.promotion
    \/ h.promotion = k.promotion /\ h.research > k.research
    \/ h.promotion = k.promotion /\ h.research = k.research /\ Total(h.score) > Total(k.score)
StandsFor(members) == CHOOSE h \in members : ~\E k \in members : Better(k, h)

\* _cluster: independent contexts raise a research promotion, never readiness.
Cluster(members) ==
    LET visible == {h \in members : h.promotion # Promotion.SUPPRESSED}
        supports == UNION {h.supports : h \in members}
        trust == IF visible = {} THEN Trust.LOW ELSE Max({h.trust : h \in visible})
        best == IF visible = {} THEN Promotion.SUPPRESSED
                ELSE Max({h.promotion : h \in visible})
        raised == best \in {Promotion.RESEARCH_LOW, Promotion.RESEARCH_MEDIUM}
                  /\ Cardinality(supports) >= 2
    IN [question |-> (CHOOSE h \in members : TRUE).question,
        members |-> {h.id : h \in members},
        representative |-> StandsFor(IF visible = {} THEN members ELSE visible).id,
        promotion |-> IF ~raised THEN best
                      ELSE IF trust = Trust.HIGH THEN Promotion.RESEARCH_HIGH
                      ELSE Promotion.RESEARCH_MEDIUM,
        trust |-> trust, supports |-> supports, readiness |-> ClusterReadiness(visible),
        doubts |-> IF visible = {} THEN UNION {h.doubts : h \in members} ELSE {},
        research |-> Max({h.research : h \in members})
                     + 3 * Min({Cardinality(supports) - 1, 3})]

\* cluster_is_visible
Shown(c) == c.promotion > Promotion.RESEARCH_LOW

\* calibrate_hypotheses
Clusters(calibrated) ==
    {Cluster({h \in calibrated : h.question = q}) : q \in {h.question : h \in calibrated}}

\* analyze_business_logic up to its first write: what one reconstruction and
\* one inventory lead to.
Analysis(M, N) ==
    LET hypotheses == Hypotheses(M, N)
        calibrated == {Calibrated(h, M, N) : h \in hypotheses}
    IN [rules |-> Rules(M, N), hypotheses |-> calibrated,
        rejections |-> Rejections(M, N, hypotheses), clusters |-> Clusters(calibrated)]
=============================================================================
