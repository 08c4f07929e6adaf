------------------------------ MODULE CausalLinks ------------------------------
(***************************************************************************)
(* The first half of behavior/reconstruction.py and the causal rules of    *)
(* behavior/domain.py: which exchanges count, the actions and resources    *)
(* they name, and how a value answered by one exchange and sent by a later *)
(* one relates them.                                                       *)
(*                                                                         *)
(* F is a function from exchange ids to the facts ExchangeSignals!Facts    *)
(* gives of them.                                                          *)
(***************************************************************************)
EXTENDS ExchangeSignals

Never == 1000000
Day == 86400

Mutating == {"POST", "PUT", "PATCH", "DELETE"}
Reading == {"GET", "HEAD", "OPTIONS"}
ProducerVerbs == {"CLAIM", "CREATE", "GENERATE", "INITIATE", "INVITE", "ISSUE", "OPEN",
                  "RESERVE", "START"}
StateHints == [ACCEPT |-> {"ACCEPTED"}, APPROVE |-> {"APPROVED"}, CANCEL |-> {"CANCELLED"},
               CONFIRM |-> {"CONFIRMED"}, CREATE |-> {"CREATED"}, DELETE |-> {"DELETED"},
               INITIATE |-> {"INITIATED", "PENDING"}, PAY |-> {"PAID"},
               REFUND |-> {"REFUNDED"}, RETURN |-> {"RETURNED", "RETURN_PENDING"},
               SHIP |-> {"SHIPPED"}]

-----------------------------------------------------------------------------
(* The order of exchanges, and what kind of traffic they are               *)

OrderKey(f) == <<IF f.x.time = NoTime THEN Never ELSE f.x.time, f.x.capture, f.x.pos, f.x.id>>

Before(f, g) ==
    LET a == OrderKey(f) b == OrderKey(g)
    IN \E i \in DOMAIN a : a[i] < b[i] /\ \A j \in 1..(i - 1) : a[j] = b[j]

InOrder(S, F) ==
    FoldSet(LAMBDA i, seq : SelectSeq(seq, LAMBDA j : Before(F[j], F[i])) \o <<i>>
                            \o SelectSeq(seq, LAMBDA j : Before(F[i], F[j])),
            << >>, S)

Elapsed(f, g) == g.x.time - f.x.time
Timed(f, g) == f.x.time # NoTime /\ g.x.time # NoTime

CaptureScope(f) == IF f.x.session = NoSession THEN <<"capture", f.x.capture>>
                   ELSE <<"session", f.x.session>>

IsRead(f) ==
    /\ f.endpoint # NoEndpoint
    /\ \/ f.x.method \in Reading
       \/ f.endpoint.reads /\ f.x.status # 201 /\ ~f.endpoint.changes

\* _consumer_advances_workflow
Advances(f) ==
    /\ f.endpoint # NoEndpoint
    /\ f.endpoint.changes \/ (f.x.method \in Mutating /\ ~IsRead(f))

Successful(f) == f.x.status \in 200..299

\* observation_supports_normal_behavior
Normal(f) ==
    /\ f.x.method \notin {"HEAD", "OPTIONS"}
    /\ IF f.x.mode = "UNKNOWN" THEN ~f.x.imported
       ELSE /\ f.x.mode = "NORMAL_BEHAVIOR"
            /\ f.x.relevance \notin {"CONTEXT", "NOISE", "PROTOCOL_SUPPORT"}

Probe(f) == f.x.mode \in {"RESEARCHER_PROBE", "MIXED"}

\* _noise_observations: three or more reads of one path close together are
\* polling when nothing changes, or when the path says so.
Polling(seq, F) ==
    LET Close(f, g) == Timed(f, g) /\ Elapsed(f, g) \in 0..120
    IN /\ Len(seq) >= 3
       /\ \A i \in DOMAIN seq : IsRead(F[seq[i]])
       /\ \A i \in 1..(Len(seq) - 1) : Close(F[seq[i]], F[seq[i + 1]])
       /\ \/ Cardinality({F[seq[i]].states : i \in DOMAIN seq}) <= 1
          \/ F[seq[1]].x.polls

Noise(F) ==
    LET Group(i) == {j \in DOMAIN F : /\ F[j].x.actor = F[i].x.actor
                                      /\ F[j].x.capture = F[i].x.capture
                                      /\ F[j].x.path = F[i].x.path
                                      /\ F[j].name = F[i].name}
    IN {i \in DOMAIN F : Polling(InOrder(Group(i), F), F)}

NoiseClasses == {"STATIC_ASSET", "TELEMETRY", "ANALYTICS", "THIRD_PARTY"}

\* _active_facts
Eligible(F) ==
    {i \in DOMAIN F : /\ F[i].endpoint # NoEndpoint /\ F[i].endpoint.active
                      /\ F[i].endpoint.class \notin NoiseClasses
                      /\ F[i].x.source # "OPENAPI"}

ActiveFacts(F) ==
    LET eligible == Restrict(F, Eligible(F))
    IN Restrict(F, Eligible(F) \ Noise(eligible))

-----------------------------------------------------------------------------
(* Actions and resources                                                   *)

ActionOf(f) == [name |-> f.name, method |-> f.x.method, route |-> f.endpoint.route,
                resource |-> f.endpoint.resource]

\* _actions
Actions(F) ==
    {[action |-> a,
      observations |-> {i \in DOMAIN F : ActionOf(F[i]) = a},
      changing |-> \E i \in DOMAIN F : ActionOf(F[i]) = a /\ F[i].endpoint.changes,
      confidence |->
         FirstRule(<< <<\A i \in DOMAIN F : ActionOf(F[i]) = a
                            => F[i].endpoint.action # "unknown", "HIGH">>,
                      <<a.method # "POST", "MODERATE">> >>, "WEAK")] :
        a \in {ActionOf(F[i]) : i \in DOMAIN F}}

SharedClasses == {"REGION", "SHARED_SCOPE", "COLLECTION", "NON_SECURITY_RELEVANT"}
NotPrimary == SharedClasses \cup {"TENANT_CONTAINER", "PARENT_CONTAINER", "ACTOR_IDENTIFIER",
                                  "AUTH_IDENTIFIER"}

Identifiers(signals) == {s \in signals : s.kind = "RESOURCE_IDENTIFIER"}

\* _request_primary_resource_identifiers
SentPrimary(f) ==
    {s \in Identifiers(f.sent) : s.type = f.endpoint.resource /\ s.class \notin NotPrimary}

\* Whose a resource is: a shared one is nobody's, an unattributed or probed
\* one stays in its capture.
ResourceScope(f, s) ==
    IF f.x.actor = "UNKNOWN" THEN <<"UNKNOWN", f.x.capture>>
    ELSE IF ~Normal(f) THEN <<f.x.actor, f.x.mode, f.x.capture>>
    ELSE IF s.class \in SharedClasses THEN <<"SHARED">>
    ELSE <<f.x.actor>>

ResourceId(f, s) == [type |-> s.type, val |-> s.val.is, scope |-> ResourceScope(f, s)]

\* The resources one exchange names (observation_resources).
ResourcesOf(f) == {ResourceId(f, s) : s \in Identifiers(AllSignals(f))}

\* _resources: a resource, who saw it, and the resources it was seen with.
Resources(F) ==
    LET Seen(r) == {i \in DOMAIN F : r \in ResourcesOf(F[i])}
        Classes(r) == UNION {{s.class : s \in {t \in Identifiers(AllSignals(F[i])) :
                                               ResourceId(F[i], t) = r}} : i \in Seen(r)}
        Relation(r) == IF r.type \in ScopeTypes
                            \/ Classes(r) \cap {"REGION", "SHARED_SCOPE", "TENANT_CONTAINER",
                                                "PARENT_CONTAINER"} # {}
                         THEN "scoped_to" ELSE "linked_to"
    IN {[id |-> r,
         observations |-> Seen(r),
         actors |-> {F[i].x.actor : i \in Seen(r)},
         classes |-> Classes(r),
         normal |-> {i \in Seen(r) : Normal(F[i])},
         probes |-> {i \in Seen(r) : Probe(F[i])},
         related |-> {[to |-> q, relation |-> Relation(q),
                       evidence |-> {i \in Seen(r) \cap Seen(q) : Normal(F[i])}] :
                        q \in UNION {ResourcesOf(F[i]) : i \in {j \in Seen(r) : Normal(F[j])}}
                              \ {r}}] :
            r \in UNION {ResourcesOf(F[i]) : i \in DOMAIN F}}

-----------------------------------------------------------------------------
(* Evidence that one exchange produced what another one consumes           *)

TemporalOrder(f, g) ==
    IF Timed(f, g) THEN g.x.time >= f.x.time
    ELSE f.x.capture = g.x.capture /\ g.x.pos > f.x.pos

\* _request_contains_response_value
Echoed(f, s) ==
    \E r \in f.sent : r.val.is = s.val.is /\ r.kind = s.kind /\ r.role = s.role /\ r.type = s.type

Compatible(s, t) ==
    CASE s.kind = "RESOURCE_IDENTIFIER" /\ t.kind = "RESOURCE_IDENTIFIER" -> s.type = t.type
      [] s.kind = "WORKFLOW_TOKEN" /\ t.kind = "WORKFLOW_TOKEN" ->
            s.val.type = "STRING" /\ t.val.type = "STRING"
      [] OTHER -> /\ s.val.type = t.val.type /\ s.kind = t.kind
                  /\ s.role = t.role /\ s.type = t.type

\* _state_transition_evidence: consecutive mutations name different values
\* of one state field of the resource.
ChangesState(f, g, s, t, direct) ==
    /\ direct /\ Advances(f) /\ Advances(g)
    /\ s.kind = "RESOURCE_IDENTIFIER" /\ t.kind = "RESOURCE_IDENTIFIER" /\ s.type = t.type
    /\ \E p \in f.states, q \in g.states :
          /\ p.type = s.type /\ q.type = s.type
          /\ p.field[2] = q.field[2] /\ p.field[3] = q.field[3] /\ p.value # q.value

ActionReaches(name, value) ==
    name[1] \in DOMAIN StateHints /\ value \in StateHints[name[1]]

\* _resource_creation_evidence
Creates(f, s) ==
    /\ s.kind = "RESOURCE_IDENTIFIER" /\ Successful(f)
    /\ \/ f.x.status = 201 /\ f.x.method \notin Reading
       \/ /\ ~IsRead(f) /\ f.endpoint.changes
          /\ \/ f.name[1] \in ProducerVerbs
             \/ /\ s.type # f.endpoint.resource
                /\ \E p \in f.states : ActionReaches(f.name, p.value)

Persistent(f, s, t) ==
    /\ s.kind = "RESOURCE_IDENTIFIER"
    /\ f.x.status = 201 \/ t.loc = "PATH_PARAMETER" \/ s.type = f.endpoint.resource

\* _capability_semantics
Capability(f, g, s, t) ==
    /\ ~Echoed(f, s) /\ s.distinctive /\ t.distinctive /\ Successful(f) /\ Advances(g)
    /\ ~Persistent(f, s, t)
    /\ \/ s.kind = "WORKFLOW_TOKEN" /\ t.kind = "WORKFLOW_TOKEN"
       \/ /\ s.kind = "RESOURCE_IDENTIFIER" /\ t.kind = "RESOURCE_IDENTIFIER"
          /\ t.loc # "PATH_PARAMETER" /\ s.type # f.endpoint.resource

SameSession(f, g) == f.x.session # NoSession /\ f.x.session = g.x.session

\* _causal_evidence
Evidence(f, g, s, t, known, direct) ==
    LET actor == f.x.actor # "UNKNOWN" /\ f.x.actor = g.x.actor
        session == SameSession(f, g)
        capture == f.x.capture = g.x.capture
        normal == Normal(f) /\ Normal(g)
    IN [outputOnly |-> ~Echoed(f, s),
        compatible |-> Compatible(s, t),
        ordered |-> TemporalOrder(f, g),
        sameActor |-> actor,
        distinctive |-> s.distinctive /\ t.distinctive,
        sameCapture |-> capture,
        sessionCompatible |-> session /\ normal,
        captureCompatible |-> (capture \/ session) /\ normal,
        hostCompatible |-> f.x.host = g.x.host
                           \/ (session /\ f.endpoint.active /\ g.endpoint.active),
        known |-> known,
        read |-> IsRead(f),
        created |-> ~Echoed(f, s) /\ Creates(f, s),
        advances |-> Advances(g),
        persistent |-> Persistent(f, s, t),
        member |-> s.many,
        direct |-> direct,
        capability |-> Capability(f, g, s, t),
        changed |-> ChangesState(f, g, s, t, direct)]

\* CausalEvidence.hard_causal_admissibility
Admissible(e, basis) ==
    /\ e.ordered /\ e.sameActor /\ e.distinctive
    /\ e.sessionCompatible /\ e.captureCompatible /\ e.hostCompatible
    /\ CASE basis = "RESOURCE_CREATED" ->
              e.outputOnly /\ e.created /\ e.compatible /\ ~e.known /\ ~e.member
         [] basis = "CAPABILITY_ISSUED" ->
              e.outputOnly /\ e.capability /\ e.advances /\ ~e.known /\ ~e.persistent
         [] basis = "STATE_TRANSITION_PRODUCED" -> e.changed /\ e.direct
         [] OTHER -> e.outputOnly /\ ~e.known /\ (e.created \/ e.capability \/ e.changed)

\* CausalEvidence.rejection_reasons
RejectionReasons(e, basis) ==
    LET moved == basis = "STATE_TRANSITION_PRODUCED"
        reasons == [
          request_value_echoed |-> ~e.outputOnly,
          response_collection_member_observed |-> e.member,
          source_is_read_only |-> e.read,
          value_previously_observed |-> e.known /\ ~moved,
          output_only_production_not_proven |-> ~e.outputOnly /\ ~moved,
          value_not_distinctive |-> ~e.distinctive,
          controlled_actor_mismatch |-> ~e.sameActor,
          temporal_order_not_proven |-> ~e.ordered,
          session_incompatible |-> ~e.sessionCompatible,
          capture_incompatible |-> ~e.captureCompatible,
          host_incompatible |-> ~e.hostCompatible,
          resource_creation_semantics_not_proven |->
             basis = "RESOURCE_CREATED" /\ ~e.created,
          capability_semantics_not_proven |-> basis = "CAPABILITY_ISSUED" /\ ~e.capability,
          consumer_does_not_advance_workflow |-> basis = "CAPABILITY_ISSUED" /\ ~e.advances,
          intervening_resource_mutation_observed |-> moved /\ ~e.direct]
    IN {r \in DOMAIN reasons : reasons[r]}

\* _producer_semantics
Basis(e) ==
    FirstRule(<< <<e.member, "EXISTING_VALUE_OBSERVED">>,
                 <<~e.outputOnly /\ e.changed, "STATE_TRANSITION_PRODUCED">>,
                 <<~e.outputOnly, "REQUEST_VALUE_ECHOED">>,
                 <<e.created, "RESOURCE_CREATED">>,
                 <<e.changed, "STATE_TRANSITION_PRODUCED">>,
                 <<e.capability, "CAPABILITY_ISSUED">>,
                 <<e.read \/ e.known, "EXISTING_VALUE_OBSERVED">> >>,
              "AMBIGUOUS_ORIGIN")

MergeBases == {"RESOURCE_CREATED", "CAPABILITY_ISSUED", "STATE_TRANSITION_PRODUCED"}

\* _relationship_type
Relationship(f, g, s, e) ==
    LET basis == Basis(e)
        replays == f.name = g.name /\ f.endpoint.changes /\ basis \notin MergeBases
        As(type, why, reasons) == [type |-> type, basis |-> why, reasons |-> reasons]
    IN FirstRule(<<
        <<~e.sameActor, As("CROSS_ACTOR_COMPARISON", basis, {"controlled_actor_mismatch"})>>,
        <<Probe(f) \/ Probe(g), As("REPLAY_RELATED", basis, {"researcher_probe"})>>,
        <<replays \/ s.kind = "IDEMPOTENCY_KEY",
          As("REPLAY_RELATED", "EXISTING_VALUE_OBSERVED", {"replay"})>>,
        <<s.kind = "CORRELATION_ID", As("CONTEXT_SOFT", basis, {"correlation_identifier"})>>,
        <<e.member, As("CONTEXT_SOFT", basis, {"response_collection_member_observed"})>>,
        <<basis \in MergeBases /\ Admissible(e, basis), As("CAUSAL_HARD", basis, {})>> >>,
        As("CONTEXT_SOFT", basis, RejectionReasons(e, basis)))

\* _relationship_link
Link(f, g, s, t, e, r) ==
    [type |-> r.type, basis |-> r.basis, reasons |-> r.reasons, evidence |-> e,
     from |-> f.x.id, to |-> g.x.id, fromActor |-> f.x.actor, toActor |-> g.x.actor,
     fromMode |-> f.x.mode, toMode |-> g.x.mode,
     val |-> s.val.is, kind |-> s.kind, fromRole |-> s.role, toRole |-> t.role,
     fromField |-> s.field, toField |-> t.field, toLoc |-> t.loc, fromType |-> s.type,
     confidence |-> IF r.type # "CAUSAL_HARD" THEN "WEAK"
                    ELSE IF s.kind = "WORKFLOW_TOKEN" THEN "HIGH" ELSE "MODERATE"]

-----------------------------------------------------------------------------
(* _propagation                                                            *)

\* Faulty: whoever has seen it.
KnownToAnyone(seq, n, s, F) ==
    \E i \in 1..(n - 1) :
       \E u \in AllSignals(F[seq[i]]) : u.val.is = s.val.is /\ Compatible(u, s)

\* previously_observed: the same actor has seen the value before.
KnownBefore(seq, n, s, F) ==
    \E i \in 1..(n - 1) :
       /\ F[seq[i]].x.actor = F[seq[n]].x.actor
       /\ \E u \in AllSignals(F[seq[i]]) : u.val.is = s.val.is /\ Compatible(u, s)

\* intervening_mutation: another one of the actor's session on the resource
Intervenes(seq, n, m, s, F) ==
    \E i \in (n + 1)..(m - 1) :
       LET f == F[seq[i]] IN
       /\ f.x.actor = F[seq[n]].x.actor /\ f.x.session = F[seq[n]].x.session
       /\ Advances(f)
       /\ \E u \in Identifiers(AllSignals(f)) : u.val.is = s.val.is /\ u.type = s.type

\* One value answered by the nth exchange and sent by the mth.
LinkAt(seq, n, m, s, t, F) ==
    LET f == F[seq[n]]
        g == F[seq[m]]
        e == Evidence(f, g, s, t, KnownBefore(seq, n, s, F), ~Intervenes(seq, n, m, s, F))
    IN Link(f, g, s, t, e, Relationship(f, g, s, e))

ProducedLinks(seq, F) ==
    UNION {UNION {{LinkAt(seq, p[1], p[2], s, t, F) :
            t \in {u \in F[seq[p[2]]].sent :
                     u.kind # "BUSINESS_VALUE" /\ u.val.is = s.val.is /\ Compatible(s, u)}} :
        s \in {u \in F[seq[p[1]]].answered : u.kind # "BUSINESS_VALUE"}} :
      p \in {q \in (DOMAIN seq) \X (DOMAIN seq) :
         /\ q[1] < q[2]
         /\ Timed(F[seq[q[1]]], F[seq[q[2]]]) =>
               Elapsed(F[seq[q[1]]], F[seq[q[2]]]) \in 0..Day}}

Related(f, g, s, t, type, reason) ==
    Link(f, g, s, t, Evidence(f, g, s, t, TRUE, FALSE),
         [type |-> type, basis |-> "EXISTING_VALUE_OBSERVED", reasons |-> {reason}])

\* _replay_relationships: the same change of the same resource, again
ReplayLinks(F) ==
    LET changing == {i \in DOMAIN F : F[i].endpoint.changes /\ SentPrimary(F[i]) # {}}
        Names(f) == {<<s.type, s.val.is>> : s \in SentPrimary(f)}
        Group(i) == {j \in changing : /\ F[j].x.actor = F[i].x.actor
                                      /\ CaptureScope(F[j]) = CaptureScope(F[i])
                                      /\ F[j].name = F[i].name
                                      /\ Names(F[j]) = Names(F[i])}
        Pairs(seq) == {<<seq[n], seq[n + 1]>> : n \in 1..(Len(seq) - 1)}
    IN {Related(F[p[1]], F[p[2]], CHOOSE s \in SentPrimary(F[p[1]]) : TRUE,
                CHOOSE s \in SentPrimary(F[p[2]]) : TRUE, "REPLAY_RELATED", "replay") :
          p \in UNION {Pairs(InOrder(Group(i), F)) : i \in changing}}

\* _cross_actor_relationships: the first exchange of each known actor that
\* does the same with a resource of the same type
CrossActorLinks(F) ==
    LET offers == {o \in UNION {{i} \X Identifiers(F[i].sent) : i \in DOMAIN F} :
                      F[o[1]].x.actor # "UNKNOWN" /\ o[2].place # "SCOPE"}
        Does(o) == <<F[o[1]].x.method, F[o[1]].endpoint.route, F[o[1]].name,
                     o[2].role, o[2].type>>
        First(S) == CHOOSE o \in S : \A p \in S : p[1] = o[1] \/ Before(F[o[1]], F[p[1]])
        ByActor(o) == First({p \in offers : Does(p) = Does(o)
                                            /\ F[p[1]].x.actor = F[o[1]].x.actor})
        firsts == {ByActor(o) : o \in offers}
    IN {Related(F[q[1][1]], F[q[2][1]], q[1][2], q[2][2], "CROSS_ACTOR_COMPARISON",
                "controlled_actor_mismatch") :
          q \in {r \in firsts \X firsts :
             /\ Does(r[1]) = Does(r[2]) /\ F[r[1][1]].x.actor # F[r[2][1]].x.actor
             /\ Before(F[r[1][1]], F[r[2][1]])}}

\* Of links that differ only in the field, the one with the best place stays.
LocationRank == [PATH_PARAMETER |-> 0, BODY |-> 1, HEADER |-> 2, QUERY_PARAMETER |-> 3]

Deduplicated(links) ==
    LET Key(l) == <<l.type, l.basis, l.val, l.from, l.to, l.fromRole, l.toRole>>
        Best(S) == CHOOSE l \in S : \A k \in S :
                      LocationRank[l.toLoc] <= LocationRank[k.toLoc]
    IN {Best({k \in links : Key(k) = Key(l)}) : l \in links}

Propagation(F) ==
    Deduplicated(ProducedLinks(InOrder(DOMAIN F, F), F) \cup ReplayLinks(F)
                 \cup CrossActorLinks(F))

\* is_merge_capable_relationship
Merges(l) ==
    l.type = "CAUSAL_HARD" /\ l.basis \in MergeBases /\ Admissible(l.evidence, l.basis)
=============================================================================
