-------------------------------- MODULE Journeys --------------------------------
(***************************************************************************)
(* The second half of behavior/reconstruction.py: the journeys the hard    *)
(* causal links join, the families of journeys of one structure, what a    *)
(* family shows to be prerequisites, and the states, transitions and graph *)
(* of each family.                                                         *)
(***************************************************************************)
EXTENDS CausalLinks

Unresolved == "UNRESOLVED"
Terminal == {"CANCELLED", "CLOSED", "COMPLETED", "CONSUMED", "DELETED", "EXPIRED", "FAILED",
             "REFUNDED", "REJECTED", "SHIPPED"}
InferredState == [ACCEPT |-> "ACCEPTED", APPROVE |-> "APPROVED", CANCEL |-> "CANCELLED",
                  CONFIRM |-> "CONFIRMED", CREATE |-> "CREATED", DELETE |-> "DELETED",
                  PAY |-> "PAID", REFUND |-> "REFUNDED", RETURN |-> "RETURN_PENDING",
                  SHIP |-> "SHIPPED"]

-----------------------------------------------------------------------------
(* Components                                                              *)

\* The pairs of exchanges the links may join.
Joins(links, ids) ==
    {{l.from, l.to} : l \in {k \in links :
        /\ Merges(k) /\ {k.from, k.to} \subseteq ids
        /\ k.fromActor # "UNKNOWN" /\ k.fromActor = k.toActor}}

\* Faulty: one item of the pair moves, and leaves what it was joined to.
UnionOfItems(parts, join) ==
    LET later == Max(join)
        first == CHOOSE p \in parts : Min(join) \in p
    IN ({p \ {later} : p \in parts \ {first}} \ {{}}) \cup {first \cup {later}}

\* _UnionFind.union: what either item was joined to comes along.
Union(parts, join) ==
    LET touched == {p \in parts : p \cap join # {}}
    IN (parts \ touched) \cup {UNION touched}

\* _components: sequences of exchange ids, each in order
Components(F, links) ==
    LET parts == FoldSet(LAMBDA join, found : Union(found, join),
                         {{i} : i \in DOMAIN F}, Joins(links, DOMAIN F))
    IN {InOrder(p, F) : p \in parts}

-----------------------------------------------------------------------------
(* The steps of a journey and the states they pass through                 *)

NoStates == [of |-> <<>>, type |-> <<>>]

Put(f, S, v) == [x \in DOMAIN f \cup S |-> IF x \in S THEN v ELSE f[x]]

\* The state before: of the resource, else the last of its type.
StateBefore(now, ids, type) ==
    LET known == ids \cap DOMAIN now.of
    IN IF known # {} THEN now.of[CHOOSE r \in known : TRUE]
       ELSE IF type \in DOMAIN now.type THEN now.type[type]
       ELSE Unresolved

\* What an exchange says of states: fields, else what its action implies.
StatesSaid(f) ==
    IF f.states # {}
      THEN [i \in 1..Cardinality(f.states) |-> SetToSeq(f.states)[i] @@ [by |-> "EXPLICIT_FIELD"]]
      ELSE IF f.name[1] \in DOMAIN InferredState
             THEN <<[field |-> f.name, value |-> InferredState[f.name[1]],
                     type |-> f.endpoint.resource, by |-> "ACTION_SEMANTICS"]>>
             ELSE <<>>

Observe(acc, said, resources) ==
    LET ids == {r \in resources : r.type = said.type}
        seen == [field |-> said.field, type |-> said.type, resources |-> ids,
                 before |-> StateBefore(acc.now, ids, said.type), after |-> said.value,
                 by |-> said.by]
    IN [seen |-> Append(acc.seen, seen),
        now |-> [of |-> Put(acc.now.of, ids, said.value),
                 type |-> Put(acc.now.type, {said.type}, said.value)]]

ObserveAll(now, f) ==
    FoldLeft(LAMBDA acc, said : Observe(acc, said, ResourcesOf(f)),
             [seen |-> <<>>, now |-> now], StatesSaid(f))

NoState == [before |-> Unresolved, after |-> Unresolved, by |-> Unresolved]

\* The state of the endpoint's own resource stands for the step.
Representative(seen, type) ==
    LET own == {i \in DOMAIN seen : seen[i].type = type}
    IN IF own # {} THEN seen[Min(own)]
       ELSE IF seen # <<>> THEN seen[1] ELSE NoState

BusinessValue(s) == [field |-> s.field, value |-> s.val.is, role |-> s.role, type |-> s.type,
                     dir |-> s.dir, number |-> s.val.type # "STRING"]

Step(f, position, seen) ==
    LET rep == Representative(seen, f.endpoint.resource)
        steers == {s \in Identifiers(f.sent) : s.place # "SCOPE"}
        tokens == {s \in f.sent : s.kind = "WORKFLOW_TOKEN" /\ s.distinctive}
    IN [position |-> position, id |-> f.x.id, name |-> f.name, action |-> ActionOf(f),
        actor |-> f.x.actor, mode |-> f.x.mode, endpoint |-> f.endpoint.id,
        resources |-> ResourcesOf(f), changing |-> f.endpoint.changes, time |-> f.x.time,
        steers |-> {s.field : s \in steers},
        bound |-> {s.field : s \in steers \cup tokens},
        states |-> seen, before |-> rep.before, after |-> rep.after, by |-> rep.by,
        values |-> {BusinessValue(s) :
                       s \in {t \in AllSignals(f) : t.kind = "BUSINESS_VALUE"}}]

\* The steps of one component, with the states carried along.
StepsOf(component, F) ==
    FoldLeft(LAMBDA acc, i :
               LET heard == ObserveAll(acc.now, F[i])
               IN [now |-> heard.now,
                   steps |-> Append(acc.steps,
                                    Step(F[i], Len(acc.steps) + 1, heard.seen))],
             [now |-> NoStates, steps |-> <<>>], component).steps

-----------------------------------------------------------------------------
(* Journeys                                                                *)

Inside(links, ids) == {l \in links : Merges(l) /\ l.from \in ids /\ l.to \in ids}

\* Faulty: journeys of the same steps are alike, however their values flow.
SignatureOfSteps(steps, links) ==
    [steps |-> [n \in DOMAIN steps |-> <<steps[n].action, steps[n].changing,
                                         steps[n].before, steps[n].after>>],
     flow |-> {}]

\* _structural_signature
Signature(steps, links) ==
    LET ids == {steps[n].id : n \in DOMAIN steps}
        At(id) == CHOOSE n \in DOMAIN steps : steps[n].id = id
    IN [steps |-> [n \in DOMAIN steps |-> <<steps[n].action, steps[n].changing,
                                            steps[n].before, steps[n].after>>],
        flow |-> {<<At(l.from), At(l.to), l.fromRole>> : l \in Inside(links, ids)}]

Ambiguities(component, F, hard) ==
    LET facts == {F[component[n]] : n \in DOMAIN component}
        doubts == [alone |-> Len(component) = 1,
                   unlinked |-> Len(component) > 1 /\ hard = {},
                   noResource |-> \A f \in facts : ResourcesOf(f) = {},
                   unattributed |-> \E f \in facts : f.x.actor = "UNKNOWN",
                   unknownMode |-> \E f \in facts : f.x.mode = "UNKNOWN"]
    IN {d \in DOMAIN doubts : doubts[d]}

JourneyConfidence(size, hard, doubts, explicit) ==
    FirstRule(<< <<size >= 3 /\ Cardinality(hard) >= size - 1 /\ doubts = {} /\ explicit,
                   "HIGH">>,
                 <<size >= 2 /\ hard # {}, "MODERATE">> >>, "WEAK")

\* The last state a step left resolved.
Outcome(steps) ==
    LET resolved == {n \in DOMAIN steps : steps[n].after # Unresolved}
    IN IF resolved = {} THEN Unresolved ELSE steps[Max(resolved)].after

\* _workflow_instances, for one component.  The resources kept for the
\* journey are those of its last step: the loop reuses the name.
Journey(component, F, links) ==
    LET steps == StepsOf(component, F)
        ids == Range(component)
        hard == Inside(links, ids)
        doubts == Ambiguities(component, F, hard)
    IN [id |-> component, family |-> Signature(steps, links), steps |-> steps,
        actors |-> {F[i].x.actor : i \in ids},
        sessions |-> {CaptureScope(F[i]) : i \in ids},
        captures |-> {F[i].x.capture : i \in ids},
        modes |-> {F[i].x.mode : i \in ids},
        resources |-> steps[Len(steps)].resources,
        types |-> {F[i].endpoint.resource : i \in ids}
                  \cup UNION {{s.type : s \in Identifiers(AllSignals(F[i]))} : i \in ids},
        outcome |-> Outcome(steps), doubts |-> doubts,
        confidence |-> JourneyConfidence(Len(component), hard, doubts,
                                         \E i \in ids : F[i].states # {})]

Journeys(F, links) == {Journey(c, F, links) : c \in Components(F, links)}

-----------------------------------------------------------------------------
(* Families                                                                *)

\* What is reachable from S along the edges.
Reach(edges, S) ==
    LET Next(T) == T \cup {e[2] : e \in {d \in edges : d[1] \in T}}
        upTo[n \in 0..Cardinality(edges)] == IF n = 0 THEN S ELSE Next(upTo[n - 1])
    IN upTo[Cardinality(edges)]

\* _has_alternative_causal_path
Bypassed(l, links) ==
    LET edges == {<<k.from, k.to>> : k \in {j \in links : Merges(j) /\ j # l}}
        first == {e[2] : e \in {d \in edges : d[1] = l.from}} \ {l.to}
    IN l.to \in Reach(edges, first)

\* The links of a family's journeys that show a prerequisite of a change.
Proofs(items, links) ==
    {p \in items \X {k \in links : Merges(k)} :
        LET j == p[1]
            l == p[2]
            At(id) == CHOOSE n \in DOMAIN j.id : j.id[n] = id
        IN /\ {l.from, l.to} \subseteq Range(j.id)
           /\ At(l.from) < At(l.to)
           /\ j.steps[At(l.to)].action.method \notin Reading
           /\ ~Bypassed(l, links)}

PairOf(j, l) ==
    LET At(id) == CHOOSE n \in DOMAIN j.id : j.id[n] = id
    IN [first |-> j.steps[At(l.from)].name, then |-> j.steps[At(l.to)].name,
        from |-> At(l.from), to |-> At(l.to)]

Prerequisites(items, links) ==
    LET proofs == Proofs(items, links)
        Support(p) == {e[1].id : e \in {d \in proofs : PairOf(d[1], d[2]) = p}}
        Comparable(p) == {j.id : j \in {i \in items :
                            /\ Len(i.steps) >= p.to
                            /\ i.steps[p.from].name = p.first
                            /\ i.steps[p.to].name = p.then}}
    IN {p @@ [support |-> Support(p), comparable |-> Comparable(p),
              counterexamples |-> Comparable(p) \ Support(p),
              bases |-> {e[2].basis : e \in {d \in proofs : PairOf(d[1], d[2]) = p}},
              observations |-> UNION {{e[2].from, e[2].to} :
                                 e \in {d \in proofs : PairOf(d[1], d[2]) = p}}] :
          p \in {PairOf(e[1], e[2]) : e \in proofs}}

PathOf(j) == [n \in DOMAIN j.steps |-> j.steps[n].name]

Adjacent(paths) == UNION {{<<p[n], p[n + 1]>> : n \in 1..(Len(p) - 1)} : p \in paths}

\* _workflow_families, for the journeys of one structure
Family(items, links) ==
    LET strong == {j \in items : j.confidence # "WEAK"}
        paths == {PathOf(j) : j \in items}
        needs == Prerequisites(items, links)
        steps == Adjacent(paths)
        one == CHOOSE j \in items : TRUE
        named == UNION {Range(p) : p \in paths}
        sure == {p \in needs : p.counterexamples = {}}
    IN [id |-> one.family, journeys |-> {j.id : j \in items}, needs |-> needs,
        path |-> PathOf(IF strong = {} THEN one ELSE CHOOSE j \in strong : TRUE),
        optional |-> named \ UNION {{p.first, p.then} : p \in sure},
        branches |-> {a \in named : Cardinality({s \in steps : s[1] = a}) > 1},
        outcomes |-> {j.outcome : j \in items},
        actors |-> UNION {j.actors : j \in items},
        modes |-> UNION {j.modes : j \in items},
        types |-> UNION {j.types : j \in items},
        clues |-> {n \in 1..(Len(one.steps) - 1) :
                      ~\E p \in needs : p.from = n /\ p.to = n + 1},
        confidence |-> FirstRule(<< <<Cardinality(strong) >= 3, "HIGH">>,
                                    <<Cardinality(strong) = 2, "MODERATE">> >>, "WEAK")]

Families(journeys, links) ==
    {Family({j \in journeys : j.family = f}, links) : f \in {j.family : j \in journeys}}

-----------------------------------------------------------------------------
(* States, transitions and the graph of a family                           *)

\* Every state observation of every journey.
Seen(journeys) ==
    UNION {UNION {{[journey |-> j, step |-> j.steps[n], state |-> j.steps[n].states[m]] :
                      m \in DOMAIN j.steps[n].states} : n \in DOMAIN j.steps} : j \in journeys}

States(journeys) ==
    LET Named(s) == [type |-> s.type, name |-> s.after, by |-> s.by]
        SeenIn(r) == {o.step.id : o \in {p \in Seen(journeys) : Named(p.state) = r}}
    IN {r @@ [evidence |-> SeenIn(r),
              confidence |-> IF r.by # "EXPLICIT_FIELD" THEN "WEAK"
                             ELSE IF Cardinality(SeenIn(r)) >= 2 THEN "HIGH" ELSE "MODERATE"] :
          r \in {Named(o.state) : o \in Seen(journeys)}}

Transitions(journeys) ==
    LET Move(o) == [family |-> o.journey.family, from |-> o.state.before, by |-> o.step.name,
                    to |-> o.state.after, type |-> o.state.type]
        Examples(t) == {o \in Seen(journeys) : Move(o) = t}
        Explicit(t) == {o \in Examples(t) : o.state.by = "EXPLICIT_FIELD"}
    IN {t @@ [frequency |-> Cardinality(Examples(t)),
              examples |-> {o.journey.id : o \in Examples(t)},
              actors |-> {o.step.actor : o \in Examples(t)},
              evidence |-> {o.step.id : o \in Examples(t)},
              confidence |->
                 FirstRule(<< <<Cardinality(Explicit(t)) >= 2, "HIGH">>,
                              <<Explicit(t) # {} \/ Cardinality(Examples(t)) >= 2, "MODERATE">> >>,
                           "WEAK")] :
          t \in {Move(o) : o \in Seen(journeys)}}

\* _graphs, for one family
NodeKind(state, outgoing) ==
    FirstRule(<< <<state \in Terminal \/ state \notin outgoing, "TERMINAL">>,
                 <<state = Unresolved, "CHECKPOINT">> >>, "STATE")

Graph(family, transitions) ==
    LET own == {t \in transitions : t.family = family.id}
        outgoing == {t.from : t \in own}
    IN [family |-> family.id,
        nodes |-> {[label |-> s, kind |-> NodeKind(s, outgoing)] :
                     s \in outgoing \cup {t.to : t \in own}},
        edges |-> {[from |-> t.from, to |-> t.to, action |-> t.by, seen |-> t.evidence,
                    share |-> Min({t.frequency, Cardinality(family.journeys)}),
                    observed |-> t.confidence # "WEAK" /\ t.to # Unresolved] : t \in own}]

\* build_behavior_model: everything it writes, from the active facts
Reconstruction(F) ==
    LET normal == Restrict(F, {i \in DOMAIN F : Normal(F[i])})
        links == Propagation(F)
        journeys == Journeys(normal, links)
        families == Families(journeys, links)
        transitions == Transitions(journeys)
    IN [actions |-> Actions(F), resources |-> Resources(F), links |-> links,
        journeys |-> journeys, families |-> families, states |-> States(journeys),
        transitions |-> transitions, graphs |-> {Graph(f, transitions) : f \in families}]
=============================================================================
