---------------------------- MODULE CaptureAnalysis ----------------------------
(***************************************************************************)
(* The deterministic reading of one capture (captures/analysis.py): what   *)
(* each exchange does, which operation the journey is about, how relevant  *)
(* every exchange is to it, and how clean the capture is.                  *)
(*                                                                         *)
(* A signal is a record                                                    *)
(*   id, position, method, status,                                         *)
(*   path     the normalised operation path, with what path_semantics.py   *)
(*            reads off it: resource, parent, credential, collection,      *)
(*            verb, auth                                                   *)
(*   outside  the host is out of the first-party scope, or the path is a   *)
(*            telemetry or token-refresh path                              *)
(*   endpoint what the inventory knows of it, or NoEndpoint                *)
(*   domain   the reviewed domain-intent rule for it, or NoRule            *)
(***************************************************************************)
EXTENDS Integers, FiniteSetsExt, TLC

NoEndpoint == [none |-> TRUE]
NoRule == [none |-> TRUE]
Unknown == "UNKNOWN"

Mutating == {"POST", "PUT", "PATCH", "DELETE"}
Protocol == {"HEAD", "OPTIONS"}

Absolute(n) == IF n < 0 THEN -n ELSE n

-----------------------------------------------------------------------------
(* One exchange                                                            *)

\* _canonical_action, on the action names the inventory uses
Canonical(name) ==
    CASE name \in {"get", "list", "read", "search"} -> "READ"
      [] name \in {"change", "edit", "replace", "reset", "rotate", "update"} -> "UPDATE"
      [] name \in {"add", "create", "invite", "signup", "create_child"} -> "CREATE"
      [] name \in {"delete", "remove", "revoke"} -> "DELETE"
      [] name = "verify_credential" -> "AUTHENTICATE"
      [] OTHER -> name

\* _raw_action of a POST; a verb is the last action segment of the path
PostAction(path) ==
    CASE path.credential -> "UPDATE"
      [] ~path.credential /\ path.verb # "none" -> path.verb
      [] ~path.credential /\ path.verb = "none" /\ path.auth -> "AUTHENTICATE"
      [] OTHER -> IF path.collection THEN "CREATE" ELSE "EXECUTE"

\* _raw_action
RawAction(s) ==
    CASE s.method = "DELETE" -> "DELETE"
      [] s.method \in {"PATCH", "PUT"} -> "UPDATE"
      [] s.method = "POST" -> PostAction(s.path)
      [] OTHER -> "READ"

RawChange(s) == RawAction(s) \in {"UPDATE", "CREATE", "DELETE"}

\* _operation: the domain rule before the inventory before the raw exchange
Operation(s) ==
    LET ruled == s.domain # NoRule
        known == s.endpoint # NoEndpoint
        named == known /\ s.endpoint.resource \notin {"unknown", "me"}
        acts  == known /\ s.endpoint.action # "unknown"
        orders == ruled /\ s.domain.operation # Unknown
    IN [signal |-> s,
        resource |-> IF ruled THEN s.domain.resource
                     ELSE IF named /\ ~s.path.credential THEN s.endpoint.resource
                     ELSE s.path.resource,
        parent |-> IF ruled /\ s.domain.parent # "unknown" THEN s.domain.parent
                   ELSE s.path.parent,
        action |-> IF orders THEN Canonical(s.domain.operation)
                   ELSE IF acts THEN Canonical(s.endpoint.action)
                   ELSE RawAction(s),
        changing |-> IF orders THEN s.domain.operation \notin {"read", "verify_credential"}
                     ELSE IF acts THEN s.endpoint.changes \/ s.endpoint.mutation
                     ELSE RawChange(s) \/ (known /\ s.endpoint.changes),
        refined |-> \/ named \/ ruled \/ acts
                    \/ known /\ s.endpoint.changes]

\* _background_reason
Background(s) ==
    s.outside \/ (s.endpoint # NoEndpoint /\ s.endpoint.suppressed)

Successful(s) == s.status \in 200..299

\* _score
Points(holds, n) == IF holds THEN n ELSE 0
Score(o) ==
    LET s == o.signal IN
    IF s.method = "GET"
      THEN 3 + Points(Successful(s), 1) + Points(o.refined /\ o.action = "READ", 1)
      ELSE 1 + Points(s.method \in Mutating, 4) + Points(o.changing, 6)
             + Points(Successful(s), IF o.changing THEN 3 ELSE 1)
             + Points(s.status \in {201, 202}, 1)
             + Points(o.refined /\ \/ s.domain # NoRule /\ s.domain.operation # Unknown
                                   \/ s.endpoint # NoEndpoint /\ s.endpoint.mutation, 3)
             + Points(s.path.credential, 3)
             + Points(o.action = "CREATE" /\ ~o.refined, 1)
             + Points(o.action = "AUTHENTICATE", 2)
             + Points(o.resource # "unknown", 1)

-----------------------------------------------------------------------------
(* The anchors of a journey: exchanges of one operation are one candidate  *)

Scored(o) == o @@ [score |-> Score(o)]

Eligible(signals) ==
    {Scored(Operation(s)) :
        s \in {t \in signals : t.method \notin Protocol /\ ~Background(t)}}

GroupOf(o) == <<o.signal.method, o.signal.path.name, o.action, o.resource>>

\* Repeating a passive read counts for one or two, however often.
Repeats(method, n) ==
    IF method = "GET" /\ n > 1 THEN IF n < 4 THEN 1 ELSE 2 ELSE 0

\* The best-scored of a group stands for it.
Better(o, p) ==
    \/ o.score > p.score
    \/ o.score = p.score /\ o.changing /\ ~p.changing
    \/ /\ o.score = p.score /\ o.changing = p.changing
       /\ o.signal.position < p.signal.position

Best(group) == CHOOSE o \in group : \A p \in group \ {o} : Better(o, p)

AnchorOf(group, best) ==
    [ids |-> {o.signal.id : o \in group},
     positions |-> {o.signal.position : o \in group},
     action |-> best.action, resource |-> best.resource,
     resources |-> {best.resource, best.parent} \ {"unknown"},
     method |-> best.signal.method, changing |-> best.changing,
     score |-> best.score + Repeats(best.signal.method, Cardinality(group))]

GroupAnchor(group) == AnchorOf(group, Best(group))

Related(a, b) == a.resources \cap b.resources # {}

Near(positions, others) ==
    \E p \in positions, q \in others : Absolute(p - q) <= 3

\* Related reads near a mutation support it, by at most two points.
Supported(a, anchors) ==
    IF a.method \in Mutating /\ a.changing
      THEN [a EXCEPT !.score = @ + Min({2, Cardinality(
              {b \in anchors : /\ b.method = "GET" /\ Related(a, b)
                               /\ Near(a.positions, b.positions)})})]
      ELSE a

SupportedAll(anchors) == {Supported(a, anchors) : a \in anchors}

\* _build_anchors
Anchors(ops) ==
    SupportedAll({GroupAnchor({o \in ops : GroupOf(o) = g}) : g \in {GroupOf(o) : o \in ops}})

\* The order anchors are sorted in; positions of two groups differ.
Before(a, b) ==
    \/ a.score > b.score
    \/ a.score = b.score /\ a.changing /\ ~b.changing
    \/ /\ a.score = b.score /\ a.changing = b.changing
       /\ Min(a.positions) < Min(b.positions)

Primary(anchors) == CHOOSE a \in anchors : \A b \in anchors \ {a} : Before(a, b)

-----------------------------------------------------------------------------
(* infer_intent and inferred_intent                                        *)

NoIntent == [action |-> Unknown, resource |-> "unknown", confidence |-> "LOW",
             source |-> "RAW"]

RunnerUp(anchors) == Max({0} \cup {a.score : a \in anchors \ {Primary(anchors)}})

Confidence(score, next) ==
    CASE score >= 16 /\ score >= next + 4 -> "HIGH"
      [] score >= 9 /\ score > next /\ ~(score >= 16 /\ score >= next + 4) -> "MEDIUM"
      [] OTHER -> "LOW"

\* infer_intent, of the eligible operations and their anchors
Intent(ops, anchors) ==
    IF anchors = {} THEN NoIntent
    ELSE [action |-> Primary(anchors).action, resource |-> Primary(anchors).resource,
          confidence |-> Confidence(Primary(anchors).score, RunnerUp(anchors)),
          source |-> IF \E o \in ops : o.refined THEN "REFINED" ELSE "RAW"]

\* align_intents, whose vocabulary of equivalent actions is Canonical's;
\* of the resources, only their equality is looked at.
Alignment(declared, observed) ==
    LET settled(i) == i.action # Unknown /\ i.resource # "unknown"
        action == declared.action = observed.action
        resource == declared.resource = observed.resource
    IN CASE ~settled(declared) \/ ~settled(observed) -> "UNKNOWN"
         [] settled(declared) /\ settled(observed) /\ action /\ resource -> "CONSISTENT"
         [] settled(declared) /\ settled(observed) /\ action # resource -> "PARTIAL"
         [] OTHER -> "CONFLICTING"

-----------------------------------------------------------------------------
(* classify_relevance                                                      *)

\* The anchors kept beside the primary one for the comparison.
Significant(anchors) ==
    {a \in anchors : a.method \in Mutating \/ a.score >= Primary(anchors).score - 3}

\* Faulty: the exclusions come after the anchor.
RelevanceAnchorFirst(s, intent, anchors) ==
    CASE anchors # {} /\ s.id \in Primary(anchors).ids -> "PRIMARY"
      [] s.method \in Protocol -> "PROTOCOL_SUPPORT"
      [] OTHER -> IF anchors = {} THEN "UNKNOWN" ELSE "SUPPORTING"

\* Without an intent, only what is certainly no part of the journey is marked.
Relevance(s, intent, anchors) ==
    LET first == Primary(anchors)
        mine == {s.path.resource, s.path.parent} \ {"unknown"}
        rivals == {a \in Significant(anchors) : s.id \in a.ids}
    IN CASE s.method \in Protocol -> "PROTOCOL_SUPPORT"
         [] s.method \notin Protocol /\ Background(s) -> "NOISE"
         [] OTHER ->
              IF intent.action = Unknown \/ intent.resource = "unknown" \/ anchors = {}
                THEN "UNKNOWN"
              ELSE IF s.id \in first.ids THEN "PRIMARY"
              ELSE IF \/ s.path.resource = first.resource
                      \/ \E a \in rivals : Related(first, a)
                      \/ /\ mine \cap first.resources # {}
                         /\ Near({s.position}, first.positions)
                THEN "SUPPORTING" ELSE "CONTEXT"

\* The labels of assess_quality that stand against a focused capture
Labels(inside, primaries, families, mutations) ==
    LET auths == {s \in inside : /\ s.method \notin Protocol
                                 /\ Operation(s).action = "AUTHENTICATE"}
    IN {l \in {"MULTI_INTENT", "BROAD", "AUTH_HEAVY", "LOW_SIGNAL"} :
          CASE l = "MULTI_INTENT" -> mutations > 1
            [] l = "BROAD" -> families >= 5 \/ mutations >= 3
            [] l = "AUTH_HEAVY" -> /\ auths # {}
                                   /\ 2 * Cardinality(auths) >= Cardinality(inside)
            [] l = "LOW_SIGNAL" -> mutations = 0 /\ primaries <= 1}

Focused(labels, families, mutations) ==
    IF labels = {} /\ families <= 3 /\ mutations <= 1 THEN {"FOCUSED"} ELSE labels

\* assess_quality
Quality(signals, ops, relevance) ==
    LET inside == {s \in signals : ~s.outside}
        families == Cardinality({s.path.resource : s \in inside} \ {"unknown"})
        mutations == Cardinality({<<o.action, o.resource>> :
                         o \in {p \in ops : p.signal.method \in Mutating}})
        primaries == Cardinality({s \in signals : relevance[s.id] = "PRIMARY"})
    IN Focused(Labels(inside, primaries, families, mutations), families, mutations)
=============================================================================
