---------------------------- MODULE ExchangeSignals ----------------------------
(***************************************************************************)
(* What behavior/extraction.py reads off one exchange: typed signals of    *)
(* its request and response, the states the response names, and what the   *)
(* exchange does.                                                          *)
(*                                                                         *)
(* An exchange is a record                                                 *)
(*   id, time, pos    time is a second, or NoTime; pos orders a capture    *)
(*   actor, session, capture, imported, mode, relevance, host, source      *)
(*   method, path, status, tail, polls, endpoint                           *)
(*                    tail is the last word of the path, polls whether it  *)
(*                    is a polling path                                    *)
(*   stored           the redacted copy of the capture can be read         *)
(*   fields           the scalars of the request and the response          *)
(* A field is [dir, loc, within, of, word, many, literal, val]: orderId in *)
(* the object "cart" of a list has within = "cart", of = "order", word =   *)
(* "id", many = TRUE; literal tells a path segment the route does not      *)
(* name.  A value is [is, look, type].                                     *)
(***************************************************************************)
EXTENDS Integers, FiniteSetsExt, SequencesExt, TLC

NoEndpoint == [none |-> TRUE]
NoTime == -1
NoSession == "none"

\* The first rule <<condition, result>> whose condition holds.
FirstRule(rules, otherwise) ==
    LET hits == {i \in DOMAIN rules : rules[i][1]}
    IN IF hits = {} THEN otherwise ELSE rules[Min(hits)][2]

ValueWords == {"amount", "balance", "credit", "debit", "discount", "fee", "inventory",
               "limit", "price", "quantity", "refundamount", "subtotal", "total"}
StateWords == {"status", "state", "phase", "lifecycle"}
TokenWords == {"challenge", "code", "coupon", "invitation", "nonce", "reference",
               "ticket", "token"}
PageWords == {"page", "pagesize", "offset", "cursor"}
ScopeTypes == {"account", "actor", "owner", "tenant", "user", "userid"}
ScopeClasses == {"REGION", "SHARED_SCOPE", "TENANT_CONTAINER", "PARENT_CONTAINER",
                 "ACTOR_IDENTIFIER"}
TokenKinds == {"WORKFLOW_TOKEN", "CORRELATION_ID", "IDEMPOTENCY_KEY"}

-----------------------------------------------------------------------------
(* One scalar                                                              *)

OpaqueToken(f) ==
    /\ f.loc \in {"BODY", "HEADER"}
    /\ f.val.look = "opaque" /\ f.val.type = "STRING"
    /\ f.word \notin StateWords \cup ValueWords

Kind(f) ==
    FirstRule(<< <<f.word \in PageWords, "none">>,
                 <<f.word = "limit" /\ f.loc = "QUERY_PARAMETER", "none">>,
                 <<f.word = "idempotencykey", "IDEMPOTENCY_KEY">>,
                 <<f.word = "requestid", "CORRELATION_ID">>,
                 <<f.word \in ValueWords, "BUSINESS_VALUE">>,
                 <<f.word = "id" \/ f.loc = "PATH_PARAMETER", "RESOURCE_IDENTIFIER">>,
                 <<f.word \in TokenWords \/ OpaqueToken(f), "WORKFLOW_TOKEN">> >>,
              "none")

\* Neither a timestamp nor a common word, and a token is not short.
Distinctive(f, kind) ==
    /\ f.word # "at" /\ f.val.look \notin {"timestamp", "common"}
    /\ kind \in TokenKinds => f.val.look # "short"

ResourceType(f, ep) ==
    FirstRule(<< <<f.of # "", f.of>>,
                 <<ep # NoEndpoint /\ f.within # "", f.within>> >>,
              IF ep = NoEndpoint THEN "resource" ELSE ep.resource)

StateResourceType(f, ep) ==
    FirstRule(<< <<f.of # "", f.of>>, <<f.within # "", f.within>> >>,
              IF ep = NoEndpoint THEN "resource" ELSE ep.resource)

ValueResourceType(f, ep) ==
    FirstRule(<< <<f.within # "", f.within>>,
                 <<f.word \in {"balance", "credit", "debit"}, "account">> >>,
              IF ep = NoEndpoint THEN "resource" ELSE ep.resource)

Unassessed == [class |-> "OPAQUE_UNKNOWN", resource |-> "", ownership |-> "UNKNOWN"]

\* _parameter_semantics: the inventory's reading of the parameter, the one
\* at the same place of the body first.
Assessment(f, ep) ==
    LET named == IF ep = NoEndpoint THEN {}
                 ELSE {p \in ep.parameters : /\ p.of = f.of /\ p.word = f.word
                                             /\ p.dir = f.dir /\ p.loc = f.loc}
        exact == {p \in named : p.within = f.within}
        subject == /\ ep # NoEndpoint /\ f.loc = "PATH_PARAMETER"
                   /\ f.of = ep.resource /\ f.word = "id"
        Reading(p) == [class |-> p.class, resource |-> p.resource, ownership |-> p.ownership]
    IN IF f.loc = "BODY" /\ exact # {} THEN Reading(CHOOSE p \in exact : TRUE)
       ELSE IF named # {} THEN Reading(CHOOSE p \in named : TRUE)
       ELSE IF subject THEN [Unassessed EXCEPT !.class = "OBJECT_IDENTIFIER",
                                               !.resource = ep.resource]
       ELSE Unassessed

ResourceRole(type, ep, class) ==
    FirstRule(<< <<class \in ScopeClasses, "SCOPE">>,
                 <<type = "", "UNKNOWN">>,
                 <<type \in ScopeTypes, "SCOPE">>,
                 <<ep # NoEndpoint /\ type = (IF ep = NoEndpoint THEN "" ELSE ep.resource),
                   "PRIMARY">> >>,
              "RELATED")

SemanticRole(f, kind, type) ==
    CASE kind = "RESOURCE_IDENTIFIER" -> <<"resource", type>>
      [] kind = "BUSINESS_VALUE" -> <<"business", f.word>>
      [] kind \in {"IDEMPOTENCY_KEY", "CORRELATION_ID"} -> <<"protocol", f.word>>
      [] kind = "WORKFLOW_TOKEN" -> <<"token", IF f.of = "" THEN "workflow" ELSE f.of>>

Readable(f) ==
    f.val.look \notin {"redacted", "empty"} /\ f.val.type \notin {"BOOLEAN", "NULL"}

\* _signal
Signal(f, ep) ==
    LET kind == Kind(f)
        read == Assessment(f, ep)
        type == CASE kind = "RESOURCE_IDENTIFIER" ->
                        IF read.resource # "" THEN read.resource ELSE ResourceType(f, ep)
                  [] kind = "BUSINESS_VALUE" -> ValueResourceType(f, ep)
                  [] OTHER -> ""
    IN [field |-> <<f.within, f.of, f.word>>, val |-> f.val, kind |-> kind, type |-> type,
        role |-> SemanticRole(f, kind, type),
        place |-> ResourceRole(type, ep, read.class),
        class |-> read.class, ownership |-> read.ownership,
        loc |-> f.loc, distinctive |-> Distinctive(f, kind), dir |-> f.dir, many |-> f.many]

Signals(fields, ep) ==
    {Signal(f, ep) : f \in {g \in fields : Readable(g) /\ Kind(g) # "none"}}

-----------------------------------------------------------------------------
(* One exchange                                                            *)

\* _path_signals: a segment the route does not name counts only as an
\* identifier of the endpoint's own resource.
OnPath(fields, ep) ==
    {f \in fields : /\ f.loc = "PATH_PARAMETER" /\ ep # NoEndpoint
                    /\ f.literal => f.of = ep.resource}

\* RedactedCaptureReader: bodies and headers come from the stored copy.
InCopy(x) == {f \in x.fields : x.stored /\ f.loc \in {"BODY", "HEADER"}}

InQuery(x) == {f \in x.fields : f.loc = "QUERY_PARAMETER"}

\* _semantic_action
DefaultAction == [POST |-> "EXECUTE", PUT |-> "REPLACE", PATCH |-> "UPDATE",
                  DELETE |-> "DELETE"]

ActionName(x, ep) ==
    <<FirstRule(<< <<ep # NoEndpoint /\ ep.action # "unknown",
                     IF ep = NoEndpoint THEN "" ELSE ep.action>>,
                   <<x.tail # "", x.tail>>,
                   <<x.method \in DOMAIN DefaultAction,
                     IF x.method \in DOMAIN DefaultAction
                       THEN DefaultAction[x.method] ELSE "">> >>,
                "READ"),
      IF ep = NoEndpoint THEN "resource" ELSE ep.resource>>

StateSignal(f, ep) ==
    [field |-> <<f.within, f.of, f.word>>, value |-> f.val.is,
     type |-> StateResourceType(f, ep)]

\* extract_exchange_facts, for one exchange; the inventory knows the
\* endpoints of the exchanges in known.
Facts(x, known) ==
    LET ep == IF x.id \in known THEN x.endpoint ELSE NoEndpoint
        sent == {f \in OnPath(x.fields, ep) \cup InQuery(x) \cup InCopy(x) : f.dir = "REQUEST"}
        answered == {f \in InCopy(x) : f.dir = "RESPONSE"}
    IN [x |-> x, endpoint |-> ep, name |-> ActionName(x, ep),
        sent |-> Signals(sent, ep), answered |-> Signals(answered, ep),
        states |-> {StateSignal(f, ep) :
                       f \in {g \in answered : g.loc = "BODY" /\ g.word \in StateWords}}]

AllSignals(f) == f.sent \cup f.answered
=============================================================================
