---------------------------- MODULE ExchangeReading ----------------------------
(***************************************************************************)
(* The readers of three capture formats (ingest/har.py, ingest/traffic.py, *)
(* ingest/common.py) and the detection of replayable authentication in     *)
(* them (auth/capture.py).  Each format may say a thing in several places, *)
(* and each reader has its own order of looking for it; all three are      *)
(* meant to read the same facts off the same exchange.                     *)
(*                                                                         *)
(* An exchange is a record: url (or parts of it), method, status, the      *)
(* credentials of the request (authorization, apiKey, cookie, csrf,        *)
(* custom) and whether its query carries a sensitive name.                 *)
(***************************************************************************)
EXTENDS Integers, FiniteSets

None == "none"
Otherwise(first, second) == IF first # None THEN first ELSE second

-----------------------------------------------------------------------------
(* The mechanism an observation records                                    *)

Mechanisms(creds, cookie) ==
    ({IF creds.authorization = "other" THEN "mixed" ELSE creds.authorization} \ {None})
    \cup (IF creds.apiKey THEN {"api_key"} ELSE {})
    \cup (IF cookie THEN {"cookie"} ELSE {})

OneOf(types) ==
    IF types = {} THEN None
    ELSE IF Cardinality(types) = 1 THEN CHOOSE t \in types : TRUE ELSE "mixed"

\* authentication_from_headers
HeaderAuthentication(creds) == OneOf(Mechanisms(creds, creds.cookie))

\* _authentication of a HAR request, which also lists its cookies
HarAuthentication(creds, listed) == OneOf(Mechanisms(creds, creds.cookie \/ listed))

-----------------------------------------------------------------------------
(* What can be replayed: _request_components, _auth_type, _baseline        *)

Components(creds, listed) ==
    LET access  == IF creds.authorization # None THEN {"access"} ELSE {}
        session == IF creds.cookie \/ listed THEN {"session"} ELSE {}
        others  == {p \in {"api_key", "other"} :
                       IF p = "api_key" THEN creds.apiKey ELSE creds.custom}
        primary == access \cup session \cup others
    IN IF primary = {} THEN {}
       ELSE primary \cup (IF creds.csrf THEN {"csrf"} ELSE {})

AuthType(creds, components) ==
    CASE Cardinality(components \ {"csrf"}) > 1 -> "mixed"
      [] components \ {"csrf"} = {"access"} ->
           IF creds.authorization = "other" THEN "custom_header" ELSE creds.authorization
      [] components \ {"csrf"} = {"session"} -> "cookie"
      [] components \ {"csrf"} = {"api_key"} -> "api_key"
      [] OTHER -> "custom_header"

\* Only a safe request without a sensitive query can prove a credential.
Baseline(fact) ==
    IF fact.method \in {"GET", "HEAD"} /\ ~fact.sensitiveQuery
    THEN [method |-> fact.method, host |-> fact.host, path |-> fact.path,
          expected |-> fact.status]
    ELSE [none |-> TRUE]

\* detect_har_authentication and detect_burp_authentication, for one exchange
CandidateOf(fact, creds, listed) ==
    LET parts == Components(creds, listed) IN
    IF parts = {} THEN [none |-> TRUE]
    ELSE [components |-> parts, type |-> AuthType(creds, parts),
          baseline |-> Baseline(fact)]

-----------------------------------------------------------------------------
(* The readers.  A URL is a record [host, path]; a raw message has a start *)
(* line, or none.                                                          *)

Refusal == [none |-> TRUE]

Fact(url, method, status, authentication, sensitive) ==
    IF url.host = None THEN Refusal
    ELSE [host |-> url.host, path |-> IF url.path = None THEN "/" ELSE url.path,
          method |-> method, status |-> status, authentication |-> authentication,
          sensitiveQuery |-> sensitive]

\* _parse_entry
HarRead(entry) ==
    Fact(entry.url, Otherwise(entry.method, "GET"), entry.status,
         HarAuthentication(entry.creds, entry.listed), entry.sensitive)

\* Faulty: the request line is not consulted.
BurpReadElementOnly(item) ==
    Fact(item.url, Otherwise(item.method, "GET"), item.status,
         HeaderAuthentication(item.creds), item.sensitive)

\* load_burp_xml: an element of the item, else the raw message
BurpRead(item) ==
    LET target == Otherwise(item.request.target, "/")
        url == IF item.url.host # None THEN item.url
               ELSE [host |-> item.host, path |-> target]
    IN Fact(url, Otherwise(item.method, Otherwise(item.request.method, "GET")),
            Otherwise(item.status, item.response.status),
            HeaderAuthentication(item.creds), item.sensitive)

\* _caido_request and _caido_response: the request object, the entry, or the
\* raw message
CaidoRead(entry) ==
    LET url == IF entry.url.host # None THEN entry.url
               ELSE [host |-> entry.host, path |-> Otherwise(entry.path, "/")]
    IN Fact(url, Otherwise(entry.method, Otherwise(entry.request.method, "GET")),
            Otherwise(entry.status, entry.response.status),
            HeaderAuthentication(entry.creds), entry.sensitive)

-----------------------------------------------------------------------------
(* The same exchange as each tool may export it                            *)

NoUrl == [host |-> None, path |-> None]
LineOf(x) == [method |-> x.method, target |-> x.url.path, status |-> x.status]

HarExports(x) ==
    {[url |-> x.url, method |-> x.method, status |-> x.status, creds |-> x.creds,
      listed |-> x.creds.cookie, sensitive |-> x.sensitive]}

BurpExports(x) ==
    {[url |-> url, host |-> x.url.host, method |-> m, status |-> s,
      request |-> LineOf(x), response |-> LineOf(x), creds |-> x.creds,
      sensitive |-> x.sensitive] :
        url \in {x.url, NoUrl}, m \in {x.method, None}, s \in {x.status, None}}

CaidoExports(x) ==
    {[url |-> url, host |-> x.url.host, path |-> x.url.path, method |-> m, status |-> s,
      request |-> LineOf(x), response |-> LineOf(x), creds |-> x.creds,
      sensitive |-> x.sensitive] :
        url \in {x.url, NoUrl}, m \in {x.method, None}, s \in {x.status, None}}

\* Whatever a tool leaves out of its export, the three readers make the same
\* fact of an exchange, and HAR and Burp the same replay candidate.
ReadersAgree(exchanges) ==
    \A x \in exchanges :
        LET facts == {HarRead(e) : e \in HarExports(x)}
                     \cup {BurpRead(e) : e \in BurpExports(x)}
                     \cup {CaidoRead(e) : e \in CaidoExports(x)}
            har == {CandidateOf(HarRead(e), e.creds, e.listed) : e \in HarExports(x)}
            burp == {CandidateOf(BurpRead(e), e.creds, FALSE) : e \in BurpExports(x)}
        IN Cardinality(facts) = 1 /\ har = burp
=============================================================================
