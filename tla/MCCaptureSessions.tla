-------------------------- MODULE MCCaptureSessions --------------------------
EXTENDS CaptureSessions

Path(name, resource, parent) ==
    [name |-> name, resource |-> resource, parent |-> parent, credential |-> FALSE,
     collection |-> FALSE, verb |-> "none", auth |-> FALSE]
Orders  == [Path("orders", "order", "unknown") EXCEPT !.collection = TRUE]
Order   == Path("order", "order", "account")
Account == Path("account", "account", "unknown")
Login   == [Path("login", "session", "unknown") EXCEPT !.auth = TRUE]
Cancel  == [Path("cancel", "order", "account") EXCEPT !.verb = "DELETE"]
Key     == [Path("key", "key", "account") EXCEPT !.credential = TRUE]

Exchange(position, method, status, path) ==
    [id |-> position, position |-> position, method |-> method, status |-> status,
     path |-> path, outside |-> FALSE, endpoint |-> NoEndpoint, domain |-> NoRule]
Endpoint(resource, action) ==
    [resource |-> resource, action |-> action, mutation |-> FALSE, changes |-> FALSE,
     suppressed |-> FALSE]

\* An order placed, with a preflight, a beacon and unrelated traffic.
Ordering ==
    {[Exchange(1, "GET", 200, Account) EXCEPT !.endpoint = Endpoint("account", "read")],
     Exchange(2, "OPTIONS", 200, Orders),
     [Exchange(3, "POST", 201, Orders) EXCEPT
         !.endpoint = [Endpoint("order", "create") EXCEPT !.changes = TRUE]],
     [Exchange(4, "POST", 200, Account) EXCEPT !.outside = TRUE],
     [Exchange(9, "GET", 200, Login) EXCEPT
         !.endpoint = [Endpoint("session", "read") EXCEPT !.suppressed = TRUE]]}

\* A page that polls, and one failed change.
Polling ==
    {[Exchange(i, "GET", 200, Order) EXCEPT !.endpoint = Endpoint("order", "read")]
        : i \in 1..11}
    \cup {[Exchange(12, "PUT", 500, Account) EXCEPT
              !.endpoint = [Endpoint("me", "update") EXCEPT !.mutation = TRUE]]}

\* Sign-in, a reviewed rule, and a key rotated.
SignIn ==
    {[Exchange(1, "POST", 200, Login) EXCEPT
         !.endpoint = Endpoint("session", "unknown"),
         !.domain = [operation |-> "verify_credential", resource |-> "session",
                     parent |-> "unknown"]],
     Exchange(2, "POST", 200, Key), Exchange(3, "POST", 404, Cancel),
     Exchange(4, "GET", 404, Order)}

Pairs == {<<Ordering, Polling>>, <<SignIn, Ordering>>, <<Ordering, {}>>}
MCJourneys == {[f \in Files |-> IF f = "f1" THEN p[1] ELSE p[2]] : p \in Pairs}

Declared == [action |-> "CREATE", resource |-> "order", source |-> "USER"]
Assignment(actor, source, mode, intent) ==
    [actor |-> actor, actorSource |-> source, mode |-> mode, intent |-> intent]
MCDirects == {Assignment("A", "unset", "unset", Undeclared),
              Assignment("A", "unset", "RESEARCHER_PROBE", Undeclared)}
MCManuals == {Assignment("UNKNOWN", "USER", "NORMAL_BEHAVIOR", Declared)}
MCEntries == {Assignment("UNKNOWN", "USER", "unset", Undeclared)}
MCHints == [n \in Names |-> IF n = "n1" THEN [actor |-> "A", marker |-> "none"]
                             ELSE [actor |-> "none", marker |-> "probe"]]

MCExchanges ==
    [url : [host : {"api"}, path : {"/orders", None}], method : {"GET", "POST"},
     status : {"200"}, sensitive : BOOLEAN,
     creds : [authorization : {None, "bearer", "basic", "other"}, apiKey : BOOLEAN,
              cookie : BOOLEAN, csrf : BOOLEAN, custom : BOOLEAN]]

MCPolicies == {[mode |-> "NORMAL_BEHAVIOR", infer |-> TRUE],
               [mode |-> "UNKNOWN", infer |-> FALSE]}
=============================================================================
