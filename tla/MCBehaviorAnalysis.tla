--------------------------- MODULE MCBehaviorAnalysis ---------------------------
(***************************************************************************)
(* Five captures of a small shop.                                          *)
(*   1  A creates an order and returns it                                  *)
(*   2  B creates one, gets a return authorized, and returns it with the   *)
(*      code; then the same without the authorization                      *)
(*   3  A probes the return of her first order, in the same session        *)
(*   4  A starts two refunds and confirms each with the code it answered   *)
(*   5  A creates, has the return of that order authorized and returns it  *)
(*      without the code, after an earlier creation that had answered with *)
(*      the number of her first order                                      *)
(***************************************************************************)
EXTENDS BehaviorAnalysis

Plain(v) == [is |-> v, look |-> "plain", type |-> "STRING"]
Opaque(v) == [is |-> v, look |-> "opaque", type |-> "STRING"]
Common(v) == [is |-> v, look |-> "common", type |-> "STRING"]
Number(v) == [is |-> v, look |-> "plain", type |-> "INTEGER"]

Field(dir, loc, of, word, val) ==
    [dir |-> dir, loc |-> loc, within |-> "", of |-> of, word |-> word, val |-> val,
     many |-> FALSE, literal |-> FALSE]
InPath(of, v) == Field("REQUEST", "PATH_PARAMETER", of, "id", Plain(v))
Sent(of, word, v) == Field("REQUEST", "BODY", of, word, v)
Answered(of, word, v) == Field("RESPONSE", "BODY", of, word, v)

OrderParameter == [dir |-> "REQUEST", loc |-> "PATH_PARAMETER", within |-> "", of |-> "order",
                   word |-> "id", class |-> "OBJECT_IDENTIFIER", resource |-> "order",
                   ownership |-> "UNKNOWN", object |-> TRUE]

Endpoint(id, method, action, resource, changes, item) ==
    [id |-> id, method |-> method, route |-> id, action |-> action, resource |-> resource,
     changes |-> changes, reads |-> ~changes, active |-> TRUE, class |-> "BUSINESS",
     item |-> item, collection |-> IF item THEN "orders" ELSE "", answers |-> {},
     required |-> TRUE, relevance |-> 4,
     placeholders |-> IF item THEN {<<"order", "id">>} ELSE {},
     parameters |-> IF item THEN {OrderParameter} ELSE {}]

Create == Endpoint("orders", "POST", "CREATE", "order", TRUE, FALSE)
Authorize == Endpoint("authorizations", "POST", "INITIATE", "authorization", TRUE, FALSE)
Return == Endpoint("return", "POST", "RETURN", "order", TRUE, TRUE)
Refund == Endpoint("refund", "POST", "INITIATE", "refund", TRUE, TRUE)
Confirm == Endpoint("confirm", "POST", "CONFIRM", "refund", TRUE, FALSE)

Exchange(capture, pos, actor, session, endpoint, status, fields) ==
    [id |-> 10 * capture + pos, time |-> 100 * capture + pos, pos |-> pos,
     actor |-> actor, session |-> session, capture |-> capture, imported |-> TRUE,
     mode |-> "NORMAL_BEHAVIOR", relevance |-> "PRIMARY", host |-> "api", source |-> "HAR",
     method |-> endpoint.method, path |-> endpoint.route, status |-> status, tail |-> "",
     polls |-> FALSE, endpoint |-> endpoint, stored |-> TRUE, fields |-> fields]

Orders(c, p, a, s, o) ==
    Exchange(c, p, a, s, Create, 201, {Sent("", "amount", Number("50")),
        Answered("order", "id", Plain(o)), Answered("", "status", Common("CREATED"))})
Authorizes(c, p, a, s, code) ==
    Exchange(c, p, a, s, Authorize, 200,
        {Answered("", "code", Opaque(code)), Answered("", "status", Common("PENDING"))})
Returns(c, p, a, s, o) ==
    Exchange(c, p, a, s, Return, 200, {InPath("order", o),
        Answered("", "status", Common("RETURN_PENDING"))})
Refunds(c, p, a, s, o, code) ==
    Exchange(c, p, a, s, Refund, 200, {InPath("order", o),
        Answered("", "code", Opaque(code)), Answered("", "status", Common("PENDING"))})
Confirms(c, p, a, s, code) ==
    Exchange(c, p, a, s, Confirm, 200, {Sent("", "code", Opaque(code)),
        Answered("", "status", Common("CONFIRMED"))})
Sending(x, field) == [x EXCEPT !.fields = @ \cup {field}]

MCExchanges ==
  <<{Orders(1, 1, "A", "s1", "o1"), Returns(1, 2, "A", "s1", "o1")},
    {Orders(2, 1, "B", "s2", "o2"), Authorizes(2, 2, "B", "s2", "k2"),
     Sending(Returns(2, 3, "B", "s2", "o2"), Sent("", "code", Opaque("k2"))),
     Orders(2, 4, "B", "s2", "o7"), Returns(2, 5, "B", "s2", "o7")},
    {[Returns(3, 1, "A", "s1", "o1") EXCEPT !.mode = "RESEARCHER_PROBE"]},
    {Refunds(4, 1, "A", "s4", "o8", "c1"), Confirms(4, 2, "A", "s4", "c1"),
     Refunds(4, 3, "A", "s4", "o9", "c2"), Confirms(4, 4, "A", "s4", "c2")},
    {[Orders(5, 1, "A", "s5", "o1") EXCEPT !.time = 50],
     Orders(5, 2, "A", "s6", "o7"),
     Sending(Authorizes(5, 3, "A", "s6", "k7"), Sent("order", "id", Plain("o7"))),
     Returns(5, 4, "A", "s6", "o7")}>>
MCEndpoints == {Create, Authorize, Return, Refund, Confirm}
MCSurroundings ==
    [bound |-> {}, live |-> FALSE, owned |-> {"return", "refund"}, guarded |-> {},
     controlled |-> {"A", "B"}, budget |-> 10, disposable |-> TRUE,
     role |-> [A |-> "user", B |-> "user"]]
=============================================================================
