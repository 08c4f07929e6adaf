--------------------------- MODULE MCObjectReadiness ---------------------------
(* Account b has an object under another parent; account a works under the   *)
(* parent the hypotheses aim at, in a capture with time stamps and in one    *)
(* without; b and a caller without credentials look at what a made.          *)
EXTENDS ObjectReadiness

MCAccounts == {"a", "b"}
MCCaptures == {"a_stamped", "a_plain", "b_stamped", "anonymous"}
MCAbout ==
    [c \in MCCaptures \cup {"before"} |->
        [actor |-> CASE c \in {"a_stamped", "a_plain"} -> "a"
                     [] c = "anonymous" -> Anonymous
                     [] OTHER -> "b",
         auth |-> CASE c = "anonymous" -> "none" [] c = "a_plain" -> "mixed" [] OTHER -> "bearer",
         mode |-> "NORMAL_BEHAVIOR",
         stamped |-> c # "a_plain"]]
MCUsed ==
    [c \in MCCaptures |->
        CASE c = "a_stamped" -> {"CREATE", "READ", "DELETE"}
          [] c = "a_plain" -> {"DELETE"}
          [] OTHER -> {"READ"}]
MCHistory ==
    [i \in 1..2 |->
        [id |-> i, capture |-> "before", position |-> i, time |-> 1 + (i \div 2),
         actor |-> "b", auth |-> "bearer", mode |-> "NORMAL_BEHAVIOR",
         op |-> IF i = 1 THEN "CREATE" ELSE "READ",
         object |-> [parent |-> "p2", value |-> 1], ok |-> TRUE]]
MCUnreviewed ==
    [authenticated |-> MCAccounts, confirmed |-> {"a"}, budget |-> 1, intent |-> NoRule,
     control |-> NoControl]
MCReviewed == [MCUnreviewed EXCEPT !.confirmed = MCAccounts, !.budget = 2]
MCPolicies == {MCReviewed, [MCReviewed EXCEPT !.intent = "PUBLIC"]}
MCSoleCapture == {"a_stamped"}
=============================================================================
