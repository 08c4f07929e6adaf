-------------------------- MODULE ControlledOwnership --------------------------
(***************************************************************************)
(* What the imported exchanges say of the objects the researcher's         *)
(* accounts made (modeling/relationships.py): who produced an object and   *)
(* went on using it, who else reached it, and whether it still exists.     *)
(* The last part projects that onto the endpoints of the inventory.        *)
(*                                                                         *)
(* An exchange is a record                                                 *)
(*   id        its place in the order things really happened               *)
(*   capture, position   the capture it was exported in, its place there   *)
(*   time      its time stamp, or NoTime when the export has none          *)
(*   actor, auth, mode   as assigned at import and read from the request   *)
(*   op        CREATE, READ, UPDATE or DELETE (the method and the action)  *)
(*   object    [parent, value]: the value means nothing without its parent *)
(*   ok        the answer was a 2xx                                        *)
(*                                                                         *)
(* There is one resource type and one collection route family, so the      *)
(* comparisons of their names are left out.                                *)
(***************************************************************************)
EXTENDS Integers, FiniteSets

CONSTANTS
    Accounts,       \* the researcher's accounts
    PublicScope     \* ownership_inference lists the path parameter as shared

NoTime == 0
Ops == {"CREATE", "READ", "UPDATE", "DELETE"}
Anonymous == "ANONYMOUS"

-----------------------------------------------------------------------------
(* Producers, consumers, order                                             *)

\* eligible_facts: only ordinary traffic says anything of ownership
Ordinary(X) == {x \in X : x.mode = "NORMAL_BEHAVIOR"}

\* _is_create: the answer names an object the request did not
Produces(x) == x.op = "CREATE" /\ x.ok

\* _temporal_support: the time stamps, or the order within one capture
Follows(later, earlier) ==
    \/ /\ earlier.time # NoTime
       /\ later.time # NoTime
       /\ later.time >= earlier.time
    \/ /\ later.capture = earlier.capture
       /\ later.position > earlier.position

\* _auth_compatible
SameCredential(x, y) ==
    /\ "none" \notin {x.auth, y.auth}
    /\ x.auth = y.auth \/ "mixed" \in {x.auth, y.auth}

\* The producer-consumer continuity behind ACTOR_CONTROLS_RESOURCE
Continues(use, made) ==
    /\ use.op # "CREATE"
    /\ use.object = made.object
    /\ use.actor = made.actor
    /\ use.ok
    /\ Follows(use, made)
    /\ SameCredential(made, use)

Creations(X) == {x \in Ordinary(X) : Produces(x) /\ x.actor \in Accounts /\ x.auth # "none"}

\* baseline_entries: the uses that continue a creation, with the creations
ControlledUses(X) ==
    {use \in Ordinary(X) : \E made \in Creations(X) : Continues(use, made)}

-----------------------------------------------------------------------------
(* Counterevidence                                                         *)

ReachedBy(X, object) == {x.actor : x \in {y \in Ordinary(X) : y.ok /\ y.object = object}}

\* Faulty: the accounts that reached the object are not looked at.
SharedByScopeOnly(X, object) ==
    PublicScope /\ \E x \in Ordinary(X) : x.ok /\ x.object = object /\ x.op # "CREATE"

Shared(X, object) ==
    \/ Cardinality(ReachedBy(X, object) \cap Accounts) >= 2
    \/ /\ PublicScope
       /\ \E x \in Ordinary(X) : x.ok /\ x.object = object /\ x.op # "CREATE"

Public(X, object) ==
    \E x \in Ordinary(X) :
        x.ok /\ x.object = object /\ (x.actor = Anonymous \/ x.auth = "none")

\* Faulty: a caller without credentials does not matter.
ExclusiveIfUnshared(X, object) == ~Shared(X, object)

Exclusive(X, object) == ~Shared(X, object) /\ ~Public(X, object)

-----------------------------------------------------------------------------
(* Liveness: the last word on an object, or none                           *)

\* _observation_precedes
Precedes(x, y) ==
    IF x.time # NoTime /\ y.time # NoTime THEN x.time < y.time
    ELSE x.capture = y.capture /\ x.position < y.position

\* _baseline_liveness_state
SaysOf(use) ==
    CASE use.op = "DELETE" -> "DELETED"
      [] use.op = "READ"   -> "LIVE"
      [] OTHER             -> "HISTORICAL_ONLY"

LastOf(uses) == {u \in uses : \A v \in uses \ {u} : Precedes(v, u)}

\* Faulty: one read is enough, whatever came after.
LivenessOnceSeen(uses) ==
    IF \E u \in uses : SaysOf(u) = "LIVE" THEN "LIVE" ELSE "HISTORICAL_ONLY"

\* _current_baseline_liveness
Liveness(uses) ==
    LET deciding == IF Cardinality(LastOf(uses)) = 1 THEN LastOf(uses) ELSE uses
        says == {SaysOf(u) : u \in deciding}
    IN IF Cardinality(says) = 1 THEN CHOOSE s \in says : TRUE ELSE "HISTORICAL_ONLY"

\* ControlledBaseline, as the endpoints carry it
Baseline(uses, use) ==
    [actor |-> use.actor, object |-> use.object, op |-> use.op, auth |-> use.auth,
     observation |-> use.id,
     liveness |-> Liveness({u \in uses : u.object = use.object})]

-----------------------------------------------------------------------------
(* The inventory                                                           *)

\* One endpoint per operation and literal parent
EndpointOf(x) == [op |-> x.op, parent |-> x.object.parent]
Sources(X, e) == {x \in X : EndpointOf(x) = e}

\* controlled_binding_for_endpoint: the baselines of the whole route family
Binding(X, e) ==
    IF e.op = "CREATE" THEN {}
    ELSE {Baseline(ControlledUses(X), use)
            : use \in {u \in ControlledUses(X) : u.op = e.op /\ Exclusive(X, u.object)}}

\* project_controlled_ownership: the class and state of the path parameter
Semantics(X, e) ==
    LET bound == Binding(X, e) # {}
        tainted == \E x \in Ordinary(X) : ~Exclusive(X, x.object)
    IN [class |-> IF bound THEN "OWNED_OBJECT" ELSE "OBJECT_IDENTIFIER",
        state |-> CASE bound /\ tainted  -> "CONTRADICTED"
                    [] bound /\ ~tainted -> "STRONG_INFERRED"
                    [] ~bound /\ tainted -> "SHARED"
                    [] OTHER             -> "UNKNOWN"]

\* _authentication
AuthTypes(X, e) == {x.auth : x \in Sources(X, e)} \ {"none"}

\* Endpoint, before the ownership pass and after it
Surveyed(X, e) ==
    [sources |-> {x.id : x \in Sources(X, e)},
     required |-> AuthTypes(X, e) # {},
     anonymous |-> \E x \in Sources(X, e) : x.ok /\ x.auth = "none" /\ x.op = "READ",
     binding |-> {},
     semantics |-> [class |-> "OBJECT_IDENTIFIER", state |-> "UNKNOWN"]]

Projected(X, e) ==
    [Surveyed(X, e) EXCEPT !.binding = Binding(X, e), !.semantics = Semantics(X, e)]
=============================================================================
