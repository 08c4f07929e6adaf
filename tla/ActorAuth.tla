------------------------------ MODULE ActorAuth -----------------------------
(***************************************************************************)
(* The authentication life cycle of one actor: capture, manual entry,      *)
(* baseline check, refresh and clear, each a command that loads its files  *)
(* once and then replaces several of them one after the other.             *)
(***************************************************************************)
EXTENDS AuthProfile

VARIABLE pending  \* writes the running command has still to make

actorVars == <<auth, vault, approval, pending>>

NotRequested == [status |-> "NOT_REQUESTED", record |-> [ctx |-> Nobody]]

AuthInit == /\ auth = Missing
            /\ vault = [r \in Refs |-> Nobody]
            /\ approval = NotRequested
            /\ pending = <<>>

-----------------------------------------------------------------------------
(* Commands.  A refused command writes nothing and is not an action.        *)

Run(writes) == /\ pending = <<>>
               /\ pending' = writes
               /\ UNCHANGED <<auth, vault, approval>>

Store == \E c \in Candidates : Run(StoreWrites(auth, c))

Clear == Run(ClearWrites(auth))

ConfigureRefresh ==
    /\ auth.set
    /\ \E owner \in Subjects : Run(ConfigureWrites(auth, owner))

\* The answer carries a token of whoever the refresh credential belongs to.
RefreshActor ==
    /\ CanRefresh(auth, vault)
    /\ \/ Run(RefreshFailedWrites(auth))
       \/ \E hint \in {vault["refresh"], Unknown}, life \in Lifetimes :
             Run(RefreshWrites(auth, vault["refresh"], hint, life))

\* validate_actor_baseline.  The identity assertion is optional, and holds
\* only of a response to the actor's own credential.
ValidateBaseline ==
    /\ auth.baseline
    /\ ReadyToPlan(auth, vault)
    /\ \E f \in {"login", "matched", "confirmed", "unexpected"} :
          /\ f = "confirmed" => vault["access"] = Self
          /\ Run(<<PutFact(f)>>)

Commands == Store \/ Clear \/ ConfigureRefresh \/ RefreshActor \/ ValidateBaseline

-----------------------------------------------------------------------------
(* The writes, one at a time.                                              *)

Writing(file) == pending # <<>> /\ Head(pending).file = file
Written == pending' = Tail(pending)

WriteSecrets == /\ Writing("secrets") /\ Written
                /\ vault' = Stored(vault, Head(pending).put)
                /\ UNCHANGED <<auth, approval>>

WriteTarget == /\ Writing("target") /\ Written
               /\ auth' = Head(pending).profile
               /\ UNCHANGED <<vault, approval>>

MarkStatus == /\ Writing("facts") /\ Written
              /\ auth' = Marked(auth, Head(pending).fact)
              /\ UNCHANGED <<vault, approval>>

\* _invalidate_approvals
InvalidateApprovals == /\ Writing("plans") /\ Written
                       /\ approval' = NotRequested
                       /\ UNCHANGED <<auth, vault>>

Steps == WriteSecrets \/ WriteTarget \/ MarkStatus \/ InvalidateApprovals

\* The command is killed between two writes.
Crash == /\ pending # <<>>
         /\ pending' = <<>>
         /\ UNCHANGED <<auth, vault, approval>>

-----------------------------------------------------------------------------
(* The environment: the clock, and an approval of the plan for the context *)
(* the profile then has.                                                   *)

Expire == /\ pending = <<>> /\ auth.set
          /\ \/ auth.life = "fresh" /\ auth' = [auth EXCEPT !.life = "soon"]
             \/ auth.life = "soon"  /\ auth' = [auth EXCEPT !.life = "expired"]
          /\ UNCHANGED <<vault, approval, pending>>

ApproveContext ==
    /\ pending = <<>> /\ auth.set
    /\ approval' = [status |-> "APPROVED", record |-> [ctx |-> Context(auth)]]
    /\ UNCHANGED <<auth, vault, pending>>

AuthNext == Commands \/ Steps \/ Expire \/ ApproveContext

AuthSpec == AuthInit /\ [][AuthNext]_actorVars

\* The same with commands that may be killed.
AuthCrashSpec == AuthInit /\ [][AuthNext \/ Crash]_actorVars

-----------------------------------------------------------------------------

Idle == pending = <<>>

\* A profile that passes the execution preflight holds a credential of the
\* actor's own account, whatever was captured, renewed, refreshed or checked
\* before.
ReadyCredentialIsOwn ==
    Idle /\ ReadyToExecute(auth, vault) => vault["access"] = Self

\* docs/how-to-use.md: a changed authentication context invalidates the plan's
\* approval, and a verified renewal in the same context keeps it.
ApprovalMatchesContext ==
    Idle /\ approval.status = "APPROVED"
        => approval.record.ctx = Context(auth)

\* store_candidate: "Bind and atomically store a selected candidate, rejecting
\* cross-identity replacement."  A profile confirmed to be the actor's holds
\* the actor's credential, even after a capture was killed.  Refuted: the
\* secret is replaced before the profile that says whose it is.
StoreIsAtomic ==
    (Idle /\ auth.confirmed /\ auth.status = "READY" /\ vault["access"] # Nobody)
        => vault["access"] = Self

\* cli.py: clear is to "Remove only one actor's authentication".  No secret of
\* the actor is left behind a cleared profile.  Refuted: a capture made after
\* a refresh flow was configured forgets the reference of the refresh secret,
\* and clearing removes only what is still referenced.
ClearRemovesSecrets == (Idle /\ ~auth.set) => \A r \in Refs : vault[r] = Nobody
=============================================================================
