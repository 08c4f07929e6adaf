----------------------------- MODULE AuthProfile ----------------------------
(***************************************************************************)
(* finsec/auth/service.py: the redacted profile target.yaml keeps of one   *)
(* actor's authentication, the secrets the credential store keeps for it,  *)
(* and the file writes each authentication command makes, in their order.  *)
(*                                                                         *)
(* A secret is abstracted to the subject it belongs to.  The identity      *)
(* hints of a token (subject, roles, tenant) are abstracted to one value:  *)
(* the subject, when the token shows it.                                   *)
(***************************************************************************)
EXTENDS Naturals, Sequences

CONSTANTS Subjects,   \* the accounts a captured credential can belong to
          Self,       \* the account the actor of target.yaml stands for
          Candidates  \* credentials a capture can offer

ASSUME SubjectsAssumption ==
    /\ Self \in Subjects
    /\ Subjects \cap {"unknown", "none"} = {}

VARIABLES auth,    \* the actor's profile in target.yaml
          vault,   \* the credential store
          approval \* approval_status and approval of the actor's plan

Unknown == "unknown"  \* an opaque token: no identity hint
Nobody  == "none"     \* no secret stored, no context
Hints   == Subjects \cup {Unknown}
Owners  == Subjects \cup {Nobody}
Refs    == {"access", "refresh"}   \* credential references of the actor
Lifetimes == {"fresh", "soon", "expired"}

\* A candidate comes from a capture; renewal is the researcher's claim that it
\* renews the same session.
ASSUME CandidatesAssumption ==
    /\ Candidates \subseteq [owner : Subjects, hint : Hints, life : Lifetimes,
                             baseline : BOOLEAN, renewal : BOOLEAN]
    /\ \A c \in Candidates : c.hint \in {c.owner, Unknown}

Statuses == {"MISSING", "AVAILABLE_NOT_VALIDATED", "READY", "INVALID",
             "EXPIRING_SOON", "EXPIRED", "REFRESH_FAILED",
             "AUTH_CONTEXT_CHANGED"}
Blocking == {"MISSING", "EXPIRED", "INVALID", "REFRESH_FAILED",
             "AUTH_CONTEXT_CHANGED"}

Profiles == [set : BOOLEAN,       \* auth_type is neither none nor unconfigured
             hint : Hints,        \* identity
             life : Lifetimes,    \* expiration, against the clock
             status : Statuses,
             accepted : BOOLEAN, scoped : BOOLEAN, confirmed : BOOLEAN,
             baseline : BOOLEAN,  \* a read-only baseline was observed
             flow : BOOLEAN,      \* refresh.configured
             parts : SUBSET Refs] \* components
Vaults == [Refs -> Owners]

\* missing_authentication
Missing == [set |-> FALSE, hint |-> Unknown, life |-> "fresh",
            status |-> "MISSING", accepted |-> FALSE, scoped |-> FALSE,
            confirmed |-> FALSE, baseline |-> FALSE, flow |-> FALSE,
            parts |-> {}]

\* context_fingerprint: a digest of the identity hints, absent without profile.
Context(a) == IF a.set THEN a.hint ELSE Nobody
Contexts == Hints \cup {Nobody}

\* _identity_continuity
Continuity(before, after) ==
    IF Unknown \in {before, after} THEN "UNKNOWN"
    ELSE IF before = after THEN "CONFIRMED" ELSE "CHANGED"

\* _status_for_expiration
StatusFor(life, otherwise) ==
    CASE life = "expired" -> "EXPIRED"
      [] life = "soon"    -> "EXPIRING_SOON"
      [] OTHER            -> otherwise

-----------------------------------------------------------------------------
(* actor_preflight *)

Available(a, v) == "access" \in a.parts /\ v["access"] # Nobody

\* The lifetime is looked at before the recorded status, and hides it.
PreflightStatus(a, v) ==
    IF Available(a, v) THEN StatusFor(a.life, a.status) ELSE "MISSING"

ReadyToPlan(a, v) == PreflightStatus(a, v) \notin Blocking

\* Faulty: the identity of the credential need not be confirmed.
ReadyUnconfirmed(a, v) ==
    /\ ReadyToPlan(a, v)
    /\ PreflightStatus(a, v) # "EXPIRING_SOON"
    /\ a.accepted /\ a.scoped

ReadyToExecute(a, v) ==
    /\ ReadyToPlan(a, v)
    /\ PreflightStatus(a, v) # "EXPIRING_SOON"
    /\ a.accepted /\ a.scoped /\ a.confirmed

-----------------------------------------------------------------------------
(* The writes of a command.  Each replaces one file: the secret store, the  *)
(* target document as the command loaded and changed it, the facts of one  *)
(* classified response applied to the document as it is then, or the plans *)
(* with their approvals invalidated.                                       *)

Facts == {"login", "matched", "confirmed", "unexpected", "ran", "refused"}

PutSecret(ref, owner) == [file |-> "secrets", put |-> {<<ref, owner>>}]
DropSecrets(refs)     == [file |-> "secrets", put |-> refs \X {Nobody}]
PutTarget(a)          == [file |-> "target", profile |-> a]
PutFact(f)            == [file |-> "facts", fact |-> f]
Invalidate            == [file |-> "plans"]

Puts == SUBSET (Refs \X Owners)
Writes == [file : {"secrets"}, put : Puts] \cup [file : {"target"}, profile : Profiles]
            \cup [file : {"facts"}, fact : Facts] \cup [file : {"plans"}]

\* put_many, remove
Stored(v, put) ==
    [r \in Refs |-> IF \E o \in Owners : <<r, o>> \in put
                      THEN CHOOSE o \in Owners : <<r, o>> \in put ELSE v[r]]

\* mark_authentication_status, for the responses the baseline check and the
\* execution runner ("ran", "refused") tell apart.
Marked(a, f) ==
    CASE f = "login" ->
           [a EXCEPT !.status = "INVALID", !.accepted = FALSE, !.scoped = TRUE,
                     !.confirmed = FALSE]
      [] f \in {"matched", "confirmed"} ->
           [a EXCEPT !.status = "READY", !.accepted = TRUE, !.scoped = TRUE,
                     !.confirmed = (f = "confirmed")]
      [] f = "unexpected" ->
           [a EXCEPT !.status = "AVAILABLE_NOT_VALIDATED", !.accepted = FALSE,
                     !.scoped = TRUE, !.confirmed = FALSE]
      [] f = "ran" ->
           [a EXCEPT !.status = "READY", !.accepted = TRUE, !.scoped = TRUE]
      [] f = "refused" ->
           [a EXCEPT !.status = "INVALID", !.accepted = FALSE,
                     !.confirmed = FALSE]

\* Faulty: the confirmation of the credential before is carried over.
StoredStillConfirmed(a, c) ==
    [set |-> TRUE, hint |-> c.hint, life |-> c.life,
     status |-> StatusFor(c.life, IF c.baseline THEN "READY"
                                  ELSE "AVAILABLE_NOT_VALIDATED"),
     accepted |-> c.baseline, scoped |-> c.baseline, confirmed |-> a.confirmed,
     baseline |-> c.baseline, flow |-> a.flow, parts |-> {"access"}]

\* store_candidate
StoredProfile(a, c) ==
    [set |-> TRUE, hint |-> c.hint, life |-> c.life,
     status |-> StatusFor(c.life, IF c.baseline THEN "READY"
                                  ELSE "AVAILABLE_NOT_VALIDATED"),
     accepted |-> c.baseline, scoped |-> c.baseline, confirmed |-> FALSE,
     baseline |-> c.baseline, flow |-> a.flow, parts |-> {"access"}]

Changed(a) == [a EXCEPT !.status = "AUTH_CONTEXT_CHANGED"]

\* Faulty: a claimed renewal keeps the approvals whatever context it shows.
StoreKeepingApprovals(a, c) ==
    LET base == <<PutSecret("access", c.owner), PutTarget(StoredProfile(a, c))>>
    IN  IF a.set /\ Continuity(a.hint, c.hint) = "CHANGED"
          THEN <<PutTarget(Changed(a)), Invalidate>>
        ELSE IF a.set /\ ~c.renewal THEN base \o <<Invalidate>> ELSE base

StoreWrites(a, c) ==
    LET new == StoredProfile(a, c)
        base == <<PutSecret("access", c.owner), PutTarget(new)>>
    IN  IF a.set /\ Continuity(a.hint, c.hint) = "CHANGED"
          THEN <<PutTarget(Changed(a)), Invalidate>>
        ELSE IF a.set /\ Continuity(a.hint, c.hint) = "UNKNOWN" /\ ~c.renewal
          THEN base \o <<PutTarget(Changed(new)), Invalidate>>
        ELSE IF a.set /\ Context(a) # Context(new)
          THEN base \o <<Invalidate>>
        ELSE base

\* clear_authentication: only the components the profile still names.
ClearWrites(a) == <<DropSecrets(a.parts), PutTarget(Missing), Invalidate>>

\* configure_refresh_from_har
ConfigureWrites(a, owner) ==
    <<PutSecret("refresh", owner),
      PutTarget([a EXCEPT !.flow = TRUE, !.parts = @ \cup {"refresh"}])>>

\* refresh_actor_authentication, once the observed request was answered with
\* a token of the refresh credential's owner showing the given hint.
Unvalidated(a, life) ==
    [a EXCEPT !.life = life, !.accepted = FALSE, !.scoped = FALSE]

\* Faulty: a refresh in the same context keeps the validation.
RefreshKeepingValidation(a, owner, hint, life) ==
    IF Continuity(a.hint, hint) = "CONFIRMED"
      THEN <<PutSecret("access", owner),
             PutTarget([a EXCEPT !.life = life, !.status = StatusFor(life, a.status)])>>
      ELSE <<PutTarget(Changed(a)), Invalidate>>

RefreshWrites(a, owner, hint, life) ==
    CASE Continuity(a.hint, hint) = "CHANGED" ->
           <<PutTarget(Changed(a)), Invalidate>>
      [] Continuity(a.hint, hint) = "CONFIRMED" ->
           <<PutSecret("access", owner),
             PutTarget([Unvalidated(a, life) EXCEPT
                          !.hint = hint, !.confirmed = FALSE,
                          !.status = StatusFor(life, "AVAILABLE_NOT_VALIDATED")])>>
      [] OTHER ->
           <<PutSecret("access", owner), Invalidate,
             PutTarget(Changed(Unvalidated(a, life)))>>

RefreshFailedWrites(a) == <<PutTarget([a EXCEPT !.status = "REFRESH_FAILED"])>>

CanRefresh(a, v) == a.flow /\ "refresh" \in a.parts /\ v["refresh"] # Nobody

\* Where a command's writes lead when nothing interferes with them.
Latest(S) == CHOOSE i \in S : \A j \in S : j <= i
WritesOf(ws, files) == {i \in DOMAIN ws : ws[i].file \in files}

VaultAfter(v, ws) ==
    LET S == WritesOf(ws, {"secrets"}) IN
    IF S = {} THEN v ELSE Stored(v, ws[Latest(S)].put)

AuthAfter(a, ws) ==
    LET S == WritesOf(ws, {"target", "facts"}) IN
    IF S = {} THEN a
    ELSE IF ws[Latest(S)].file = "target" THEN ws[Latest(S)].profile
    ELSE Marked(a, ws[Latest(S)].fact)

Invalidates(ws) == WritesOf(ws, {"plans"}) # {}
=============================================================================
