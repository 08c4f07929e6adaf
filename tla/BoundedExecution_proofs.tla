----------------------- MODULE BoundedExecution_proofs ----------------------
(***************************************************************************)
(* Proofs about the credential of an actor, the approval gate and the      *)
(* runner, for every set of accounts, captured credentials, policies and   *)
(* inputs and any number of executions, killed at any step or not.  In     *)
(* five parts: what the authentication commands guarantee once they ended; *)
(* nothing is sent which the researcher did not approve; the gate          *)
(* implements AuthorityGate; a credential sent is the actor's own when     *)
(* nothing else runs; the files an execution leaves can be trusted.        *)
(***************************************************************************)
EXTENDS BoundedExecution, ActorAuth, SequenceTheorems, FiniteSetTheorems, TLAPS

-----------------------------------------------------------------------------
(***************************************************************************)
(* Proof of what the authentication commands guarantee once they ended,    *)
(* for any accounts and any captured credentials.  Between two writes of a *)
(* command neither property holds; what is invariant is that the writes    *)
(* still pending lead to a state in which both do.                         *)
(***************************************************************************)

-----------------------------------------------------------------------------
(* What the writes of a command leave behind: whatever the command, a      *)
(* profile stays a profile and a credential store a store.                 *)

\* A captured or entered credential.
CandidateType == [owner : Subjects, hint : Hints, life : Lifetimes,
                  baseline : BOOLEAN, renewal : BOOLEAN]

\* At most four writes, of the four kinds.
WriteLists == {ws \in Seq(Writes) : Len(ws) <= 4}

LEMMA LatestIn ==
    ASSUME NEW S \in SUBSET (1..4), S # {}
    PROVE  Latest(S) \in S /\ \A j \in S : j <= Latest(S)
<1>1. \A i \in S : i \in {1, 2, 3, 4}
  OBVIOUS
<1>2. \E i \in S : \A j \in S : j <= i
  <2>1. CASE 4 \in S
    BY <2>1, <1>1
  <2>2. CASE 4 \notin S /\ 3 \in S
    BY <2>2, <1>1
  <2>3. CASE 4 \notin S /\ 3 \notin S /\ 2 \in S
    BY <2>3, <1>1
  <2>4. CASE 4 \notin S /\ 3 \notin S /\ 2 \notin S
    <3>1. S = {1}
      BY <2>4, <1>1
    <3> QED  BY <3>1
  <2> QED  BY <2>1, <2>2, <2>3, <2>4
<1> QED  BY <1>2 DEF Latest

LEMMA MarkedType ==
    ASSUME NEW a \in Profiles, NEW f \in Facts
    PROVE  Marked(a, f) \in Profiles
  BY DEF Profiles, Statuses, Facts, Marked

\* The writes of a file, and the last of them.
LEMMA WritesOfType ==
    ASSUME NEW ws \in WriteLists, NEW files
    PROVE  /\ WritesOf(ws, files) \in SUBSET (1..4)
           /\ \A i \in WritesOf(ws, files) : ws[i] \in Writes /\ ws[i].file \in files
  BY DEF WriteLists, WritesOf

LEMMA AuthAfterType ==
    ASSUME NEW a \in Profiles, NEW ws \in WriteLists
    PROVE  AuthAfter(a, ws) \in Profiles
<1> DEFINE S == WritesOf(ws, {"target", "facts"})
<1>1. CASE S = {}
  BY <1>1 DEF AuthAfter
<1>2. CASE S # {}
  <2>1. Latest(S) \in S
    BY <1>2, LatestIn, WritesOfType
  <2>2. ws[Latest(S)] \in Writes /\ ws[Latest(S)].file \in {"target", "facts"}
    BY <2>1, WritesOfType
  <2>3. CASE ws[Latest(S)].file = "target"
    <3>1. ws[Latest(S)].profile \in Profiles
      BY <2>2, <2>3 DEF Writes
    <3> QED  BY <1>2, <2>3, <3>1 DEF AuthAfter
  <2>4. CASE ws[Latest(S)].file = "facts"
    <3>1. ws[Latest(S)].fact \in Facts
      BY <2>2, <2>4 DEF Writes
    <3> QED  BY <1>2, <2>4, <3>1, MarkedType DEF AuthAfter
  <2> QED  BY <2>2, <2>3, <2>4
<1> QED  BY <1>1, <1>2

LEMMA StoredType ==
    ASSUME NEW v \in Vaults, NEW put
    PROVE  Stored(v, put) \in Vaults
  BY DEF Vaults, Stored

LEMMA VaultAfterType ==
    ASSUME NEW v \in Vaults, NEW ws
    PROVE  VaultAfter(v, ws) \in Vaults
  BY StoredType DEF VaultAfter

-----------------------------------------------------------------------------
\* The single writes.
LEMMA WriteTypes ==
    /\ \A r \in Refs, o \in Owners : PutSecret(r, o) \in Writes
    /\ \A refs \in SUBSET Refs : DropSecrets(refs) \in Writes
    /\ \A a \in Profiles : PutTarget(a) \in Writes
    /\ \A f \in Facts : PutFact(f) \in Writes
    /\ Invalidate \in Writes
  BY DEF PutSecret, DropSecrets, PutTarget, PutFact, Invalidate, Writes, Puts, Owners

LEMMA StoredProfileType ==
    ASSUME NEW a \in Profiles, NEW c \in CandidateType
    PROVE  StoredProfile(a, c) \in Profiles
  BY DEF StoredProfile, CandidateType, Profiles, StatusFor, Statuses, Refs, Lifetimes

LEMMA ChangedType ==
    ASSUME NEW a \in Profiles
    PROVE  Changed(a) \in Profiles
  BY DEF Changed, Profiles, Statuses

LEMMA MissingType == Missing \in Profiles
  BY DEF Missing, Profiles, Hints, Lifetimes, Statuses, Refs

LEMMA UnvalidatedType ==
    ASSUME NEW a \in Profiles, NEW life \in Lifetimes
    PROVE  Unvalidated(a, life) \in Profiles
  BY DEF Unvalidated, Profiles

LEMMA Short ==
    /\ \A x \in Writes : <<x>> \in WriteLists
    /\ \A x, y \in Writes : <<x, y>> \in WriteLists
    /\ \A x, y, z \in Writes : <<x, y, z>> \in WriteLists
    /\ \A x, y, z, u \in Writes : <<x, y, z, u>> \in WriteLists
  BY DEF WriteLists

LEMMA Concatenated ==
    ASSUME NEW ws \in Seq(Writes), NEW vs \in Seq(Writes), Len(ws) + Len(vs) <= 4
    PROVE  ws \o vs \in WriteLists
  BY DEF WriteLists

-----------------------------------------------------------------------------
(* Every command                                                           *)

LEMMA StoreType ==
    ASSUME NEW a \in Profiles, NEW c \in CandidateType
    PROVE  StoreWrites(a, c) \in WriteLists
<1> DEFINE new == StoredProfile(a, c)
           put == PutSecret("access", c.owner)
           keep == PutTarget(new)
<1>1. /\ put \in Writes /\ keep \in Writes /\ Invalidate \in Writes
      /\ PutTarget(Changed(a)) \in Writes /\ PutTarget(Changed(new)) \in Writes
  <2>1. c.owner \in Owners /\ "access" \in Refs
    BY DEF CandidateType, Owners, Refs
  <2> QED  BY <2>1, WriteTypes, StoredProfileType, ChangedType
<1>2. <<put, keep>> \in WriteLists /\ <<PutTarget(Changed(a)), Invalidate>> \in WriteLists
  BY <1>1, Short
<1> DEFINE base == <<put, keep>>
           rest == <<PutTarget(Changed(new)), Invalidate>>
           last == <<Invalidate>>
<1>3. /\ base \in Seq(Writes) /\ Len(base) = 2
      /\ rest \in Seq(Writes) /\ Len(rest) = 2
      /\ last \in Seq(Writes) /\ Len(last) = 1
  BY <1>1
<1>4. base \o rest \in WriteLists /\ base \o last \in WriteLists
  <2>1. Len(base) + Len(rest) <= 4 /\ Len(base) + Len(last) <= 4
    BY <1>3
  <2> HIDE DEF base, rest, last
  <2>2. base \o rest \in WriteLists
    BY <1>3, <2>1, Concatenated, Zenon
  <2>3. base \o last \in WriteLists
    BY <1>3, <2>1, Concatenated, Zenon
  <2> QED  BY <2>2, <2>3
<1> QED  BY <1>2, <1>4 DEF StoreWrites

LEMMA ClearType ==
    ASSUME NEW a \in Profiles
    PROVE  ClearWrites(a) \in WriteLists
<1>1. a.parts \in SUBSET Refs
  BY DEF Profiles
<1> QED  BY <1>1, WriteTypes, MissingType, Short DEF ClearWrites

LEMMA ConfigureType ==
    ASSUME NEW a \in Profiles, NEW o \in Subjects
    PROVE  ConfigureWrites(a, o) \in WriteLists
<1>1. [a EXCEPT !.flow = TRUE, !.parts = @ \cup {"refresh"}] \in Profiles
  BY DEF Profiles, Refs
<1>2. "refresh" \in Refs /\ o \in Owners
  BY DEF Refs, Owners
<1> QED  BY <1>1, <1>2, WriteTypes, Short DEF ConfigureWrites

LEMMA RefreshType ==
    ASSUME NEW a \in Profiles, NEW o \in Owners, NEW h \in Hints, NEW l \in Lifetimes
    PROVE  RefreshWrites(a, o, h, l) \in WriteLists
<1> DEFINE confirmed == [Unvalidated(a, l) EXCEPT
                           !.hint = h, !.confirmed = FALSE,
                           !.status = StatusFor(l, "AVAILABLE_NOT_VALIDATED")]
<1>1. confirmed \in Profiles
  <2>1. StatusFor(l, "AVAILABLE_NOT_VALIDATED") \in Statuses
    BY DEF StatusFor, Statuses
  <2>2. \A u \in Profiles, st \in Statuses :
            [u EXCEPT !.hint = h, !.confirmed = FALSE, !.status = st] \in Profiles
    BY DEF Profiles
  <2> QED  BY <2>1, <2>2, UnvalidatedType
<1>2. /\ PutTarget(Changed(a)) \in Writes /\ PutSecret("access", o) \in Writes
      /\ PutTarget(confirmed) \in Writes /\ Invalidate \in Writes
      /\ PutTarget(Changed(Unvalidated(a, l))) \in Writes
  BY <1>1, WriteTypes, ChangedType, UnvalidatedType DEF Refs
<1> QED  BY <1>2, Short DEF RefreshWrites

LEMMA RefreshFailedType ==
    ASSUME NEW a \in Profiles
    PROVE  RefreshFailedWrites(a) \in WriteLists
<1>1. [a EXCEPT !.status = "REFRESH_FAILED"] \in Profiles
  BY DEF Profiles, Statuses
<1> QED  BY <1>1, WriteTypes, Short DEF RefreshFailedWrites

LEMMA FactType ==
    ASSUME NEW f \in Facts
    PROVE  <<PutFact(f)>> \in WriteLists
  BY WriteTypes, Short

-----------------------------------------------------------------------------
(* Where a command leads: the last write of a file decides.                *)

LEMMA LatestIs ==
    ASSUME NEW S \in SUBSET Nat, NEW i \in S, \A j \in S : j <= i
    PROVE  Latest(S) = i
<1>1. \A k \in S : (\A j \in S : j <= k) => k = i
  OBVIOUS
<1> QED  BY <1>1 DEF Latest

LEMMA LastTarget ==
    ASSUME NEW a, NEW ws \in Seq(Writes), NEW i \in 1..Len(ws),
           ws[i].file = "target",
           \A j \in 1..Len(ws) : j > i => ws[j].file \notin {"target", "facts"}
    PROVE  AuthAfter(a, ws) = ws[i].profile
<1> DEFINE S == WritesOf(ws, {"target", "facts"})
<1>1. S \in SUBSET Nat /\ i \in S /\ \A j \in S : j <= i
  BY DEF WritesOf
<1>2. Latest(S) = i
  BY <1>1, LatestIs
<1> QED  BY <1>1, <1>2 DEF AuthAfter

LEMMA LastFact ==
    ASSUME NEW a, NEW f \in Facts
    PROVE  AuthAfter(a, <<PutFact(f)>>) = Marked(a, f)
<1> DEFINE S == WritesOf(<<PutFact(f)>>, {"target", "facts"})
<1>1. S = {1}
  BY DEF WritesOf, PutFact
<1>2. Latest(S) = 1
  BY <1>1, LatestIs
<1> QED  BY <1>1, <1>2 DEF AuthAfter, PutFact

LEMMA LastSecret ==
    ASSUME NEW v, NEW ws \in Seq(Writes), NEW i \in 1..Len(ws),
           ws[i].file = "secrets",
           \A j \in 1..Len(ws) : j > i => ws[j].file # "secrets"
    PROVE  VaultAfter(v, ws) = Stored(v, ws[i].put)
<1> DEFINE S == WritesOf(ws, {"secrets"})
<1>1. S \in SUBSET Nat /\ i \in S /\ \A j \in S : j <= i
  BY DEF WritesOf
<1>2. Latest(S) = i
  BY <1>1, LatestIs
<1> QED  BY <1>1, <1>2 DEF VaultAfter

LEMMA NoSecret ==
    ASSUME NEW v, NEW ws \in Seq(Writes),
           \A j \in 1..Len(ws) : ws[j].file # "secrets"
    PROVE  VaultAfter(v, ws) = v
  BY DEF VaultAfter, WritesOf

\* A profile the baseline check confirmed stands for the actor's own account.
Own(a, v) == a.accepted /\ a.confirmed => v["access"] = Self

\* Where a command leads from a profile and a store.
Leads(a, v, ws) == Own(AuthAfter(a, ws), VaultAfter(v, ws))

\* A stored candidate is unconfirmed, a rejected one leaves all as it was.
LEMMA StoreLeads ==
    ASSUME NEW a \in Profiles, NEW v \in Vaults, NEW c \in CandidateType, Own(a, v)
    PROVE  Leads(a, v, StoreWrites(a, c))
<1> DEFINE ws == StoreWrites(a, c)
           new == StoredProfile(a, c)
<1>0. ws \in Seq(Writes)
  BY StoreType DEF WriteLists
<1>1. ~new.confirmed /\ ~Changed(new).confirmed
  BY DEF StoredProfile, Changed
<1>2. CASE a.set /\ Continuity(a.hint, c.hint) = "CHANGED"
  <2>1. ws = <<PutTarget(Changed(a)), Invalidate>>
    BY <1>2 DEF StoreWrites
  <2>2. Len(ws) = 2 /\ ws[1] = PutTarget(Changed(a)) /\ ws[2].file = "plans"
    BY <2>1 DEF Invalidate
  <2>3. AuthAfter(a, ws) = Changed(a) /\ VaultAfter(v, ws) = v
    BY <1>0, <2>2, LastTarget, NoSecret DEF PutTarget
  <2>4. Own(Changed(a), v)
    BY DEF Own, Changed, Profiles
  <2> QED  BY <2>3, <2>4 DEF Leads
<1>3. CASE ~(a.set /\ Continuity(a.hint, c.hint) = "CHANGED")
  <2>1. \/ ws = <<PutSecret("access", c.owner), PutTarget(new)>>
                  \o <<PutTarget(Changed(new)), Invalidate>>
        \/ ws = <<PutSecret("access", c.owner), PutTarget(new)>> \o <<Invalidate>>
        \/ ws = <<PutSecret("access", c.owner), PutTarget(new)>>
    BY <1>3 DEF StoreWrites
  <2>2. \/ /\ Len(ws) = 4 /\ ws[3] = PutTarget(Changed(new)) /\ ws[4].file = "plans"
        \/ /\ Len(ws) = 3 /\ ws[2] = PutTarget(new) /\ ws[3].file = "plans"
        \/ /\ Len(ws) = 2 /\ ws[2] = PutTarget(new)
    BY <2>1 DEF Invalidate
  <2>3. AuthAfter(a, ws) \in {new, Changed(new)}
    BY <1>0, <2>2, LastTarget DEF PutTarget
  <2> QED  BY <1>1, <2>3 DEF Leads, Own
<1> QED  BY <1>2, <1>3

LEMMA ClearLeads ==
    ASSUME NEW a \in Profiles, NEW v
    PROVE  Leads(a, v, ClearWrites(a))
<1> DEFINE ws == ClearWrites(a)
<1>1. ws \in Seq(Writes)
  BY ClearType DEF WriteLists
<1>2. Len(ws) = 3 /\ ws[2] = PutTarget(Missing) /\ ws[3].file = "plans"
  BY DEF ClearWrites, Invalidate
<1>3. AuthAfter(a, ws) = Missing
  BY <1>1, <1>2, LastTarget DEF PutTarget
<1> QED  BY <1>3 DEF Leads, Own, Missing

LEMMA ConfigureLeads ==
    ASSUME NEW a \in Profiles, NEW v \in Vaults, NEW o \in Subjects, Own(a, v)
    PROVE  Leads(a, v, ConfigureWrites(a, o))
<1> DEFINE ws == ConfigureWrites(a, o)
           new == [a EXCEPT !.flow = TRUE, !.parts = @ \cup {"refresh"}]
<1>1. ws \in Seq(Writes)
  BY ConfigureType DEF WriteLists
<1>2. Len(ws) = 2 /\ ws[1] = PutSecret("refresh", o) /\ ws[2] = PutTarget(new)
  BY DEF ConfigureWrites
<1>3. AuthAfter(a, ws) = new
  BY <1>1, <1>2, LastTarget DEF PutTarget
<1>4. VaultAfter(v, ws) = Stored(v, {<<"refresh", o>>})
  <2>1. /\ ws[1].file = "secrets" /\ ws[1].put = {<<"refresh", o>>}
        /\ ws[2].file = "target"
    BY <1>2 DEF PutTarget, PutSecret
  <2>2. Len(ws) = 2
    BY <1>2
  <2> HIDE DEF ws, new
  <2>3. \A j \in 1..Len(ws) : j > 1 => ws[j].file # "secrets"
    BY <2>1, <2>2
  <2>4. 1 \in 1..Len(ws) /\ ws \in Seq(Writes)
    BY <1>1, <2>2
  <2>5. VaultAfter(v, ws) = Stored(v, ws[1].put)
    BY <2>1, <2>3, <2>4, LastSecret
  <2> QED  BY <2>1, <2>5
<1>5. Stored(v, {<<"refresh", o>>})["access"] = v["access"]
  BY DEF Stored, Refs
<1>6. new.accepted = a.accepted /\ new.confirmed = a.confirmed
  BY DEF Profiles
<1> QED  BY <1>3, <1>4, <1>5, <1>6 DEF Leads, Own

\* A refresh drops the acceptance, unless it shows another identity: then it
\* only marks the profile.
LEMMA RefreshOutcome ==
    ASSUME NEW a \in Profiles, NEW v, NEW o \in Owners, NEW h \in Hints,
           NEW l \in Lifetimes
    PROVE  LET ws == RefreshWrites(a, o, h, l)
           IN  IF Continuity(a.hint, h) = "CHANGED"
                 THEN AuthAfter(a, ws) = Changed(a) /\ VaultAfter(v, ws) = v
                 ELSE ~AuthAfter(a, ws).accepted
<1> DEFINE ws == RefreshWrites(a, o, h, l)
<1>0. ws \in Seq(Writes)
  BY RefreshType DEF WriteLists
<1>1. CASE Continuity(a.hint, h) = "CHANGED"
  <2>1. ws = <<PutTarget(Changed(a)), Invalidate>>
    BY <1>1 DEF RefreshWrites
  <2>2. Len(ws) = 2 /\ ws[1] = PutTarget(Changed(a)) /\ ws[2].file = "plans"
    BY <2>1 DEF Invalidate
  <2>3. AuthAfter(a, ws) = Changed(a) /\ VaultAfter(v, ws) = v
    BY <1>0, <2>2, LastTarget, NoSecret DEF PutTarget
  <2> QED  BY <1>1, <2>3
<1>2. CASE Continuity(a.hint, h) = "CONFIRMED"
  <2> DEFINE new == [Unvalidated(a, l) EXCEPT
                       !.hint = h, !.confirmed = FALSE,
                       !.status = StatusFor(l, "AVAILABLE_NOT_VALIDATED")]
  <2>1. ws = <<PutSecret("access", o), PutTarget(new)>>
    BY <1>2 DEF RefreshWrites
  <2>2. Len(ws) = 2 /\ ws[2] = PutTarget(new)
    BY <2>1
  <2>3. AuthAfter(a, ws) = new
    BY <1>0, <2>2, LastTarget DEF PutTarget
  <2>4. ~new.accepted
    BY DEF Unvalidated, Profiles
  <2> QED  BY <1>2, <2>3, <2>4
<1>3. CASE Continuity(a.hint, h) \notin {"CHANGED", "CONFIRMED"}
  <2> DEFINE new == Changed(Unvalidated(a, l))
  <2>1. ws = <<PutSecret("access", o), Invalidate, PutTarget(new)>>
    BY <1>3 DEF RefreshWrites
  <2>2. Len(ws) = 3 /\ ws[3] = PutTarget(new)
    BY <2>1
  <2>3. AuthAfter(a, ws) = new
    BY <1>0, <2>2, LastTarget DEF PutTarget
  <2>4. ~new.accepted
    BY DEF Unvalidated, Changed, Profiles
  <2> QED  BY <1>3, <2>3, <2>4
<1> QED  BY <1>1, <1>2, <1>3

LEMMA RefreshLeads ==
    ASSUME NEW a \in Profiles, NEW v \in Vaults, NEW o \in Owners, NEW h \in Hints,
           NEW l \in Lifetimes, Own(a, v)
    PROVE  Leads(a, v, RefreshWrites(a, o, h, l))
<1>1. Own(Changed(a), v)
  BY DEF Own, Changed, Profiles
<1> QED  BY <1>1, RefreshOutcome DEF Leads, Own

LEMMA RefreshFailedLeads ==
    ASSUME NEW a \in Profiles, NEW v \in Vaults, Own(a, v)
    PROVE  Leads(a, v, RefreshFailedWrites(a))
<1> DEFINE ws == RefreshFailedWrites(a)
           new == [a EXCEPT !.status = "REFRESH_FAILED"]
<1>1. ws \in Seq(Writes)
  BY RefreshFailedType DEF WriteLists
<1>2. Len(ws) = 1 /\ ws[1] = PutTarget(new)
  BY DEF RefreshFailedWrites
<1>3. AuthAfter(a, ws) = new /\ VaultAfter(v, ws) = v
  BY <1>1, <1>2, LastTarget, NoSecret DEF PutTarget
<1>4. Own(new, v)
  BY DEF Own, Profiles
<1> QED  BY <1>3, <1>4 DEF Leads

\* Only the actor's own credential passes the identity assertion.
LEMMA FactLeads ==
    ASSUME NEW a \in Profiles, NEW v \in Vaults,
           NEW f \in {"login", "matched", "confirmed", "unexpected"},
           f = "confirmed" => v["access"] = Self
    PROVE  Leads(a, v, <<PutFact(f)>>)
<1>1. f \in Facts /\ <<PutFact(f)>> \in Seq(Writes)
  BY FactType DEF Facts, WriteLists
<1>2. AuthAfter(a, <<PutFact(f)>>) = Marked(a, f)
  BY <1>1, LastFact
<1>3. VaultAfter(v, <<PutFact(f)>>) = v
  <2> DEFINE ws == <<PutFact(f)>>
  <2>1. ws \in Seq(Writes) /\ Len(ws) = 1 /\ ws[1].file = "facts"
    BY <1>1 DEF PutFact
  <2> HIDE DEF ws
  <2>2. VaultAfter(v, ws) = v
    BY <2>1, NoSecret
  <2> QED  BY <2>2 DEF ws
<1>4. Own(Marked(a, f), v)
  <2>1. CASE f = "confirmed"
    BY <2>1 DEF Own
  <2>2. CASE f # "confirmed"
    <3>1. ~Marked(a, f).confirmed
      BY <2>2 DEF Marked, Profiles
    <3> QED  BY <3>1 DEF Own
  <2> QED  BY <2>1, <2>2
<1> QED  BY <1>2, <1>3, <1>4 DEF Leads

-----------------------------------------------------------------------------
(* The invariant                                                           *)

\* No command writes the secrets twice, or a fact after anything else.
Tidy(ws) ==
    \A i, j \in 1..Len(ws) :
        i < j => /\ ws[j].file # "facts"
                 /\ ws[i].file # "secrets" \/ ws[j].file # "secrets"

\* The command replaces the plans without approval, or leaves the context.
KeepsContext(a, ws) ==
    Invalidates(ws)
        \/ (a.set => AuthAfter(a, ws).set /\ Context(AuthAfter(a, ws)) = Context(a))

\* An approval the pending writes leave is one for the context they lead to.
ApprovalStays ==
    approval.status = "APPROVED" /\ ~Invalidates(pending)
        => /\ AuthAfter(auth, pending).set
           /\ approval.record.ctx = Context(AuthAfter(auth, pending))

AuthInv == /\ auth \in Profiles /\ vault \in Vaults
           /\ pending \in WriteLists /\ Tidy(pending)
           /\ Leads(auth, vault, pending)
           /\ ApprovalStays

-----------------------------------------------------------------------------
(* A pending write                                                         *)

LEMMA NothingPending ==
    /\ \A a : AuthAfter(a, <<>>) = a
    /\ \A v : VaultAfter(v, <<>>) = v
    /\ ~Invalidates(<<>>)
<1>1. \A files : WritesOf(<<>>, files) = {}
  BY DEF WritesOf
<1> QED  BY <1>1 DEF AuthAfter, VaultAfter, Invalidates

LEMMA TailFacts ==
    ASSUME NEW ws \in WriteLists, ws # <<>>
    PROVE  /\ ws \in Seq(Writes) /\ Len(ws) \in 1..4
           /\ Head(ws) = ws[1]
           /\ Tail(ws) \in Seq(Writes) /\ Len(Tail(ws)) = Len(ws) - 1
           /\ \A i \in 1..Len(Tail(ws)) : Tail(ws)[i] = ws[i + 1]
<1>1. ws \in Seq(Writes) /\ Len(ws) <= 4
  BY DEF WriteLists
<1>2. Len(ws) \in 1..4
  <2>1. Len(ws) \in Nat \ {0}
    BY <1>1, EmptySeq
  <2>2. \A n \in Nat \ {0} : n <= 4 => n \in 1..4
    OBVIOUS
  <2> QED  BY <1>1, <2>1, <2>2
<1> QED  BY <1>1, <1>2, HeadTailProperties

\* The last write of a file stays the last while others are made before it.
LEMMA LastStays ==
    ASSUME NEW ws \in WriteLists, ws # <<>>, NEW files
    PROVE  LET S == WritesOf(ws, files)
               T == WritesOf(Tail(ws), files)
           IN  /\ T = {} => S = (IF ws[1].file \in files THEN {1} ELSE {})
               /\ T # {} => S # {} /\ ws[Latest(S)] = Tail(ws)[Latest(T)]
<1> DEFINE S == WritesOf(ws, files)
           T == WritesOf(Tail(ws), files)
<1>1. /\ ws \in Seq(Writes) /\ Len(ws) \in 1..4
      /\ Tail(ws) \in Seq(Writes) /\ Len(Tail(ws)) = Len(ws) - 1
      /\ \A i \in 1..Len(Tail(ws)) : Tail(ws)[i] = ws[i + 1]
  BY TailFacts
<1>2. /\ S = {i \in 1..Len(ws) : ws[i].file \in files}
      /\ T = {i \in 1..(Len(ws) - 1) : ws[i + 1].file \in files}
  BY <1>1 DEF WritesOf
<1>3. CASE T = {}
  <2>1. \A i \in 2..Len(ws) : ws[i].file \notin files
    <3>1. \A i \in 2..Len(ws) : i - 1 \in 1..(Len(ws) - 1) /\ (i - 1) + 1 = i
      BY <1>1
    <3> QED  BY <1>2, <1>3, <3>1
  <2> QED  BY <1>1, <1>2, <1>3, <2>1
<1>4. CASE T # {}
  <2>1. T \in SUBSET (1..4)
    BY <1>1, <1>2
  <2>2. Latest(T) \in T /\ \A j \in T : j <= Latest(T)
    BY <1>4, <2>1, LatestIn
  <2> DEFINE m == Latest(T)
  <2>3. m + 1 \in S /\ \A j \in S : j <= m + 1
    <3>1. m + 1 \in S
      BY <1>1, <1>2, <2>2
    <3>2. ASSUME NEW j \in S PROVE j <= m + 1
      <4>1. CASE j = 1
        BY <1>2, <2>2, <4>1
      <4>2. CASE j # 1
        <5>1. j - 1 \in 1..(Len(ws) - 1) /\ (j - 1) + 1 = j
          BY <1>1, <1>2, <4>2
        <5>2. j - 1 \in T
          BY <1>2, <5>1
        <5> QED  BY <1>2, <2>1, <2>2, <5>1, <5>2
      <4> QED  BY <4>1, <4>2
    <3> QED  BY <3>1, <3>2
  <2>4. Latest(S) = m + 1
    <3>1. S \in SUBSET Nat
      BY <1>2
    <3> QED  BY <2>3, <3>1, LatestIs
  <2>5. Tail(ws)[m] = ws[m + 1]
    BY <1>1, <1>2, <2>2
  <2> QED  BY <1>4, <2>3, <2>4, <2>5
<1> QED  BY <1>3, <1>4

LEMMA TailTidy ==
    ASSUME NEW ws \in WriteLists, ws # <<>>, Tidy(ws)
    PROVE  Tail(ws) \in WriteLists /\ Tidy(Tail(ws))
<1>1. /\ ws \in Seq(Writes) /\ Len(ws) \in 1..4
      /\ Tail(ws) \in Seq(Writes) /\ Len(Tail(ws)) = Len(ws) - 1
      /\ \A i \in 1..Len(Tail(ws)) : Tail(ws)[i] = ws[i + 1]
  BY TailFacts
<1>2. \A i, j \in 1..Len(Tail(ws)) :
          i < j => i + 1 \in 1..Len(ws) /\ j + 1 \in 1..Len(ws) /\ i + 1 < j + 1
  BY <1>1
<1> QED  BY <1>1, <1>2 DEF WriteLists, Tidy

\* Making the next write leaves where the pending ones lead.
LEMMA WriteLeads ==
    ASSUME NEW ws \in WriteLists, ws # <<>>, Tidy(ws), NEW a, NEW v
    PROVE  /\ ws[1].file = "secrets"
                => /\ AuthAfter(a, Tail(ws)) = AuthAfter(a, ws)
                   /\ VaultAfter(Stored(v, ws[1].put), Tail(ws)) = VaultAfter(v, ws)
           /\ ws[1].file = "target"
                => /\ AuthAfter(ws[1].profile, Tail(ws)) = AuthAfter(a, ws)
                   /\ VaultAfter(v, Tail(ws)) = VaultAfter(v, ws)
           /\ ws[1].file = "facts"
                => /\ AuthAfter(Marked(a, ws[1].fact), Tail(ws)) = AuthAfter(a, ws)
                   /\ VaultAfter(v, Tail(ws)) = VaultAfter(v, ws)
           /\ ws[1].file = "plans"
                => /\ AuthAfter(a, Tail(ws)) = AuthAfter(a, ws)
                   /\ VaultAfter(v, Tail(ws)) = VaultAfter(v, ws)
           /\ ws[1].file # "plans" => (Invalidates(Tail(ws)) <=> Invalidates(ws))
           /\ ws[1].file = "plans" => Invalidates(ws)
<1> DEFINE t == Tail(ws)
           S(files) == WritesOf(ws, files)
           T(files) == WritesOf(t, files)
           profiles == {"target", "facts"}
<1>0. /\ ws \in Seq(Writes) /\ Len(ws) \in 1..4
      /\ t \in Seq(Writes) /\ Len(t) = Len(ws) - 1
      /\ \A i \in 1..Len(t) : t[i] = ws[i + 1] /\ i + 1 \in 2..Len(ws)
  <2>1. \A i \in 1..(Len(ws) - 1) : i + 1 \in 2..Len(ws)
    BY TailFacts
  <2> QED  BY <2>1, TailFacts
<1>1. \A files : /\ T(files) = {} => S(files) = (IF ws[1].file \in files THEN {1} ELSE {})
                 /\ T(files) # {} => /\ S(files) # {}
                                     /\ ws[Latest(S(files))] = t[Latest(T(files))]
  BY LastStays
<1>2. Latest({1}) = 1
  BY LatestIs
<1>3. T(profiles) # {} => t[Latest(T(profiles))].file = "target"
  <2>1. \A i \in 1..Len(t) : t[i].file # "facts"
    BY <1>0 DEF Tidy
  <2>2. T(profiles) # {} => Latest(T(profiles)) \in T(profiles)
    <3>1. T(profiles) \in SUBSET (1..4)
      BY <1>0 DEF WritesOf
    <3> QED  BY <3>1, LatestIn
  <2>3. \A i \in T(profiles) : i \in 1..Len(t) /\ t[i].file \in profiles
    BY <1>0 DEF WritesOf
  <2> HIDE DEF T
  <2> QED  BY <2>1, <2>2, <2>3
<1>4. ws[1].file = "secrets" => T({"secrets"}) = {}
  BY <1>0 DEF Tidy, WritesOf
<1>5. ASSUME ws[1].file \in {"secrets", "plans"}
      PROVE  AuthAfter(a, t) = AuthAfter(a, ws)
  <2>1. CASE T(profiles) = {}
    <3>1. S(profiles) = {}
      BY <1>1, <1>5, <2>1
    <3> QED  BY <2>1, <3>1 DEF AuthAfter
  <2>2. CASE T(profiles) # {}
    BY <1>1, <1>3, <2>2 DEF AuthAfter
  <2> QED  BY <2>1, <2>2
<1>6. ASSUME ws[1].file = "target"
      PROVE  AuthAfter(ws[1].profile, t) = AuthAfter(a, ws)
  <2>1. CASE T(profiles) = {}
    <3>1. S(profiles) = {1}
      BY <1>1, <1>6, <2>1
    <3> QED  BY <1>2, <1>6, <2>1, <3>1 DEF AuthAfter
  <2>2. CASE T(profiles) # {}
    BY <1>1, <1>3, <2>2 DEF AuthAfter
  <2> QED  BY <2>1, <2>2
<1>7. ASSUME ws[1].file = "facts"
      PROVE  AuthAfter(Marked(a, ws[1].fact), t) = AuthAfter(a, ws)
  <2>1. CASE T(profiles) = {}
    <3>1. S(profiles) = {1}
      BY <1>1, <1>7, <2>1
    <3> QED  BY <1>2, <1>7, <2>1, <3>1 DEF AuthAfter
  <2>2. CASE T(profiles) # {}
    BY <1>1, <1>3, <2>2 DEF AuthAfter
  <2> QED  BY <2>1, <2>2
<1>8. ASSUME ws[1].file # "secrets"
      PROVE  VaultAfter(v, t) = VaultAfter(v, ws)
  <2>1. CASE T({"secrets"}) = {}
    <3>1. S({"secrets"}) = {}
      BY <1>1, <1>8, <2>1
    <3> QED  BY <2>1, <3>1 DEF VaultAfter
  <2>2. CASE T({"secrets"}) # {}
    BY <1>1, <2>2 DEF VaultAfter
  <2> QED  BY <2>1, <2>2
<1>9. ASSUME ws[1].file = "secrets"
      PROVE  VaultAfter(Stored(v, ws[1].put), t) = VaultAfter(v, ws)
  <2>1. S({"secrets"}) = {1} /\ T({"secrets"}) = {}
    BY <1>1, <1>4, <1>9
  <2> QED  BY <1>2, <2>1 DEF VaultAfter
<1>10. /\ ws[1].file # "plans" => (Invalidates(t) <=> Invalidates(ws))
       /\ ws[1].file = "plans" => Invalidates(ws)
  <2>1. 1 \in S({"plans"}) <=> ws[1].file = "plans"
    BY <1>0 DEF WritesOf
  <2> QED  BY <1>1, <2>1 DEF Invalidates
<1> QED  BY <1>5, <1>6, <1>7, <1>8, <1>9, <1>10

-----------------------------------------------------------------------------
(* The commands                                                            *)

\* A command with at most one write of the secrets, and one fact alone.
LEMMA CommandsTidy ==
    /\ \A a \in Profiles, c \in CandidateType : Tidy(StoreWrites(a, c))
    /\ \A a \in Profiles : Tidy(ClearWrites(a)) /\ Tidy(RefreshFailedWrites(a))
    /\ \A a \in Profiles, o \in Subjects : Tidy(ConfigureWrites(a, o))
    /\ \A a \in Profiles, o \in Owners, h \in Hints, l \in Lifetimes :
          Tidy(RefreshWrites(a, o, h, l))
    /\ \A f \in Facts : Tidy(<<PutFact(f)>>)
<1> USE DEF PutSecret, DropSecrets, PutTarget, PutFact, Invalidate
<1>1. ASSUME NEW a \in Profiles, NEW c \in CandidateType
      PROVE  Tidy(StoreWrites(a, c))
  <2> DEFINE ws == StoreWrites(a, c)
  <2>1. \/ ws = <<PutTarget(Changed(a)), Invalidate>>
        \/ ws = <<PutSecret("access", c.owner), PutTarget(StoredProfile(a, c))>>
        \/ ws = <<PutSecret("access", c.owner), PutTarget(StoredProfile(a, c))>>
                  \o <<Invalidate>>
        \/ ws = <<PutSecret("access", c.owner), PutTarget(StoredProfile(a, c))>>
                  \o <<PutTarget(Changed(StoredProfile(a, c))), Invalidate>>
    BY DEF StoreWrites
  <2>2. /\ Len(ws) \in {2, 3, 4}
        /\ \A j \in 2..Len(ws) : ws[j].file \in {"target", "plans"}
    BY <2>1
  <2> QED  BY <2>2 DEF Tidy
<1>2. ASSUME NEW a \in Profiles
      PROVE  Tidy(ClearWrites(a)) /\ Tidy(RefreshFailedWrites(a))
  BY DEF ClearWrites, RefreshFailedWrites, Tidy
<1>3. ASSUME NEW a \in Profiles, NEW o \in Subjects
      PROVE  Tidy(ConfigureWrites(a, o))
  BY DEF ConfigureWrites, Tidy
<1>4. ASSUME NEW a \in Profiles, NEW o \in Owners, NEW h \in Hints, NEW l \in Lifetimes
      PROVE  Tidy(RefreshWrites(a, o, h, l))
  <2> DEFINE ws == RefreshWrites(a, o, h, l)
  <2>1. /\ Len(ws) \in {2, 3}
        /\ \A j \in 2..Len(ws) : ws[j].file \in {"target", "plans"}
    BY DEF RefreshWrites
  <2> QED  BY <2>1 DEF Tidy
<1>5. ASSUME NEW f \in Facts
      PROVE  Tidy(<<PutFact(f)>>)
  BY DEF Tidy
<1> QED  BY <1>1, <1>2, <1>3, <1>4, <1>5

\* A write of the plans invalidates.
LEMMA PlansInvalidate ==
    ASSUME NEW ws \in Seq(Writes), NEW i \in 1..Len(ws), ws[i].file = "plans"
    PROVE  Invalidates(ws)
  BY DEF Invalidates, WritesOf

LEMMA StoreKeepsContext ==
    ASSUME NEW a \in Profiles, NEW c \in CandidateType
    PROVE  KeepsContext(a, StoreWrites(a, c))
<1> DEFINE ws == StoreWrites(a, c)
           new == StoredProfile(a, c)
<1>0. ws \in Seq(Writes)
  BY StoreType DEF WriteLists
<1>1. CASE ws = <<PutSecret("access", c.owner), PutTarget(new)>>
           /\ (a.set => Context(a) = Context(new))
  <2>1. Len(ws) = 2 /\ ws[2] = PutTarget(new)
    BY <1>1
  <2>2. AuthAfter(a, ws) = new
    BY <1>0, <2>1, LastTarget DEF PutTarget
  <2>3. new.set
    BY DEF StoredProfile
  <2> QED  BY <1>1, <2>2, <2>3 DEF KeepsContext
<1>2. CASE ~(ws = <<PutSecret("access", c.owner), PutTarget(new)>>
              /\ (a.set => Context(a) = Context(new)))
  <2>1. \/ ws = <<PutTarget(Changed(a)), Invalidate>>
        \/ ws = <<PutSecret("access", c.owner), PutTarget(new)>> \o <<Invalidate>>
        \/ ws = <<PutSecret("access", c.owner), PutTarget(new)>>
                  \o <<PutTarget(Changed(new)), Invalidate>>
    BY <1>2 DEF StoreWrites
  <2>2. \/ Len(ws) = 2 /\ ws[2].file = "plans"
        \/ Len(ws) = 3 /\ ws[3].file = "plans"
        \/ Len(ws) = 4 /\ ws[4].file = "plans"
    BY <2>1 DEF Invalidate
  <2>3. \E i \in 1..Len(ws) : ws[i].file = "plans"
    <3> HIDE DEF ws, new
    <3> QED  BY <2>2
  <2>4. Invalidates(ws)
    BY <1>0, <2>2, <2>3, PlansInvalidate
  <2> QED  BY <2>4 DEF KeepsContext
<1> QED  BY <1>1, <1>2

LEMMA ClearKeepsContext ==
    ASSUME NEW a \in Profiles
    PROVE  KeepsContext(a, ClearWrites(a))
<1>1. /\ ClearWrites(a) \in Seq(Writes) /\ Len(ClearWrites(a)) = 3
      /\ ClearWrites(a)[3].file = "plans"
  BY ClearType DEF WriteLists, ClearWrites, Invalidate
<1> QED  BY <1>1, PlansInvalidate DEF KeepsContext

LEMMA ConfigureKeepsContext ==
    ASSUME NEW a \in Profiles, NEW o \in Subjects
    PROVE  KeepsContext(a, ConfigureWrites(a, o))
<1> DEFINE ws == ConfigureWrites(a, o)
           new == [a EXCEPT !.flow = TRUE, !.parts = @ \cup {"refresh"}]
<1>1. ws \in Seq(Writes) /\ Len(ws) = 2 /\ ws[2] = PutTarget(new)
  BY ConfigureType DEF WriteLists, ConfigureWrites
<1>2. AuthAfter(a, ws) = new
  BY <1>1, LastTarget DEF PutTarget
<1>3. new.set = a.set /\ new.hint = a.hint
  BY DEF Profiles
<1> QED  BY <1>2, <1>3 DEF KeepsContext, Context

LEMMA RefreshKeepsContext ==
    ASSUME NEW a \in Profiles, NEW o \in Owners, NEW h \in Hints,
           NEW l \in Lifetimes
    PROVE  KeepsContext(a, RefreshWrites(a, o, h, l))
<1> DEFINE ws == RefreshWrites(a, o, h, l)
<1>0. ws \in Seq(Writes)
  BY RefreshType DEF WriteLists
<1>1. CASE Continuity(a.hint, h) = "CONFIRMED"
  <2> DEFINE new == [Unvalidated(a, l) EXCEPT
                       !.hint = h, !.confirmed = FALSE,
                       !.status = StatusFor(l, "AVAILABLE_NOT_VALIDATED")]
  <2>1. ws = <<PutSecret("access", o), PutTarget(new)>>
    BY <1>1 DEF RefreshWrites
  <2>2. Len(ws) = 2 /\ ws[2] = PutTarget(new)
    BY <2>1
  <2>3. AuthAfter(a, ws) = new
    BY <1>0, <2>2, LastTarget DEF PutTarget
  <2>4. a.hint = h
    BY <1>1 DEF Continuity
  <2>5. new.set = a.set /\ new.hint = h
    BY DEF Unvalidated, Profiles
  <2> QED  BY <2>3, <2>4, <2>5 DEF KeepsContext, Context
<1>2. CASE Continuity(a.hint, h) # "CONFIRMED"
  <2>1. Len(ws) \in {2, 3} /\ ws[2].file = "plans"
    BY <1>2 DEF RefreshWrites, Invalidate
  <2>2. 2 \in 1..Len(ws)
    BY <2>1
  <2>3. Invalidates(ws)
    BY <1>0, <2>1, <2>2, PlansInvalidate
  <2> QED  BY <2>3 DEF KeepsContext
<1> QED  BY <1>1, <1>2

LEMMA RefreshFailedKeepsContext ==
    ASSUME NEW a \in Profiles
    PROVE  KeepsContext(a, RefreshFailedWrites(a))
<1> DEFINE ws == RefreshFailedWrites(a)
           new == [a EXCEPT !.status = "REFRESH_FAILED"]
<1>1. ws \in Seq(Writes) /\ Len(ws) = 1 /\ ws[1] = PutTarget(new)
  BY RefreshFailedType DEF WriteLists, RefreshFailedWrites
<1>2. AuthAfter(a, ws) = new
  BY <1>1, LastTarget DEF PutTarget
<1>3. new.set = a.set /\ new.hint = a.hint
  BY DEF Profiles
<1> QED  BY <1>2, <1>3 DEF KeepsContext, Context

LEMMA FactKeepsContext ==
    ASSUME NEW a \in Profiles, NEW f \in Facts
    PROVE  KeepsContext(a, <<PutFact(f)>>)
<1>1. Marked(a, f).set = a.set /\ Marked(a, f).hint = a.hint
  BY DEF Marked, Facts, Profiles
<1> QED  BY <1>1, LastFact DEF KeepsContext, Context

-----------------------------------------------------------------------------
LEMMA InitAuth == AuthInit => AuthInv
<1> SUFFICES ASSUME AuthInit PROVE AuthInv
  OBVIOUS
<1>1. auth \in Profiles /\ vault \in Vaults
  BY MissingType DEF AuthInit, Vaults, Owners
<1>2. pending \in WriteLists /\ Tidy(pending)
  BY DEF AuthInit, WriteLists, Tidy
<1>3. Leads(auth, vault, pending)
  BY NothingPending DEF AuthInit, Leads, Own, Missing
<1> QED  BY <1>1, <1>2, <1>3 DEF AuthInv, ApprovalStays, AuthInit, NotRequested

\* A command that starts leads to where it should.
LEMMA StartKeeps ==
    ASSUME AuthInv, NEW ws \in WriteLists, Run(ws), Tidy(ws),
           Leads(auth, vault, ws), KeepsContext(auth, ws)
    PROVE  AuthInv'
<1>1. /\ pending = <<>> /\ pending' = ws
      /\ auth' = auth /\ vault' = vault /\ approval' = approval
  BY DEF Run
<1>2. approval.status = "APPROVED"
          => auth.set /\ approval.record.ctx = Context(auth)
  BY <1>1, NothingPending DEF AuthInv, ApprovalStays
<1>3. ApprovalStays'
  BY <1>1, <1>2 DEF ApprovalStays, KeepsContext
<1> QED  BY <1>1, <1>3 DEF AuthInv

LEMMA CommandsKeep == AuthInv /\ Commands => AuthInv'
<1> SUFFICES ASSUME AuthInv, Commands PROVE AuthInv'
  OBVIOUS
<1>0. /\ auth \in Profiles /\ vault \in Vaults
      /\ Own(auth, vault)
  <2>1. pending = <<>>
    BY DEF Commands, Run, Store, Clear, ConfigureRefresh, RefreshActor, ValidateBaseline
  <2> QED  BY <2>1, NothingPending DEF AuthInv, Leads
<1>1. CASE Store
  <2>1. PICK c \in Candidates : Run(StoreWrites(auth, c))
    BY <1>1 DEF Store
  <2>2. c \in CandidateType
    BY CandidatesAssumption DEF CandidateType
  <2> QED  BY <1>0, <2>1, <2>2, StoreType, StoreLeads, StoreKeepsContext,
              CommandsTidy, StartKeeps
<1>2. CASE Clear
  BY <1>0, <1>2, ClearType, ClearLeads, ClearKeepsContext, CommandsTidy, StartKeeps
     DEF Clear
<1>3. CASE ConfigureRefresh
  BY <1>0, <1>3, ConfigureType, ConfigureLeads, ConfigureKeepsContext,
     CommandsTidy, StartKeeps DEF ConfigureRefresh
<1>4. CASE RefreshActor
  <2>1. CASE Run(RefreshFailedWrites(auth))
    BY <1>0, <2>1, RefreshFailedType, RefreshFailedLeads,
       RefreshFailedKeepsContext, CommandsTidy, StartKeeps
  <2>2. CASE \E hint \in {vault["refresh"], Unknown}, life \in Lifetimes :
                Run(RefreshWrites(auth, vault["refresh"], hint, life))
    <3>1. PICK hint \in {vault["refresh"], Unknown}, life \in Lifetimes :
              Run(RefreshWrites(auth, vault["refresh"], hint, life))
      BY <2>2
    <3>2. vault["refresh"] \in Owners /\ hint \in Hints
      BY <1>0, <1>4 DEF RefreshActor, CanRefresh, Vaults, Refs, Owners, Hints
    <3> QED  BY <1>0, <3>1, <3>2, RefreshType, RefreshLeads, RefreshKeepsContext,
                CommandsTidy, StartKeeps
  <2> QED  BY <1>4, <2>1, <2>2 DEF RefreshActor
<1>5. CASE ValidateBaseline
  <2>1. PICK f \in {"login", "matched", "confirmed", "unexpected"} :
            /\ f = "confirmed" => vault["access"] = Self
            /\ Run(<<PutFact(f)>>)
    BY <1>5 DEF ValidateBaseline
  <2>2. f \in Facts
    BY DEF Facts
  <2> QED  BY <1>0, <2>1, <2>2, FactType, FactLeads, FactKeepsContext,
              CommandsTidy, StartKeeps
<1> QED  BY <1>1, <1>2, <1>3, <1>4, <1>5 DEF Commands

LEMMA StepsKeep == AuthInv /\ Steps => AuthInv'
<1> SUFFICES ASSUME AuthInv, Steps PROVE AuthInv'
  OBVIOUS
<1>0. /\ pending \in WriteLists /\ pending # <<>> /\ Tidy(pending)
      /\ pending' = Tail(pending)
      /\ auth \in Profiles /\ vault \in Vaults
      /\ Leads(auth, vault, pending)
  BY DEF Steps, WriteSecrets, WriteTarget, MarkStatus, InvalidateApprovals,
         Writing, Written, AuthInv
<1>1. pending' \in WriteLists /\ Tidy(pending')
  BY <1>0, TailTidy
<1>2. Head(pending) = pending[1] /\ pending[1] \in Writes
  BY <1>0, TailFacts
<1>3. CASE WriteSecrets
  <2>1. /\ pending[1].file = "secrets"
        /\ vault' = Stored(vault, pending[1].put)
        /\ auth' = auth /\ approval' = approval
    BY <1>2, <1>3 DEF WriteSecrets, Writing
  <2>2. vault' \in Vaults
    BY <1>0, <2>1, StoredType
  <2> QED  BY <1>0, <1>1, <2>1, <2>2, WriteLeads DEF AuthInv, Leads, ApprovalStays
<1>4. CASE WriteTarget
  <2>1. /\ pending[1].file = "target"
        /\ auth' = pending[1].profile
        /\ vault' = vault /\ approval' = approval
    BY <1>2, <1>4 DEF WriteTarget, Writing
  <2>2. auth' \in Profiles
    BY <1>2, <2>1 DEF Writes
  <2> QED  BY <1>0, <1>1, <2>1, <2>2, WriteLeads DEF AuthInv, Leads, ApprovalStays
<1>5. CASE MarkStatus
  <2>1. /\ pending[1].file = "facts"
        /\ auth' = Marked(auth, pending[1].fact)
        /\ vault' = vault /\ approval' = approval
    BY <1>2, <1>5 DEF MarkStatus, Writing
  <2>2. auth' \in Profiles
    BY <1>0, <1>2, <2>1, MarkedType DEF Writes
  <2> QED  BY <1>0, <1>1, <2>1, <2>2, WriteLeads DEF AuthInv, Leads, ApprovalStays
<1>6. CASE InvalidateApprovals
  <2>1. /\ pending[1].file = "plans"
        /\ approval' = NotRequested
        /\ vault' = vault /\ auth' = auth
    BY <1>2, <1>6 DEF InvalidateApprovals, Writing
  <2>2. ApprovalStays'
    BY <2>1 DEF ApprovalStays, NotRequested
  <2> QED  BY <1>0, <1>1, <2>1, <2>2, WriteLeads DEF AuthInv, Leads
<1> QED  BY <1>3, <1>4, <1>5, <1>6 DEF Steps

LEMMA NextAuth == AuthInv /\ [AuthNext]_actorVars => AuthInv'
<1> SUFFICES ASSUME AuthInv, [AuthNext]_actorVars PROVE AuthInv'
  OBVIOUS
<1>1. CASE Commands
  BY <1>1, CommandsKeep
<1>2. CASE Steps
  BY <1>2, StepsKeep
<1>3. CASE Expire
  <2>1. /\ pending = <<>> /\ vault' = vault /\ approval' = approval
        /\ pending' = pending
        /\ \E l \in Lifetimes : auth' = [auth EXCEPT !.life = l]
    BY <1>3 DEF Expire, Lifetimes
  <2>2. PICK l \in Lifetimes : auth' = [auth EXCEPT !.life = l]
    BY <2>1
  <2>3. /\ auth' \in Profiles
        /\ auth'.set = auth.set /\ auth'.hint = auth.hint
        /\ auth'.accepted = auth.accepted /\ auth'.confirmed = auth.confirmed
    BY <2>2 DEF AuthInv, Profiles
  <2> QED  BY <2>1, <2>3, NothingPending
           DEF AuthInv, Leads, Own, ApprovalStays, Context
<1>4. CASE ApproveContext
  BY <1>4, NothingPending DEF ApproveContext, AuthInv, Leads, ApprovalStays
<1>5. CASE UNCHANGED actorVars
  BY <1>5 DEF actorVars, AuthInv, Leads, Own, ApprovalStays
<1> QED  BY <1>1, <1>2, <1>3, <1>4, <1>5 DEF AuthNext

LEMMA InvReady == AuthInv => ReadyCredentialIsOwn
  BY NothingPending DEF AuthInv, Leads, Own, ReadyCredentialIsOwn, Idle, ReadyToExecute

LEMMA InvApproval == AuthInv => ApprovalMatchesContext
  BY NothingPending DEF AuthInv, ApprovalStays, ApprovalMatchesContext, Idle

\* Whatever was captured, claimed to be a renewal, refreshed, checked or
\* cleared, in any order: a profile the execution preflight accepts holds a
\* credential of the actor's own account (auth/service.py, actor_preflight).
THEOREM ReadyIsOwn == AuthSpec => []ReadyCredentialIsOwn
  BY InitAuth, NextAuth, InvReady, PTL DEF AuthSpec

\* After every authentication command an approval that still stands is one for
\* the authentication context the profile now has (_invalidate_approvals).
THEOREM ApprovalFollowsContext == AuthSpec => []ApprovalMatchesContext
  BY InitAuth, NextAuth, InvApproval, PTL DEF AuthSpec

-----------------------------------------------------------------------------
(***************************************************************************)
(* Proof that nothing is sent which the researcher did not approve, for    *)
(* every set of policies, inputs, candidates and subjects and any number   *)
(* of executions, killed or not.                                           *)
(*                                                                         *)
(* Between hunt approve and the request lie several loads of several       *)
(* files, so the property is not inductive.  What carries it is that an    *)
(* approval record in the file, the copy the runner works on once it has   *)
(* prepared, and every request sent each stem from a recorded decision.    *)
(***************************************************************************)

Fields == {"pc", "plan", "policy", "cred", "count", "refreshed", "rev"}

\* run is a record of the runner's fields, whatever their values.
RunShape == run = [f \in Fields |-> run[f]]

ApprovalsStem ==
    approval \in [status : {"NOT_REQUESTED", "APPROVED"},
                  record : decisions \cup {NoRecord}]

Unprepared == {"idle", "confirm", "prepare"}

RunStems ==
    run.pc \notin Unprepared
        => [plan |-> run.plan, policy |-> run.policy] \in decisions

AuthorityInv == RunShape /\ ApprovalsStem /\ RunStems /\ SentUnderDecision

-----------------------------------------------------------------------------
LEMMA IdleRunShape == /\ IdleRun = [f \in Fields |-> IdleRun[f]]
                      /\ IdleRun.pc = "idle"
  BY DEF IdleRun, Fields

\* Ending a run, however it ends, keeps the invariant.
LEMMA EndKeeps ==
    ASSUME AuthorityInv, End, UNCHANGED <<approval, decisions, sent>>
    PROVE  AuthorityInv'
  BY IdleRunShape
     DEF AuthorityInv, End, RunShape, ApprovalsStem, RunStems, Unprepared,
         SentUnderDecision

\* So does moving on to another step of a prepared run.
LEMMA MoveKeeps ==
    ASSUME AuthorityInv, NEW p, run.pc \notin Unprepared,
           run' = [run EXCEPT !.pc = p],
           UNCHANGED <<decisions, sent>>,
           ApprovalsStem'
    PROVE  AuthorityInv'
  BY DEF AuthorityInv, RunShape, Fields, ApprovalsStem, RunStems, Unprepared,
         SentUnderDecision

\* What the runner reads of an authorized plan is a recorded decision.
LEMMA AuthorizedIsDecided ==
    ASSUME ApprovalsStem, Authorized
    PROVE  [plan |-> plan.body, policy |-> PolicyChecksum] \in decisions
<1>1. approval.record = [plan |-> plan.body, policy |-> PolicyChecksum]
  BY DEF Authorized, ApprovalHolds
<1>2. approval.record # NoRecord
  <2>1. "plan" \in DOMAIN approval.record
    BY <1>1
  <2>2. "plan" \notin DOMAIN NoRecord
    BY DEF NoRecord
  <2> QED  BY <2>1, <2>2
<1> QED  BY <1>1, <1>2 DEF ApprovalsStem

\* An approval is only ever kept or dropped by an authentication command.
LEMMA PerformKeepsApprovals ==
    ASSUME ApprovalsStem, NEW writes, Perform(writes), UNCHANGED decisions
    PROVE  ApprovalsStem'
  BY DEF ApprovalsStem, Perform, NoApproval

LEMMA RefreshKeepsApprovals ==
    ASSUME ApprovalsStem, Refresh, UNCHANGED decisions
    PROVE  ApprovalsStem'
  BY PerformKeepsApprovals DEF Refresh, RefreshRaises, RefreshStores

\* Steps that leave the runner and the histories alone.
LEMMA BesideKeeps ==
    ASSUME AuthorityInv, ApprovalsStem', UNCHANGED <<run, decisions, sent>>
    PROVE  AuthorityInv'
  BY DEF AuthorityInv, RunShape, RunStems, SentUnderDecision

\* Sending adds a request that copies the prepared run.
LEMMA SendKeeps ==
    ASSUME AuthorityInv, NEW n, NEW await, run.pc \notin Unprepared,
           Send(n, await), await \notin Unprepared
    PROVE  AuthorityInv'
<1>1. UNCHANGED <<approval, decisions>>
  BY DEF Send, gateVars
<1>2. sent' \subseteq sent \cup {Request(n)}
  BY DEF Send
<1>3. [plan |-> Request(n).plan, policy |-> Request(n).policy] \in decisions
  BY DEF AuthorityInv, RunStems, Request
<1>4. SentUnderDecision'
  BY <1>1, <1>2, <1>3 DEF AuthorityInv, SentUnderDecision
<1>5. RunShape' /\ RunStems'
  <2>1. run' = [run EXCEPT !.pc = await, !.count = n]
          \/ run' = [run EXCEPT !.pc = "evidence"]
    BY DEF Send, Goto
  <2> QED  BY <2>1, <1>1 DEF AuthorityInv, RunShape, RunStems, Fields, Unprepared
<1> QED  BY <1>1, <1>4, <1>5 DEF AuthorityInv, ApprovalsStem

-----------------------------------------------------------------------------
LEMMA InitAuthority == Init => AuthorityInv
  BY IdleRunShape
     DEF Init, AuthorityInv, RunShape, ApprovalsStem, NoApproval, RunStems,
         Unprepared, SentUnderDecision

LEMMA EditsKeepAuthority == AuthorityInv /\ (Edits \/ Authenticate) => AuthorityInv'
<1> SUFFICES ASSUME AuthorityInv, Edits \/ Authenticate PROVE AuthorityInv'
  OBVIOUS
<1>1. UNCHANGED <<run, decisions, sent>>
  BY DEF Edits, Authenticate, EditPlan, RemovePlan, EditApprovalStatus,
         ChangePolicy, ChangeInputs, gateVars, runVars
<1>2. ApprovalsStem'
  <2>1. CASE EditPlan \/ ChangePolicy \/ ChangeInputs
    BY <2>1, <1>1 DEF EditPlan, ChangePolicy, ChangeInputs, AuthorityInv, ApprovalsStem
  <2>2. CASE RemovePlan
    BY <2>2, <1>1 DEF RemovePlan, AuthorityInv, ApprovalsStem, NoApproval
  <2>3. CASE EditApprovalStatus
    BY <2>3, <1>1 DEF EditApprovalStatus, AuthorityInv, ApprovalsStem
  <2>4. CASE Authenticate
    <3>1. (\E w : Perform(w)) \/ Refresh \/ UNCHANGED approval
      BY <2>4 DEF Authenticate, Check, Tick
    <3> QED  BY <3>1, <1>1, PerformKeepsApprovals, RefreshKeepsApprovals
             DEF AuthorityInv, ApprovalsStem
  <2> QED  BY <2>1, <2>2, <2>3, <2>4 DEF Edits
<1> QED  BY <1>1, <1>2, BesideKeeps

LEMMA GateKeepsAuthority == AuthorityInv /\ Gate => AuthorityInv'
<1> SUFFICES ASSUME AuthorityInv, Gate PROVE AuthorityInv'
  OBVIOUS
<1>1. CASE GeneratePlan \/ ReviewApproval \/ DeclineApproval
  <2>1. UNCHANGED <<approval, run, decisions, sent>>
    BY <1>1 DEF GeneratePlan, ReviewApproval, DeclineApproval, runVars
  <2> QED  BY <2>1, BesideKeeps DEF AuthorityInv, ApprovalsStem
<1>2. CASE RecordApproval
  <2> DEFINE d == [plan |-> plan.body, policy |-> PolicyChecksum]
  <2>1. /\ approval' = [status |-> "APPROVED", record |-> d]
        /\ decisions' = decisions \cup {d}
        /\ UNCHANGED <<run, sent>>
    BY <1>2 DEF RecordApproval, runVars
  <2> QED  BY <2>1 DEF AuthorityInv, RunShape, ApprovalsStem, RunStems,
                       SentUnderDecision
<1> QED  BY <1>1, <1>2 DEF Gate

LEMMA RunnerKeepsAuthority ==
    AuthorityInv /\ (ReviewAuthority \/ Confirm \/ RunnerStep) => AuthorityInv'
<1> SUFFICES ASSUME AuthorityInv, ReviewAuthority \/ Confirm \/ RunnerStep
             PROVE  AuthorityInv'
  OBVIOUS
<1> USE DEF Quiet, gateVars
<1>1. CASE ReviewAuthority
  BY <1>1, IdleRunShape
     DEF ReviewAuthority, IdleRun, AuthorityInv, RunShape, Fields,
         ApprovalsStem, RunStems, Unprepared, SentUnderDecision
<1>2. CASE Confirm
  <2>1. CASE End
    BY <1>2, <2>1, EndKeeps DEF Confirm
  <2>2. CASE Goto("prepare")
    BY <1>2, <2>2
       DEF Confirm, Goto, AuthorityInv, RunShape, Fields, ApprovalsStem,
           RunStems, Unprepared, SentUnderDecision
  <2> QED  BY <1>2, <2>1, <2>2 DEF Confirm
<1>3. CASE Prepare
  <2>1. CASE End
    BY <1>3, <2>1, EndKeeps DEF Prepare
  <2>2. CASE ~End
    <3>1. /\ Authorized
          /\ run' = [run EXCEPT !.pc = "preflight", !.plan = plan.body,
                                !.policy = PolicyChecksum]
          /\ UNCHANGED <<approval, decisions, sent>>
      BY <1>3, <2>2 DEF Prepare
    <3>2. [plan |-> plan.body, policy |-> PolicyChecksum] \in decisions
      BY <3>1, AuthorizedIsDecided DEF AuthorityInv
    <3>3. RunShape' /\ run'.plan = plan.body /\ run'.policy = PolicyChecksum
      BY <3>1 DEF AuthorityInv, RunShape, Fields
    <3> QED  BY <3>1, <3>2, <3>3
             DEF AuthorityInv, ApprovalsStem, RunStems, SentUnderDecision
  <2> QED  BY <2>1, <2>2
<1>4. CASE Preflight
  BY <1>4, EndKeeps, MoveKeeps
     DEF Preflight, Goto, Unprepared, AuthorityInv, ApprovalsStem
<1>5. CASE RefreshBeforeRun
  <2>1. ApprovalsStem'
    BY <1>5, RefreshKeepsApprovals
       DEF RefreshBeforeRun, Refresh, gateVars, AuthorityInv
  <2>2. CASE End
    <3>1. RunShape' /\ RunStems'
      BY <2>2, IdleRunShape DEF End, RunShape, RunStems, Unprepared
    <3> QED
      BY <1>5, <2>1, <3>1
         DEF RefreshBeforeRun, gateVars, AuthorityInv, SentUnderDecision
  <2>3. CASE ~End
    BY <1>5, <2>1, <2>3
       DEF RefreshBeforeRun, AuthorityInv, RunShape, Fields, RunStems,
           Unprepared, SentUnderDecision
  <2> QED  BY <2>2, <2>3
<1>6. CASE ResolveHeaders
  <2>1. CASE End
    BY <1>6, <2>1, EndKeeps DEF ResolveHeaders
  <2>2. CASE ~End
    BY <1>6, <2>2
       DEF ResolveHeaders, AuthorityInv, RunShape, Fields, ApprovalsStem,
           RunStems, Unprepared, SentUnderDecision
  <2> QED  BY <2>1, <2>2
<1>7. CASE SendBaseline \/ SendMutation
  BY <1>7, SendKeeps DEF SendBaseline, SendMutation, Unprepared
<1>8. CASE BaselineAnswered \/ MutationAnswered \/ IndexEvidence
  BY <1>8, MoveKeeps
     DEF BaselineAnswered, MutationAnswered, IndexEvidence, Goto, Unprepared,
         AuthorityInv, ApprovalsStem
<1>9. CASE MarkBaseline \/ MarkRefused
  BY <1>9, MoveKeeps
     DEF MarkBaseline, MarkRefused, Mark, Goto, Unprepared, AuthorityInv,
         ApprovalsStem
<1>10. CASE WriteEvidence
  BY <1>10
     DEF WriteEvidence, AuthorityInv, RunShape, Fields, ApprovalsStem,
         RunStems, Unprepared, SentUnderDecision
<1>11. CASE WriteAudit
  BY <1>11, EndKeeps DEF WriteAudit
<1> QED
  BY <1>1, <1>2, <1>3, <1>4, <1>5, <1>6, <1>7, <1>8, <1>9, <1>10, <1>11
     DEF RunnerStep

LEMMA NextAuthority == AuthorityInv /\ [Running \/ CrashRun]_vars => AuthorityInv'
<1> SUFFICES ASSUME AuthorityInv, [Running \/ CrashRun]_vars PROVE AuthorityInv'
  OBVIOUS
<1>1. CASE Edits \/ Authenticate
  BY <1>1, EditsKeepAuthority
<1>2. CASE Gate
  BY <1>2, GateKeepsAuthority
<1>3. CASE ReviewAuthority \/ Confirm \/ RunnerStep
  BY <1>3, RunnerKeepsAuthority
<1>4. CASE CrashRun
  BY <1>4, EndKeeps DEF CrashRun, Quiet, gateVars
<1>5. CASE UNCHANGED vars
  BY <1>5, BesideKeeps DEF vars, gateVars, runVars, AuthorityInv, ApprovalsStem
<1> QED  BY <1>1, <1>2, <1>3, <1>4, <1>5 DEF Running

\* Nothing leaves the machine that the researcher did not approve in exactly
\* this form, with the runner killed at any step (execution/policy.py,
\* execution/runner.py).
THEOREM SendingNeedsDecision == CrashSpec => []SentUnderDecision
<1>1. AuthorityInv => SentUnderDecision
  BY DEF AuthorityInv
<1> QED  BY InitAuthority, NextAuthority, <1>1, PTL DEF CrashSpec

-----------------------------------------------------------------------------
(***************************************************************************)
(* Proof that the gate implements its promise: every step of the detailed  *)
(* gate, killed or not, decides, sends a baseline, sends the mutation that *)
(* follows it, or changes neither decisions nor requests.                  *)
(*                                                                         *)
(* AuthorityInv gives the decision a request needs.  What it takes besides *)
(* is that executions are numbered upwards, that a run which has not sent  *)
(* yet is newer than every request, and that between its baseline and its  *)
(* mutation nothing newer was sent and the copy the runner works on is     *)
(* still the one the baseline was sent with.                               *)
(***************************************************************************)

FilesTyped == /\ auth \in Profiles /\ vault \in Vaults
              /\ policy \in Policies /\ inputs \in Inputs

PlanTyped ==
    plan # NoPlan
        => /\ plan = [body |-> plan.body, sum |-> plan.sum, src |-> plan.src]
           /\ plan.body \in Bodies

RunsCounted == /\ runs \in 0..MaxRuns
               /\ \A q \in sent : q.run \in 0..runs
               /\ run.pc # "idle" => runs \in 1..MaxRuns

\* A run that has sent nothing yet.
Fresh == {"confirm", "prepare", "preflight", "recheck", "headers", "baseline"}
FreshRunIsNewer == run.pc \in Fresh => \A q \in sent : q.run < runs

\* A run between its baseline and its mutation.
Halfway == {"awaitBaseline", "ran", "mutation"}
BaselineIsLast ==
    run.pc \in Halfway
        => /\ Request(1) \in sent
           /\ \A p \in sent : p.run < runs \/ p = Request(1)

CredentialKnown == run.pc \in Halfway \cup {"baseline"} => run.cred \in Subjects

RunInv == RunsCounted /\ FreshRunIsNewer /\ BaselineIsLast /\ CredentialKnown

GateInv == AuthorityInv /\ FilesTyped /\ PlanTyped /\ RunInv

-----------------------------------------------------------------------------
(* The files                                                               *)

LEMMA PerformTyped ==
    ASSUME FilesTyped, NEW ws \in WriteLists, Perform(ws)
    PROVE  auth' \in Profiles /\ vault' \in Vaults
  BY AuthAfterType, VaultAfterType DEF FilesTyped, Perform

LEMMA RefreshTyped ==
    ASSUME FilesTyped, Refresh
    PROVE  auth' \in Profiles /\ vault' \in Vaults
<1>1. /\ vault["refresh"] \in Owners
      /\ auth \in Profiles
  BY DEF FilesTyped, Vaults, Refs
<1>2. CASE \E hint \in RefreshHints : Perform(Renewed(hint))
  <2>1. PICK hint \in RefreshHints : Perform(Renewed(hint))
    BY <1>2
  <2>2. hint \in Hints
    <3>1. CanRefresh(auth, vault)
      BY DEF Refresh, RefreshRaises, RefreshStores
    <3> QED  BY <1>1, <3>1 DEF CanRefresh, RefreshHints, Owners, Hints
  <2>3. Renewed(hint) \in WriteLists
    BY <1>1, <2>2, RefreshType DEF Renewed, Lifetimes
  <2> QED  BY <2>1, <2>3, PerformTyped
<1>3. CASE Perform(RefreshFailedWrites(auth))
  BY <1>1, <1>3, RefreshFailedType, PerformTyped
<1> QED  BY <1>2, <1>3 DEF Refresh, RefreshRaises, RefreshStores

LEMMA AuthenticateTyped ==
    ASSUME FilesTyped, Authenticate
    PROVE  FilesTyped'
<1>1. policy' = policy /\ inputs' = inputs
  BY DEF Authenticate, gateVars
<1>2. auth \in Profiles
  BY DEF FilesTyped
<1>3. auth' \in Profiles /\ vault' \in Vaults
  <2>1. CASE \E c \in Candidates : Perform(StoreWrites(auth, c))
    <3>1. PICK c \in Candidates : Perform(StoreWrites(auth, c))
      BY <2>1
    <3>2. c \in CandidateType
      BY CandidatesAssumption DEF CandidateType, Hints
    <3> QED  BY <1>2, <3>1, <3>2, StoreType, PerformTyped
  <2>2. CASE Perform(ClearWrites(auth))
    BY <1>2, <2>2, ClearType, PerformTyped
  <2>3. CASE \E o \in Subjects : Perform(ConfigureWrites(auth, o))
    BY <1>2, <2>3, ConfigureType, PerformTyped
  <2>4. CASE Refresh
    BY <2>4, RefreshTyped
  <2>5. CASE Check
    BY <2>5, FactType, PerformTyped DEF Check, Facts
  <2>6. CASE Tick
    BY <2>6 DEF Tick, FilesTyped, Profiles, Lifetimes
  <2> QED  BY <2>1, <2>2, <2>3, <2>4, <2>5, <2>6 DEF Authenticate
<1> QED  BY <1>1, <1>3 DEF FilesTyped

LEMMA DraftTyped == FilesTyped => Draft \in Bodies
<1> SUFFICES ASSUME FilesTyped PROVE Draft \in Bodies
  OBVIOUS
<1>1. Context(auth) \in Contexts
  BY DEF FilesTyped, Profiles, Context, Contexts
<1>2. ReadyToPlan(auth, vault) \in BOOLEAN
  BY DEF ReadyToPlan
<1> QED  BY <1>1, <1>2 DEF Draft, Bodies, FilesTyped

LEMMA PolicySumTyped == FilesTyped => PolicyChecksum \in PolicySums
  BY DEF FilesTyped, Profiles, Context, Contexts, PolicyChecksum, PolicySums

LEMMA FilesStayTyped == GateInv /\ [Running \/ CrashRun]_vars => FilesTyped' /\ PlanTyped'
<1> SUFFICES ASSUME GateInv, [Running \/ CrashRun]_vars
             PROVE  FilesTyped' /\ PlanTyped'
  OBVIOUS
<1>0. FilesTyped /\ PlanTyped
  BY DEF GateInv
<1>1. CASE Authenticate
  <2>1. plan' = plan
    BY <1>1 DEF Authenticate, gateVars
  <2> QED  BY <1>0, <1>1, <2>1, AuthenticateTyped DEF PlanTyped
<1>2. CASE EditPlan
  <2>1. /\ plan' = [plan EXCEPT !.body.edited = ~@]
        /\ UNCHANGED <<auth, vault, policy, inputs>> /\ plan # NoPlan
    BY <1>2 DEF EditPlan, authVars
  <2>2. [plan.body EXCEPT !.edited = ~@] \in Bodies
    BY <1>0, <2>1 DEF PlanTyped, Bodies
  <2>3. plan' = [body |-> [plan.body EXCEPT !.edited = ~@],
                 sum |-> plan.sum, src |-> plan.src]
    BY <1>0, <2>1 DEF PlanTyped
  <2> QED  BY <1>0, <2>1, <2>2, <2>3 DEF PlanTyped, FilesTyped
<1>3. CASE RemovePlan \/ EditApprovalStatus \/ ChangePolicy \/ ChangeInputs
  BY <1>0, <1>3
     DEF RemovePlan, EditApprovalStatus, ChangePolicy, ChangeInputs, gateVars,
         authVars, PlanTyped, FilesTyped
<1>4. CASE GeneratePlan
  <2>1. UNCHANGED <<auth, vault, policy, inputs>>
    BY <1>4 DEF GeneratePlan, authVars
  <2>2. plan' = plan \/ plan' = [body |-> Draft, sum |-> Draft, src |-> Source]
    BY <1>4 DEF GeneratePlan
  <2>3. PlanTyped'
    BY <1>0, <2>2, DraftTyped DEF PlanTyped, NoPlan
  <2> QED  BY <1>0, <2>1, <2>3 DEF FilesTyped
<1>5. CASE UNCHANGED <<auth, vault, policy, inputs, plan>>
  BY <1>0, <1>5 DEF FilesTyped, PlanTyped
<1>6. CASE \E f \in {"ran", "refused"} :
              auth' = Marked(auth, f) /\ UNCHANGED <<vault, policy, inputs, plan>>
  BY <1>0, <1>6, MarkedType DEF FilesTyped, PlanTyped, Facts
<1>7. CASE RefreshBeforeRun
  <2>1. Refresh /\ UNCHANGED <<policy, inputs, plan>>
    BY <1>7 DEF RefreshBeforeRun, Refresh, gateVars
  <2> QED  BY <1>0, <2>1, RefreshTyped DEF FilesTyped, PlanTyped
<1>8. CASE Gate
  BY <1>4, <1>5, <1>8
     DEF Gate, ReviewApproval, RecordApproval, DeclineApproval, authVars
<1>9. CASE RunnerStep
  BY <1>5, <1>6, <1>7, <1>9
     DEF RunnerStep, Prepare, Preflight, ResolveHeaders, SendBaseline,
         SendMutation, Send, BaselineAnswered, MutationAnswered, MarkBaseline,
         MarkRefused, Mark, WriteEvidence, IndexEvidence, WriteAudit, Quiet,
         authVars, gateVars
<1>10. CASE ReviewAuthority \/ Confirm \/ CrashRun \/ UNCHANGED vars
  BY <1>5, <1>10
     DEF ReviewAuthority, Confirm, CrashRun, Quiet, authVars, gateVars, vars
<1> QED  BY <1>1, <1>2, <1>3, <1>8, <1>9, <1>10 DEF Running, Edits

-----------------------------------------------------------------------------
(* The executions                                                          *)

\* Steps at which nothing of an execution changes.
LEMMA RunStands ==
    ASSUME RunInv, UNCHANGED <<run, runs, sent>>
    PROVE  RunInv'
  BY DEF RunInv, RunsCounted, FreshRunIsNewer, BaselineIsLast, CredentialKnown,
         Request

LEMMA RunEnds ==
    ASSUME RunInv, End, UNCHANGED <<runs, sent>>
    PROVE  RunInv'
<1>1. run'.pc = "idle"
  BY IdleRunShape DEF End
<1> QED  BY <1>1 DEF RunInv, RunsCounted, FreshRunIsNewer, BaselineIsLast,
                     CredentialKnown, Fresh, Halfway

\* A run moves on within its first part, within its second, or to its end.
LEMMA RunMoves ==
    ASSUME RunInv, RunShape, NEW p, run' = [run EXCEPT !.pc = p],
           UNCHANGED <<runs, sent>>, run.pc # "idle",
           \/ run.pc \in Fresh /\ p \in Fresh \ {"baseline"}
           \/ run.pc \in Halfway /\ p \in Halfway
           \/ p \notin Fresh \cup Halfway
    PROVE  RunInv'
<1>1. /\ run'.pc = p /\ run'.plan = run.plan /\ run'.policy = run.policy
      /\ run'.cred = run.cred
  BY DEF RunShape, Fields
<1>2. Request(1)' = Request(1)
  BY <1>1 DEF Request
<1>3. RunsCounted' /\ FreshRunIsNewer'
  BY <1>1 DEF RunInv, RunsCounted, FreshRunIsNewer, Fresh, Halfway
<1>4. BaselineIsLast' /\ CredentialKnown'
  BY <1>1, <1>2 DEF RunInv, BaselineIsLast, CredentialKnown, Fresh, Halfway
<1> QED  BY <1>3, <1>4 DEF RunInv

LEMMA BaselineSent ==
    ASSUME RunInv, RunShape, SendBaseline
    PROVE  RunInv'
<1>1. /\ run.pc = "baseline" /\ runs' = runs
      /\ sent' \in {sent, sent \cup {Request(1)}}
      /\ \/ /\ sent' = sent \cup {Request(1)}
            /\ run' = [run EXCEPT !.pc = "awaitBaseline", !.count = 1]
         \/ run' = [run EXCEPT !.pc = "evidence"]
  BY DEF SendBaseline, Send, Goto
<1>2. /\ run'.plan = run.plan /\ run'.policy = run.policy /\ run'.cred = run.cred
      /\ run'.pc \in {"awaitBaseline", "evidence"}
      /\ run'.pc = "awaitBaseline" => sent' = sent \cup {Request(1)}
  BY <1>1 DEF RunShape, Fields
<1>3. Request(1)' = Request(1) /\ Request(1).run = runs
  BY <1>1, <1>2 DEF Request
<1>4. runs \in 1..MaxRuns /\ \A q \in sent : q.run < runs
  BY <1>1 DEF RunInv, RunsCounted, FreshRunIsNewer, Fresh
<1>5. RunsCounted'
  BY <1>1, <1>3, <1>4, ExecutionAssumption DEF RunInv, RunsCounted
<1>6. FreshRunIsNewer' /\ CredentialKnown'
  BY <1>1, <1>2 DEF RunInv, FreshRunIsNewer, CredentialKnown, Fresh, Halfway
<1>7. BaselineIsLast'
  BY <1>1, <1>2, <1>3, <1>4 DEF BaselineIsLast, Halfway
<1> QED  BY <1>5, <1>6, <1>7 DEF RunInv

LEMMA MutationSent ==
    ASSUME RunInv, RunShape, SendMutation
    PROVE  RunInv'
<1>1. /\ run.pc = "mutation" /\ runs' = runs
      /\ sent' \in {sent, sent \cup {Request(2)}}
      /\ \/ run' = [run EXCEPT !.pc = "awaitMutation", !.count = 2]
         \/ run' = [run EXCEPT !.pc = "evidence"]
  BY DEF SendMutation, Send, Goto
<1>2. run'.pc \in {"awaitMutation", "evidence"}
  BY <1>1 DEF RunShape, Fields
<1>3. runs \in 1..MaxRuns /\ Request(2).run = runs
  BY <1>1 DEF RunInv, RunsCounted, Request
<1>4. RunsCounted'
  BY <1>1, <1>3, ExecutionAssumption DEF RunInv, RunsCounted
<1> QED  BY <1>2, <1>4 DEF RunInv, FreshRunIsNewer, BaselineIsLast,
                           CredentialKnown, Fresh, Halfway

LEMMA RunKeeps == GateInv /\ [Running \/ CrashRun]_vars => RunInv'
<1> SUFFICES ASSUME GateInv, [Running \/ CrashRun]_vars PROVE RunInv'
  OBVIOUS
<1>0. RunInv /\ RunShape /\ FilesTyped
  BY DEF GateInv, AuthorityInv
<1>1. CASE Authenticate \/ Edits \/ Gate \/ UNCHANGED vars
  <2>1. UNCHANGED <<run, runs, sent>>
    BY <1>1 DEF Authenticate, Edits, Gate, EditPlan, RemovePlan,
         EditApprovalStatus, ChangePolicy, ChangeInputs, GeneratePlan,
         ReviewApproval, RecordApproval, DeclineApproval, runVars, vars
  <2> QED  BY <1>0, <2>1, RunStands
<1>2. CASE ReviewAuthority
  <2>1. /\ runs < MaxRuns /\ runs' = runs + 1 /\ sent' = sent
        /\ run'.pc = "confirm"
    BY <1>2 DEF ReviewAuthority, IdleRun
  <2>2. runs' \in 1..MaxRuns /\ \A q \in sent : q.run \in 0..runs' /\ q.run < runs'
    BY <1>0, <2>1, ExecutionAssumption DEF RunInv, RunsCounted
  <2> QED  BY <2>1, <2>2 DEF RunInv, RunsCounted, FreshRunIsNewer,
                             BaselineIsLast, CredentialKnown, Fresh, Halfway
<1>3. CASE Confirm
  <2>1. run.pc = "confirm" /\ UNCHANGED <<runs, sent>> /\ (Goto("prepare") \/ End)
    BY <1>3 DEF Confirm, Quiet
  <2> QED  BY <1>0, <2>1, RunEnds, RunMoves DEF Goto, Fresh
<1>4. CASE Prepare
  <2>1. run.pc = "prepare" /\ UNCHANGED <<runs, sent>>
    BY <1>4 DEF Prepare, Quiet
  <2>2. CASE End
    BY <1>0, <2>1, <2>2, RunEnds
  <2>3. CASE run' = [run EXCEPT !.pc = "preflight", !.plan = plan.body,
                                !.policy = PolicyChecksum]
    <3>1. run'.pc = "preflight"
      BY <1>0, <2>3 DEF RunShape, Fields
    <3> QED  BY <1>0, <2>1, <3>1
             DEF RunInv, RunsCounted, FreshRunIsNewer, BaselineIsLast,
                 CredentialKnown, Fresh, Halfway
  <2> QED  BY <1>4, <2>2, <2>3 DEF Prepare
<1>5. CASE Preflight
  <2>1. /\ run.pc \in {"preflight", "recheck"} /\ UNCHANGED <<runs, sent>>
        /\ Goto("headers") \/ End
    BY <1>5 DEF Preflight, Quiet
  <2> QED  BY <1>0, <2>1, RunEnds, RunMoves DEF Goto, Fresh
<1>6. CASE RefreshBeforeRun
  <2>1. /\ run.pc = "preflight" /\ UNCHANGED <<runs, sent>>
        /\ \/ End
           \/ run' = [run EXCEPT !.pc = "recheck", !.refreshed = TRUE]
    BY <1>6 DEF RefreshBeforeRun
  <2>2. CASE End
    BY <1>0, <2>1, <2>2, RunEnds
  <2>3. CASE run' = [run EXCEPT !.pc = "recheck", !.refreshed = TRUE]
    <3>1. run'.pc = "recheck"
      BY <1>0, <2>3 DEF RunShape, Fields
    <3> QED  BY <1>0, <2>1, <3>1
             DEF RunInv, RunsCounted, FreshRunIsNewer, BaselineIsLast,
                 CredentialKnown, Fresh, Halfway
  <2> QED  BY <2>1, <2>2, <2>3
<1>7. CASE ResolveHeaders
  <2>1. run.pc = "headers" /\ UNCHANGED <<runs, sent>>
    BY <1>7 DEF ResolveHeaders, Quiet
  <2>2. CASE End
    BY <1>0, <2>1, <2>2, RunEnds
  <2>3. CASE /\ vault["access"] # Nobody
             /\ run' = [run EXCEPT !.pc = "baseline", !.cred = vault["access"]]
    <3>1. run'.pc = "baseline" /\ run'.cred = vault["access"]
      BY <1>0, <2>3 DEF RunShape, Fields
    <3>2. vault["access"] \in Subjects
      BY <1>0, <2>3 DEF FilesTyped, Vaults, Refs, Owners
    <3> QED  BY <1>0, <2>1, <3>1, <3>2
             DEF RunInv, RunsCounted, FreshRunIsNewer, BaselineIsLast,
                 CredentialKnown, Fresh, Halfway
  <2> QED  BY <1>7, <2>2, <2>3 DEF ResolveHeaders
<1>8. CASE SendBaseline
  BY <1>0, <1>8, BaselineSent
<1>9. CASE SendMutation
  BY <1>0, <1>9, MutationSent
<1>10. CASE BaselineAnswered \/ MarkBaseline
  <2>1. /\ run.pc \in {"awaitBaseline", "ran"} /\ UNCHANGED <<runs, sent>>
        /\ \E p \in {"refused", "evidence", "ran", "mutation"} :
              run' = [run EXCEPT !.pc = p]
    BY <1>10 DEF BaselineAnswered, MarkBaseline, Mark, Goto, Quiet
  <2>2. PICK p \in {"refused", "evidence", "ran", "mutation"} :
            run' = [run EXCEPT !.pc = p]
    BY <2>1
  <2>3. \/ run.pc \in Halfway /\ p \in Halfway
        \/ p \notin Fresh \cup Halfway
    BY <2>1 DEF Fresh, Halfway
  <2> QED  BY <1>0, <2>1, <2>2, <2>3, RunMoves
<1>11. CASE MutationAnswered \/ MarkRefused \/ IndexEvidence
  <2>1. /\ run.pc # "idle" /\ UNCHANGED <<runs, sent>>
        /\ \E p \in {"refused", "evidence", "audit"} : run' = [run EXCEPT !.pc = p]
    BY <1>11 DEF MutationAnswered, MarkRefused, IndexEvidence, Mark, Goto, Quiet
  <2>2. PICK p \in {"refused", "evidence", "audit"} : run' = [run EXCEPT !.pc = p]
    BY <2>1
  <2>3. p \notin Fresh \cup Halfway
    BY DEF Fresh, Halfway
  <2> QED  BY <1>0, <2>1, <2>2, <2>3, RunMoves
<1>12. CASE WriteEvidence
  <2>1. /\ run.pc = "evidence" /\ UNCHANGED <<runs, sent>>
        /\ run' = [run EXCEPT !.pc = "index", !.rev = NextRevision]
    BY <1>12 DEF WriteEvidence
  <2>2. run'.pc = "index"
    BY <1>0, <2>1 DEF RunShape, Fields
  <2> QED  BY <1>0, <2>1, <2>2
           DEF RunInv, RunsCounted, FreshRunIsNewer, BaselineIsLast,
               CredentialKnown, Fresh, Halfway
<1>13. CASE WriteAudit \/ CrashRun
  <2>1. End /\ UNCHANGED <<runs, sent>>
    BY <1>13 DEF WriteAudit, CrashRun, Quiet
  <2> QED  BY <1>0, <2>1, RunEnds
<1> QED
  BY <1>1, <1>2, <1>3, <1>4, <1>5, <1>6, <1>7, <1>8, <1>9, <1>10, <1>11, <1>12,
     <1>13 DEF Running, RunnerStep

-----------------------------------------------------------------------------
(* The refinement                                                          *)

LEMMA InitGate == Init => GateInv
<1> SUFFICES ASSUME Init PROVE GateInv
  OBVIOUS
<1>1. FilesTyped
  <2>1. PICK c \in Candidates :
            /\ c.owner = Self
            /\ auth \in {StoredProfile(Missing, c),
                         Marked(StoredProfile(Missing, c), "confirmed")}
            /\ vault = Stored([r \in Refs |-> Nobody], {<<"access", c.owner>>})
    BY DEF Init
  <2>2. c \in CandidateType
    BY CandidatesAssumption DEF CandidateType, Hints
  <2>3. auth \in Profiles
    BY <2>1, <2>2, MissingType, StoredProfileType, MarkedType DEF Facts
  <2>4. vault \in Vaults
    BY <2>1 DEF Stored, Vaults, Owners
  <2> QED  BY <2>3, <2>4, ExecutionAssumption DEF Init, FilesTyped
<1>2. run.pc = "idle" /\ runs = 0 /\ sent = {} /\ plan = NoPlan
  BY IdleRunShape DEF Init
<1>3. PlanTyped /\ RunInv
  BY <1>2, ExecutionAssumption
     DEF PlanTyped, RunInv, RunsCounted, FreshRunIsNewer, BaselineIsLast,
         CredentialKnown, Fresh, Halfway
<1> QED  BY <1>1, <1>3, InitAuthority DEF GateInv

LEMMA NextGate == GateInv /\ [Running \/ CrashRun]_vars => GateInv'
  BY NextAuthority, FilesStayTyped, RunKeeps DEF GateInv

\* A step of the gate is a step of its promise, or none.
LEMMA StepsImplement ==
    GateInv /\ [Running \/ CrashRun]_vars
        => [Authority!Next]_<<decisions, sent>>
<1> SUFFICES ASSUME GateInv, [Running \/ CrashRun]_vars,
                    ~UNCHANGED <<decisions, sent>>
             PROVE  Authority!Next
  OBVIOUS
<1>1. RecordApproval \/ SendBaseline \/ SendMutation
  BY DEF Running, RunnerStep, Authenticate, Edits, EditPlan, RemovePlan,
         EditApprovalStatus, ChangePolicy, ChangeInputs, Gate, GeneratePlan,
         ReviewApproval, DeclineApproval, ReviewAuthority, Confirm, Prepare,
         Preflight, RefreshBeforeRun, ResolveHeaders, BaselineAnswered,
         MutationAnswered, MarkBaseline, MarkRefused, Mark, WriteEvidence,
         IndexEvidence, WriteAudit, CrashRun, Quiet, gateVars, runVars, vars
<1>2. CASE RecordApproval
  <2>1. /\ decisions' = decisions \cup {[plan |-> plan.body, policy |-> PolicyChecksum]}
        /\ sent' = sent
    BY <1>2 DEF RecordApproval, runVars
  <2>2. plan.body \in Bodies /\ PolicyChecksum \in PolicySums
    BY <1>2, PolicySumTyped DEF RecordApproval, Approvable, GateInv, PlanTyped
  <2>3. Authority!Decide(plan.body, PolicyChecksum)
    BY <2>1 DEF Authority!Decide
  <2> QED  BY <2>2, <2>3 DEF Authority!Next
<1>3. CASE SendBaseline
  <2> DEFINE d == [plan |-> run.plan, policy |-> run.policy]
  <2>1. /\ run.pc = "baseline" /\ decisions' = decisions
        /\ sent' = sent \cup {Request(1)}
    BY <1>3 DEF SendBaseline, Send, gateVars
  <2>2. /\ runs \in 1..MaxRuns /\ \A q \in sent : q.run < runs
        /\ run.cred \in Subjects
    BY <2>1 DEF GateInv, RunInv, RunsCounted, FreshRunIsNewer, CredentialKnown,
                Fresh
  <2>3. d \in decisions
    BY <2>1 DEF GateInv, AuthorityInv, RunStems, Unprepared
  <2>4. Request(1) = [run |-> runs, n |-> 1, plan |-> d.plan,
                      policy |-> d.policy, cred |-> run.cred]
    BY DEF Request
  <2>5. Authority!SendFirst(runs, d, run.cred)
    BY <2>1, <2>2, <2>4 DEF Authority!SendFirst
  <2> QED  BY <2>2, <2>3, <2>5 DEF Authority!Next
<1>4. CASE SendMutation
  <2>1. /\ run.pc = "mutation" /\ decisions' = decisions
        /\ sent' = sent \cup {Request(2)}
    BY <1>4 DEF SendMutation, Send, gateVars
  <2>2. /\ Request(1) \in sent
        /\ \A p \in sent : p.run < Request(1).run \/ p = Request(1)
    BY <2>1 DEF GateInv, RunInv, BaselineIsLast, Halfway, Request
  <2>3. Request(2) = [Request(1) EXCEPT !.n = 2] /\ Request(1).n = 1
    BY DEF Request
  <2>4. Authority!SendSecond(Request(1))
    BY <2>1, <2>2, <2>3 DEF Authority!SendSecond
  <2> QED  BY <2>2, <2>4 DEF Authority!Next
<1> QED  BY <1>1, <1>2, <1>3, <1>4

\* Whatever is edited, regenerated, re-authenticated or killed, the gate of
\* execution/policy.py and the runner of execution/runner.py keep the promise
\* of AuthorityGate: at most a baseline and then a mutation per execution,
\* both under one recorded decision and with one credential.
THEOREM GateImplementsAuthority == CrashSpec => ImplementsAuthority
<1>1. Init => Authority!Init
  BY DEF Init, Authority!Init
<1> QED  BY <1>1, InitGate, NextGate, StepsImplement, PTL
         DEF CrashSpec, ImplementsAuthority, Authority!Spec

-----------------------------------------------------------------------------
(***************************************************************************)
(* Proof of what the runner's preflight is worth when nothing else runs    *)
(* during an execution (Serial): whatever was captured, renewed, refreshed *)
(* and checked before, the credential it sends is one of the actor's own   *)
(* account, and a run that refreshed it sends nothing.  Without Serial     *)
(* neither holds: the runner reads the secret again after the preflight.   *)
(***************************************************************************)

Past == {"headers", "baseline"} \cup Halfway

RunIsOwn ==
    /\ Own(auth, vault)
    /\ run.refreshed => run.pc = "recheck" /\ ~auth.accepted
    /\ run.pc \in Past => vault["access"] = Self
    /\ run.pc \in Past \ {"headers"} => run.cred = Self
    /\ SentCredentialIsOwn

SerialInv == GateInv /\ RunIsOwn

-----------------------------------------------------------------------------
LEMMA IdleUnrefreshed == ~IdleRun.refreshed
  BY DEF IdleRun

\* Steps that leave the runner, the profile and the store alone.
LEMMA OwnStands ==
    ASSUME RunIsOwn, UNCHANGED <<auth, vault, run, sent>>
    PROVE  RunIsOwn'
  BY DEF RunIsOwn, Own, SentCredentialIsOwn

LEMMA OwnEnds ==
    ASSUME RunIsOwn, End, Own(auth', vault'), sent' = sent
    PROVE  RunIsOwn'
<1>1. run'.pc = "idle" /\ ~run'.refreshed
  BY IdleRunShape, IdleUnrefreshed DEF End
<1> QED  BY <1>1 DEF RunIsOwn, Own, SentCredentialIsOwn, Past, Halfway

\* A run that has not refreshed moves on.
LEMMA OwnMoves ==
    ASSUME RunIsOwn, RunShape, NEW p, run' = [run EXCEPT !.pc = p],
           run.pc # "recheck",
           UNCHANGED <<vault, sent>>, Own(auth', vault'),
           \/ p \notin Past
           \/ run.pc \in Halfway /\ p \in Halfway
    PROVE  RunIsOwn'
<1>1. /\ run'.pc = p /\ run'.cred = run.cred /\ run'.refreshed = run.refreshed
  BY DEF RunShape, Fields
<1> QED  BY <1>1 DEF RunIsOwn, Own, SentCredentialIsOwn, Past, Halfway

\* A refresh keeps Own, and one that stored its token dropped the acceptance.
LEMMA RefreshOwn ==
    ASSUME FilesTyped, Own(auth, vault), Refresh
    PROVE  Own(auth', vault') /\ (RefreshStores => ~auth'.accepted)
<1>1. /\ auth \in Profiles /\ vault \in Vaults /\ vault["refresh"] \in Owners
      /\ CanRefresh(auth, vault) /\ "fresh" \in Lifetimes
  BY DEF FilesTyped, Vaults, Refs, Refresh, RefreshRaises, RefreshStores, Lifetimes
<1>2. RefreshHints \subseteq Hints
  BY <1>1 DEF CanRefresh, RefreshHints, Owners, Hints
<1>3. CASE Perform(RefreshFailedWrites(auth)) /\ ~RefreshStores
  BY <1>1, <1>3, RefreshFailedLeads DEF Perform, Leads
<1>4. ASSUME NEW hint \in RefreshHints, Perform(Renewed(hint))
      PROVE  /\ Own(auth', vault')
             /\ Continuity(auth.hint, hint) # "CHANGED" => ~auth'.accepted
  <2>1. Leads(auth, vault, Renewed(hint))
    BY <1>1, <1>2, RefreshLeads DEF Renewed
  <2>2. Continuity(auth.hint, hint) # "CHANGED"
            => ~AuthAfter(auth, Renewed(hint)).accepted
    BY <1>1, <1>2, RefreshOutcome DEF Renewed
  <2> QED  BY <1>4, <2>1, <2>2 DEF Perform, Leads
<1>5. CASE RefreshStores
  BY <1>4, <1>5 DEF RefreshStores
<1>6. CASE ~RefreshStores
  BY <1>3, <1>4, <1>6 DEF Refresh, RefreshRaises
<1> QED  BY <1>5, <1>6

LEMMA AuthenticateOwn ==
    ASSUME FilesTyped, Own(auth, vault), Authenticate
    PROVE  Own(auth', vault')
<1>0. auth \in Profiles /\ vault \in Vaults
  BY DEF FilesTyped
<1>1. CASE \E c \in Candidates : Perform(StoreWrites(auth, c))
  <2>1. PICK c \in Candidates : Perform(StoreWrites(auth, c))
    BY <1>1
  <2>2. c \in CandidateType
    BY CandidatesAssumption DEF CandidateType
  <2> QED  BY <1>0, <2>1, <2>2, StoreLeads DEF Perform, Leads
<1>2. CASE Perform(ClearWrites(auth))
  BY <1>0, <1>2, ClearLeads DEF Perform, Leads
<1>3. CASE \E o \in Subjects : Perform(ConfigureWrites(auth, o))
  BY <1>0, <1>3, ConfigureLeads DEF Perform, Leads
<1>4. CASE Refresh
  BY <1>4, RefreshOwn
<1>5. CASE Check
  <2>1. PICK f \in {"login", "matched", "confirmed", "unexpected"} :
            /\ f = "confirmed" => vault["access"] = Self
            /\ Perform(<<PutFact(f)>>)
    BY <1>5 DEF Check
  <2> QED  BY <1>0, <2>1, FactLeads DEF Perform, Leads
<1>6. CASE Tick
  <2>1. auth' = [auth EXCEPT !.life = "soon"] /\ vault' = vault
    BY <1>6 DEF Tick
  <2> QED  BY <1>0, <2>1 DEF Own, Profiles
<1> QED  BY <1>1, <1>2, <1>3, <1>4, <1>5, <1>6 DEF Authenticate

\* A request is sent with the credential the run holds.
LEMMA SendOwn ==
    ASSUME RunIsOwn, RunShape, NEW n, NEW await, Send(n, await),
           run.pc \in {"baseline", "mutation"},
           await \in {"awaitBaseline", "awaitMutation"}
    PROVE  RunIsOwn'
<1>1. /\ sent' \subseteq sent \cup {Request(n)}
      /\ UNCHANGED <<auth, vault>>
      /\ \/ run' = [run EXCEPT !.pc = await, !.count = n]
         \/ run' = [run EXCEPT !.pc = "evidence"]
  BY DEF Send, Goto, authVars
<1>2. /\ run'.pc \in {await, "evidence"} /\ run'.cred = run.cred
      /\ run'.refreshed = run.refreshed
  BY <1>1 DEF RunShape, Fields
<1>3. run.cred = Self /\ ~run.refreshed /\ vault["access"] = Self
  BY DEF RunIsOwn, Past, Halfway
<1>4. SentCredentialIsOwn'
  <2>1. Request(n).cred = Self
    BY <1>3 DEF Request
  <2> QED  BY <1>1, <2>1 DEF RunIsOwn, SentCredentialIsOwn
<1> QED  BY <1>1, <1>2, <1>3, <1>4 DEF RunIsOwn, Own, Past, Halfway

-----------------------------------------------------------------------------
LEMMA InitSerial == Init => SerialInv
<1> SUFFICES ASSUME Init PROVE RunIsOwn
  BY InitGate DEF SerialInv
<1>1. PICK c \in Candidates :
          /\ c.owner = Self
          /\ auth \in {StoredProfile(Missing, c),
                       Marked(StoredProfile(Missing, c), "confirmed")}
          /\ vault = Stored([r \in Refs |-> Nobody], {<<"access", c.owner>>})
  BY DEF Init
<1>2. vault["access"] = Self
  <2>1. Self \in Owners /\ "access" \in Refs
    BY SubjectsAssumption DEF Owners, Refs
  <2> QED  BY <1>1, <2>1 DEF Stored
<1>3. run = IdleRun /\ sent = {}
  BY DEF Init
<1> QED  BY <1>2, <1>3, IdleRunShape, IdleUnrefreshed
         DEF RunIsOwn, Own, SentCredentialIsOwn, Past, Halfway

LEMMA RunnerKeepsOwn ==
    ASSUME SerialInv, ReviewAuthority \/ Confirm \/ RunnerStep
    PROVE  RunIsOwn'
<1>0. RunIsOwn /\ RunShape /\ FilesTyped
  BY DEF SerialInv, GateInv, AuthorityInv
<1> USE DEF authVars
<1>1. CASE ReviewAuthority
  <2>1. /\ run'.pc = "confirm" /\ run'.refreshed = FALSE
        /\ UNCHANGED <<auth, vault, sent>>
    BY <1>1 DEF ReviewAuthority, IdleRun
  <2> QED  BY <1>0, <2>1 DEF RunIsOwn, Own, SentCredentialIsOwn, Past, Halfway
<1>2. CASE Confirm
  <2>1. /\ run.pc = "confirm" /\ UNCHANGED <<auth, vault, sent>>
        /\ Goto("prepare") \/ End
    BY <1>2 DEF Confirm, Quiet
  <2>2. Own(auth', vault') /\ "prepare" \notin Past
    BY <1>0, <2>1 DEF RunIsOwn, Past, Halfway
  <2> QED  BY <1>0, <2>1, <2>2, OwnEnds, OwnMoves DEF Goto
<1>3. CASE Prepare
  <2>1. run.pc = "prepare" /\ UNCHANGED <<auth, vault, sent>>
    BY <1>3 DEF Prepare, Quiet
  <2>2. CASE End
    BY <1>0, <2>1, <2>2, OwnEnds DEF RunIsOwn
  <2>3. CASE run' = [run EXCEPT !.pc = "preflight", !.plan = plan.body,
                                !.policy = PolicyChecksum]
    <3>1. run'.pc = "preflight" /\ run'.refreshed = run.refreshed
      BY <1>0, <2>3 DEF RunShape, Fields
    <3> QED  BY <1>0, <2>1, <3>1
             DEF RunIsOwn, Own, SentCredentialIsOwn, Past, Halfway
  <2> QED  BY <1>3, <2>2, <2>3 DEF Prepare
<1>4. CASE Preflight
  <2>1. run.pc \in {"preflight", "recheck"} /\ UNCHANGED <<auth, vault, sent>>
    BY <1>4 DEF Preflight, Quiet
  <2>2. CASE End
    BY <1>0, <2>1, <2>2, OwnEnds DEF RunIsOwn
  <2>3. CASE PreflightPasses /\ Goto("headers")
    <3>1. auth.accepted /\ auth.confirmed
      BY <2>3 DEF PreflightPasses, ReadyToExecute
    <3>2. vault["access"] = Self /\ ~run.refreshed
      BY <1>0, <3>1 DEF RunIsOwn, Own
    <3>3. run'.pc = "headers" /\ run'.refreshed = run.refreshed
      BY <1>0, <2>3 DEF Goto, RunShape, Fields
    <3> QED  BY <1>0, <2>1, <3>2, <3>3
             DEF RunIsOwn, Own, SentCredentialIsOwn, Past, Halfway
  <2> QED  BY <1>4, <2>2, <2>3 DEF Preflight
<1>5. CASE RefreshBeforeRun
  <2>1. sent' = sent /\ Refresh
    BY <1>5 DEF RefreshBeforeRun, Refresh
  <2>2. Own(auth', vault') /\ (RefreshStores => ~auth'.accepted)
    BY <1>0, <2>1, RefreshOwn DEF RunIsOwn
  <2>3. CASE End
    BY <1>0, <2>1, <2>2, <2>3, OwnEnds
  <2>4. CASE RefreshStores
             /\ run' = [run EXCEPT !.pc = "recheck", !.refreshed = TRUE]
    <3>1. run'.pc = "recheck"
      BY <1>0, <2>4 DEF RunShape, Fields
    <3> QED  BY <1>0, <2>1, <2>2, <2>4, <3>1
             DEF RunIsOwn, Own, SentCredentialIsOwn, Past, Halfway
  <2> QED  BY <1>5, <2>3, <2>4 DEF RefreshBeforeRun
<1>6. CASE ResolveHeaders
  <2>1. run.pc = "headers" /\ UNCHANGED <<auth, vault, sent>>
    BY <1>6 DEF ResolveHeaders, Quiet
  <2>2. CASE End
    BY <1>0, <2>1, <2>2, OwnEnds DEF RunIsOwn
  <2>3. CASE run' = [run EXCEPT !.pc = "baseline", !.cred = vault["access"]]
    <3>1. /\ run'.pc = "baseline" /\ run'.cred = vault["access"]
          /\ run'.refreshed = run.refreshed
      BY <1>0, <2>3 DEF RunShape, Fields
    <3> QED  BY <1>0, <2>1, <3>1
             DEF RunIsOwn, Own, SentCredentialIsOwn, Past, Halfway
  <2> QED  BY <1>6, <2>2, <2>3 DEF ResolveHeaders
<1>7. CASE SendBaseline
  BY <1>0, <1>7, SendOwn DEF SendBaseline
<1>8. CASE SendMutation
  BY <1>0, <1>8, SendOwn DEF SendMutation
<1>9. CASE BaselineAnswered \/ MutationAnswered \/ IndexEvidence
  <2>1. /\ run.pc \in {"awaitBaseline", "awaitMutation", "index"}
        /\ UNCHANGED <<auth, vault, sent>>
        /\ \E p \in {"refused", "evidence", "ran", "audit"} :
              /\ run' = [run EXCEPT !.pc = p]
              /\ p = "ran" => run.pc \in Halfway
    BY <1>9 DEF BaselineAnswered, MutationAnswered, IndexEvidence, Goto, Quiet,
                Halfway
  <2>2. PICK p \in {"refused", "evidence", "ran", "audit"} :
            /\ run' = [run EXCEPT !.pc = p]
            /\ p = "ran" => run.pc \in Halfway
    BY <2>1
  <2>3. p \notin Past \/ (run.pc \in Halfway /\ p \in Halfway)
    BY <2>2 DEF Past, Halfway
  <2>4. Own(auth', vault')
    BY <1>0, <2>1 DEF RunIsOwn
  <2> QED  BY <1>0, <2>1, <2>2, <2>3, <2>4, OwnMoves
<1>10. CASE MarkBaseline
  <2>1. /\ run.pc = "ran" /\ run' = [run EXCEPT !.pc = "mutation"]
        /\ UNCHANGED <<vault, sent>>
    BY <1>10 DEF MarkBaseline, Mark, Goto
  <2>2. Own(auth', vault') /\ run.pc \in Halfway /\ "mutation" \in Halfway
    BY <1>0, <2>1 DEF RunIsOwn, Own, Past, Halfway
  <2> QED  BY <1>0, <2>1, <2>2, OwnMoves
<1>11. CASE MarkRefused
  <2>1. /\ run.pc = "refused" /\ run' = [run EXCEPT !.pc = "evidence"]
        /\ UNCHANGED <<vault, sent>> /\ auth' = Marked(auth, "refused")
    BY <1>11 DEF MarkRefused, Mark, Goto
  <2>2. ~auth'.accepted
    BY <1>0, <2>1 DEF Marked, FilesTyped, Profiles
  <2>3. Own(auth', vault') /\ "evidence" \notin Past
    BY <2>2 DEF Own, Past, Halfway
  <2> QED  BY <1>0, <2>1, <2>3, OwnMoves
<1>12. CASE WriteEvidence
  <2>1. /\ run.pc = "evidence" /\ UNCHANGED <<auth, vault, sent>>
        /\ run' = [run EXCEPT !.pc = "index", !.rev = NextRevision]
    BY <1>12 DEF WriteEvidence
  <2>2. run'.pc = "index" /\ run'.refreshed = run.refreshed
    BY <1>0, <2>1 DEF RunShape, Fields
  <2> QED  BY <1>0, <2>1, <2>2
           DEF RunIsOwn, Own, SentCredentialIsOwn, Past, Halfway
<1>13. CASE WriteAudit
  BY <1>0, <1>13, OwnEnds DEF WriteAudit, RunIsOwn
<1> QED
  BY <1>1, <1>2, <1>3, <1>4, <1>5, <1>6, <1>7, <1>8, <1>9, <1>10, <1>11, <1>12,
     <1>13 DEF RunnerStep

LEMMA NextSerial == Serial /\ SerialInv /\ [Running]_vars => SerialInv'
<1> SUFFICES ASSUME Serial, SerialInv, [Running]_vars PROVE RunIsOwn'
  BY NextGate DEF SerialInv
<1>0. RunIsOwn /\ RunShape /\ FilesTyped
  BY DEF SerialInv, GateInv, AuthorityInv
<1>1. CASE Authenticate
  <2>1. run.pc = "idle" /\ run' = run /\ sent' = sent
    BY <1>1 DEF Authenticate, Beside, Executing, runVars
  <2>2. Own(auth', vault')
    BY <1>0, <1>1, AuthenticateOwn DEF RunIsOwn
  <2> QED  BY <1>0, <2>1, <2>2
           DEF RunIsOwn, Own, SentCredentialIsOwn, Past, Halfway
<1>2. CASE Edits \/ Gate \/ UNCHANGED vars
  <2>1. UNCHANGED <<auth, vault, run, sent>>
    BY <1>2 DEF Edits, Gate, EditPlan, RemovePlan, EditApprovalStatus,
         ChangePolicy, ChangeInputs, GeneratePlan, ReviewApproval,
         RecordApproval, DeclineApproval, authVars, runVars, vars
  <2> QED  BY <1>0, <2>1, OwnStands
<1>3. CASE ReviewAuthority \/ Confirm \/ RunnerStep
  BY <1>3, RunnerKeepsOwn
<1> QED  BY <1>1, <1>2, <1>3 DEF Running

\* With nothing beside the runner, every request goes out with a credential
\* of the actor's own account (_runtime_headers, actor_preflight).
THEOREM RequestsAreOwn == ASSUME Serial PROVE Spec => []SentCredentialIsOwn
<1>1. SerialInv => SentCredentialIsOwn
  BY DEF SerialInv, RunIsOwn
<1>2. SerialInv /\ [Running]_vars => SerialInv'
  BY NextSerial
<1> QED  BY InitSerial, <1>1, <1>2, PTL DEF Spec

\* With nothing beside the runner, a run that refreshed the credential stops
\* at its second preflight (runner.py, execute_prepared).
THEOREM RefreshStopsTheRun == ASSUME Serial PROVE Spec => []RefreshedRunSendsNothing
<1>1. SerialInv => RefreshedRunSendsNothing
  BY DEF SerialInv, RunIsOwn, RefreshedRunSendsNothing
<1>2. SerialInv /\ [Running]_vars => SerialInv'
  BY NextSerial
<1> QED  BY InitSerial, <1>1, <1>2, PTL DEF Spec

-----------------------------------------------------------------------------
(***************************************************************************)
(* Proof of what the files an execution leaves can be trusted for, with    *)
(* executions killed at any step: a revision belongs to one execution, and *)
(* an audit record tells what its execution sent.                          *)
(*                                                                         *)
(* The revisions in use are an initial segment of the numbers, because a   *)
(* new one follows both the evidence directories and the audit records.    *)
(* For the audits, an execution must be seen to be the last one that sent  *)
(* while it runs, and its count to be right up to one lost connection.     *)
(***************************************************************************)

Marks == {<<e.rev, e.run>> : e \in evidence} \cup {<<a.rev, a.run>> : a \in audit}
Used == {0} \cup {e.rev : e \in evidence} \cup {a.rev : a \in audit}

RevisionsGapless == \E k \in Nat : Used = 0..k

\* Evidence written, or written and indexed, before the audit record.
EvidenceIsThere ==
    /\ run.pc \in {"index", "audit"}
           => \E e \in evidence : e.rev = run.rev /\ e.run = runs
    /\ run.pc = "audit"
           => \E e \in evidence : e.rev = run.rev /\ e.run = runs /\ e.indexed

EvidenceShape == evidence \subseteq [rev : Nat, run : Nat, indexed : BOOLEAN]

RevisionInv == RevisionsGapless /\ RevisionsNeverShared /\ EvidenceShape
                   /\ EvidenceIsThere

\* What an execution sent.
SentBy(r) == {s \in sent : s.run = r}

Counted(r, n) == /\ n \in Nat /\ IsFiniteSet(SentBy(r))
                 /\ Cardinality(SentBy(r)) \in {n, n + 1}

Ending == {"awaitMutation", "refused", "evidence", "index", "audit"}

CountInv ==
    /\ run.pc # "idle" => \A a \in audit : a.run < runs
    /\ \A a \in audit : a.run \in 0..runs /\ Counted(a.run, a.count)
    /\ run.pc \in Fresh => run.count = 0
    /\ run.pc \in Halfway => run.count = 1
    /\ run.pc \in Ending => Counted(runs, run.count)

AuditedIndexed ==
    \A a \in audit : \E e \in evidence : e.rev = a.rev /\ e.run = a.run /\ e.indexed

RecordInv == GateInv /\ RevisionInv /\ CountInv /\ AuditedIndexed

-----------------------------------------------------------------------------
(* Revisions                                                               *)

\* What one more record adds.
LEMMA OneMore ==
    ASSUME NEW S, NEW x
    PROVE  /\ {e.rev : e \in S \cup {x}} = {e.rev : e \in S} \cup {x.rev}
           /\ {<<e.rev, e.run>> : e \in S \cup {x}}
                  = {<<e.rev, e.run>> : e \in S} \cup {<<x.rev, x.run>>}
  OBVIOUS

LEMMA NextIsFree ==
    ASSUME NEW k \in Nat, Used = 0..k
    PROVE  NextRevision = k + 1
<1>1. Max(Used) = k
  <2>1. k \in 0..k /\ \A y \in 0..k : k >= y
    OBVIOUS
  <2>2. \A x \in 0..k : (\A y \in 0..k : x >= y) => x = k
    OBVIOUS
  <2> QED  BY <2>1, <2>2 DEF Max
<1> QED  BY <1>1 DEF NextRevision, Used

\* Steps that write neither evidence nor audit, and do not stay where they are
\* unless nothing of the run changes.
LEMMA FilesUntouched ==
    ASSUME RevisionInv, AuditedIndexed, UNCHANGED <<evidence, audit>>,
           \/ run'.pc \notin {"index", "audit"}
           \/ run' = run /\ runs' = runs
    PROVE  RevisionInv' /\ AuditedIndexed'
  BY DEF RevisionInv, RevisionsGapless, Used, RevisionsNeverShared, EvidenceShape,
         EvidenceIsThere, AuditedIndexed

LEMMA EvidenceWritten ==
    ASSUME RevisionInv, AuditedIndexed, RunShape, runs \in Nat, WriteEvidence
    PROVE  RevisionInv' /\ AuditedIndexed'
<1> DEFINE new == [rev |-> NextRevision, run |-> runs, indexed |-> FALSE]
<1>1. /\ evidence' = evidence \cup {new} /\ audit' = audit /\ runs' = runs
      /\ run' = [run EXCEPT !.pc = "index", !.rev = NextRevision]
  BY DEF WriteEvidence
<1>2. run'.pc = "index" /\ run'.rev = NextRevision
  BY <1>1 DEF RunShape, Fields
<1>3. PICK k \in Nat : Used = 0..k
  BY DEF RevisionInv, RevisionsGapless
<1>4. NextRevision = k + 1
  BY <1>3, NextIsFree
<1>5. RevisionsGapless'
  <2>1. Used' = Used \cup {k + 1}
    <3>1. {e.rev : e \in evidence'} = {e.rev : e \in evidence} \cup {k + 1}
      <4>1. new.rev = k + 1 /\ evidence' = evidence \cup {new}
        BY <1>1, <1>4
      <4> HIDE DEF new
      <4>2. {e.rev : e \in evidence \cup {new}} = {e.rev : e \in evidence} \cup {new.rev}
        BY OneMore
      <4> QED  BY <4>1, <4>2
    <3> QED  BY <1>1, <3>1 DEF Used
  <2>2. 0..(k + 1) = (0..k) \cup {k + 1}
    OBVIOUS
  <2> QED  BY <1>3, <2>1, <2>2 DEF RevisionsGapless
<1>6. RevisionsNeverShared'
  <2>1. Marks' = Marks \cup {<<k + 1, runs>>}
    <3>1. {<<e.rev, e.run>> : e \in evidence'}
              = {<<e.rev, e.run>> : e \in evidence} \cup {<<k + 1, runs>>}
      <4>1. new.rev = k + 1 /\ new.run = runs /\ evidence' = evidence \cup {new}
        BY <1>1, <1>4
      <4> HIDE DEF new
      <4>2. {<<e.rev, e.run>> : e \in evidence \cup {new}}
                = {<<e.rev, e.run>> : e \in evidence} \cup {<<new.rev, new.run>>}
        BY OneMore
      <4> QED  BY <4>1, <4>2
    <3> QED  BY <1>1, <3>1 DEF Marks
  <2>2. \A x \in Marks : x[1] \in Used
    BY DEF Marks, Used
  <2>3. \A x \in Marks : x[1] # k + 1
    BY <1>3, <2>2
  <2>4. \A x, y \in Marks : x[1] = y[1] => x = y
    BY DEF RevisionInv, RevisionsNeverShared, Marks
  <2>5. \A x, y \in Marks' : x[1] = y[1] => x = y
    BY <2>1, <2>3, <2>4
  <2> QED  BY <2>5 DEF RevisionsNeverShared, Marks
<1>7. EvidenceShape' /\ EvidenceIsThere'
  <2>1. new \in [rev : Nat, run : Nat, indexed : BOOLEAN]
    BY <1>4
  <2>2. EvidenceShape'
    BY <1>1, <2>1 DEF RevisionInv, EvidenceShape
  <2>3. new \in evidence' /\ new.rev = run'.rev /\ new.run = runs'
    BY <1>1, <1>2
  <2> HIDE DEF new
  <2> QED  BY <1>2, <2>2, <2>3 DEF EvidenceIsThere
<1>8. AuditedIndexed'
  BY <1>1 DEF AuditedIndexed
<1> QED  BY <1>5, <1>6, <1>7, <1>8 DEF RevisionInv

LEMMA EvidenceIndexed ==
    ASSUME RevisionInv, AuditedIndexed, RunShape, IndexEvidence
    PROVE  RevisionInv' /\ AuditedIndexed'
<1> DEFINE mark(e) == IF e.rev = run.rev THEN [e EXCEPT !.indexed = TRUE] ELSE e
<1>1. /\ run.pc = "index" /\ evidence' = {mark(e) : e \in evidence}
      /\ audit' = audit /\ runs' = runs /\ run' = [run EXCEPT !.pc = "audit"]
  BY DEF IndexEvidence, Goto
<1>2. run'.pc = "audit" /\ run'.rev = run.rev
  BY <1>1 DEF RunShape, Fields
<1>3. \A e \in evidence :
          /\ mark(e).rev = e.rev /\ mark(e).run = e.run
          /\ mark(e) \in [rev : Nat, run : Nat, indexed : BOOLEAN]
          /\ e.indexed => mark(e).indexed
          /\ e.rev = run.rev => mark(e).indexed
  BY DEF RevisionInv, EvidenceShape
<1> HIDE DEF mark
<1>4. Used' = Used /\ Marks' = Marks
  BY <1>1, <1>3 DEF Used, Marks
<1>5. RevisionsGapless' /\ RevisionsNeverShared'
  BY <1>4 DEF RevisionInv, RevisionsGapless, RevisionsNeverShared, Marks
<1>6. EvidenceShape'
  BY <1>1, <1>3 DEF EvidenceShape
<1>7. EvidenceIsThere'
  <2>1. PICK e \in evidence : e.rev = run.rev /\ e.run = runs
    BY <1>1 DEF RevisionInv, EvidenceIsThere
  <2>2. mark(e) \in evidence' /\ mark(e).rev = run.rev /\ mark(e).run = runs
        /\ mark(e).indexed
    BY <1>1, <1>3, <2>1
  <2> QED  BY <1>1, <1>2, <2>2 DEF EvidenceIsThere
<1>8. AuditedIndexed'
  <2> SUFFICES ASSUME NEW a \in audit
               PROVE  \E e \in evidence' : e.rev = a.rev /\ e.run = a.run /\ e.indexed
    BY <1>1 DEF AuditedIndexed
  <2>1. PICK e \in evidence : e.rev = a.rev /\ e.run = a.run /\ e.indexed
    BY DEF AuditedIndexed
  <2> QED  BY <1>1, <1>3, <2>1
<1> QED  BY <1>5, <1>6, <1>7, <1>8 DEF RevisionInv

LEMMA AuditWritten ==
    ASSUME RevisionInv, AuditedIndexed, WriteAudit
    PROVE  RevisionInv' /\ AuditedIndexed'
<1> DEFINE new == [rev |-> run.rev, run |-> runs, count |-> run.count]
<1>1. /\ run.pc = "audit" /\ audit' = audit \cup {new} /\ End
      /\ evidence' = evidence
  BY DEF WriteAudit
<1>2. run'.pc = "idle"
  BY <1>1, IdleRunShape DEF End
<1>3. PICK e \in evidence : e.rev = run.rev /\ e.run = runs /\ e.indexed
  BY <1>1 DEF RevisionInv, EvidenceIsThere
<1>4. Used' = Used /\ Marks' = Marks
  <2>1. Used' = Used \cup {run.rev} /\ Marks' = Marks \cup {<<run.rev, runs>>}
    <3>1. /\ {a.rev : a \in audit'} = {a.rev : a \in audit} \cup {run.rev}
          /\ {<<a.rev, a.run>> : a \in audit'}
                 = {<<a.rev, a.run>> : a \in audit} \cup {<<run.rev, runs>>}
      <4>1. new.rev = run.rev /\ new.run = runs /\ audit' = audit \cup {new}
        BY <1>1
      <4> HIDE DEF new
      <4>2. /\ {a.rev : a \in audit \cup {new}} = {a.rev : a \in audit} \cup {new.rev}
            /\ {<<a.rev, a.run>> : a \in audit \cup {new}}
                   = {<<a.rev, a.run>> : a \in audit} \cup {<<new.rev, new.run>>}
        BY OneMore
      <4> QED  BY <4>1, <4>2
    <3> QED  BY <1>1, <3>1 DEF Used, Marks
  <2>2. run.rev \in Used /\ <<run.rev, runs>> \in Marks
    BY <1>3 DEF Used, Marks
  <2> QED  BY <2>1, <2>2
<1>5. RevisionsGapless' /\ RevisionsNeverShared'
  BY <1>4 DEF RevisionInv, RevisionsGapless, RevisionsNeverShared, Marks
<1>6. EvidenceShape' /\ EvidenceIsThere'
  BY <1>1, <1>2 DEF RevisionInv, EvidenceShape, EvidenceIsThere
<1>7. AuditedIndexed'
  BY <1>1, <1>3 DEF AuditedIndexed
<1> QED  BY <1>5, <1>6, <1>7 DEF RevisionInv

LEMMA RevisionsKeep ==
    RecordInv /\ [Running \/ CrashRun]_vars => RevisionInv' /\ AuditedIndexed'
<1> SUFFICES ASSUME RecordInv, [Running \/ CrashRun]_vars
             PROVE  RevisionInv' /\ AuditedIndexed'
  OBVIOUS
<1>0. RevisionInv /\ AuditedIndexed /\ RunShape /\ runs \in Nat
  BY ExecutionAssumption DEF RecordInv, GateInv, AuthorityInv, RunInv, RunsCounted
<1>1. CASE WriteEvidence
  BY <1>0, <1>1, EvidenceWritten
<1>2. CASE IndexEvidence
  BY <1>0, <1>2, EvidenceIndexed
<1>3. CASE WriteAudit
  BY <1>0, <1>3, AuditWritten
<1>4. CASE Authenticate \/ Edits \/ Gate \/ UNCHANGED vars
  <2>1. UNCHANGED <<run, runs, evidence, audit>>
    BY <1>4 DEF Authenticate, Edits, Gate, EditPlan, RemovePlan,
         EditApprovalStatus, ChangePolicy, ChangeInputs, GeneratePlan,
         ReviewApproval, RecordApproval, DeclineApproval, runVars, vars
  <2> QED  BY <1>0, <2>1, FilesUntouched
<1>5. ASSUME UNCHANGED <<evidence, audit>>,
             \/ End
             \/ \E p \in {"confirm"} : run' = [IdleRun EXCEPT !.pc = p]
             \/ \E p \in (Fresh \cup Halfway \cup Ending) \ {"index", "audit"} :
                   \/ run' = [run EXCEPT !.pc = p]
                   \/ \E x, y : run' = [run EXCEPT !.pc = p, !.plan = x, !.policy = y]
                   \/ \E x : run' = [run EXCEPT !.pc = p, !.refreshed = x]
                   \/ \E x : run' = [run EXCEPT !.pc = p, !.cred = x]
                   \/ \E x : run' = [run EXCEPT !.pc = p, !.count = x]
      PROVE  RevisionInv' /\ AuditedIndexed'
  <2>1. run'.pc \in (Fresh \cup Halfway \cup Ending \cup {"idle"}) \ {"index", "audit"}
    BY <1>0, <1>5, IdleRunShape DEF End, RunShape, Fields, Fresh
  <2> QED  BY <1>0, <1>5, <2>1, FilesUntouched
<1>6. CASE ReviewAuthority \/ Confirm \/ CrashRun
  BY <1>5, <1>6 DEF ReviewAuthority, Confirm, CrashRun, Quiet, Goto, Fresh
<1>7. CASE Prepare \/ Preflight \/ RefreshBeforeRun \/ ResolveHeaders
  BY <1>5, <1>7 DEF Prepare, Preflight, RefreshBeforeRun, ResolveHeaders, Quiet,
                    Goto, Fresh
<1>8. CASE SendBaseline \/ SendMutation
  BY <1>5, <1>8 DEF SendBaseline, SendMutation, Send, Goto, Halfway, Ending
<1>9. CASE BaselineAnswered \/ MarkBaseline \/ MutationAnswered \/ MarkRefused
  BY <1>5, <1>9 DEF BaselineAnswered, MarkBaseline, MutationAnswered, MarkRefused,
                    Mark, Quiet, Goto, Halfway, Ending
<1> QED  BY <1>1, <1>2, <1>3, <1>4, <1>6, <1>7, <1>8, <1>9 DEF Running, RunnerStep

-----------------------------------------------------------------------------
(* Counts                                                                  *)

\* Nothing of the executions changes.
LEMMA CountStands ==
    ASSUME CountInv, UNCHANGED <<run, runs, sent, audit>>
    PROVE  CountInv'
  BY DEF CountInv, Counted, SentBy

LEMMA CountEnds ==
    ASSUME CountInv, End, UNCHANGED <<runs, sent, audit>>
    PROVE  CountInv'
<1>1. run'.pc = "idle"
  BY IdleRunShape DEF End
<1> QED  BY <1>1 DEF CountInv, Counted, SentBy, Fresh, Halfway, Ending

\* A run moves on within one of its three parts.
LEMMA CountMoves ==
    ASSUME CountInv, UNCHANGED <<runs, sent, audit>>, run.pc # "idle",
           run'.count = run.count,
           \/ run.pc \in Fresh /\ run'.pc \in Fresh
           \/ run.pc \in Halfway /\ run'.pc \in Halfway
           \/ run.pc \in Ending /\ run'.pc \in Ending
    PROVE  CountInv'
  BY DEF CountInv, Counted, SentBy, Fresh, Halfway, Ending

\* What a run has sent before its baseline, and between its two requests.
LEMMA SentByFresh ==
    ASSUME RunInv, run.pc \in Fresh
    PROVE  SentBy(runs) = {}
<1>1. \A q \in sent : q.run # runs
  BY DEF RunInv, FreshRunIsNewer, RunsCounted
<1> QED  BY <1>1 DEF SentBy

LEMMA SentByHalfway ==
    ASSUME RunInv, run.pc \in Halfway
    PROVE  SentBy(runs) = {Request(1)}
<1>1. /\ Request(1) \in sent /\ Request(1).run = runs
      /\ \A p \in sent : p.run # runs \/ p = Request(1)
  BY DEF RunInv, BaselineIsLast, RunsCounted, Request
<1> QED  BY <1>1 DEF SentBy

\* A further request adds one to what its run sent, and nothing to the others.
LEMMA RequestCounted ==
    ASSUME NEW n, NEW m \in Nat, runs' = runs,
           IsFiniteSet(SentBy(runs)), Cardinality(SentBy(runs)) = m,
           Request(n) \notin SentBy(runs)
    PROVE  /\ sent' = sent => Cardinality(SentBy(runs)') = m
           /\ sent' = sent \cup {Request(n)} => Cardinality(SentBy(runs)') = m + 1
           /\ sent' \in {sent, sent \cup {Request(n)}}
                  => /\ IsFiniteSet(SentBy(runs)')
                     /\ \A r : r # runs => SentBy(r)' = SentBy(r)
<1>1. CASE sent' = sent
  <2>1. \A r : SentBy(r)' = SentBy(r)
    BY <1>1 DEF SentBy
  <2>2. SentBy(runs)' = SentBy(runs)
    BY <1>1 DEF SentBy
  <2>3. sent' # sent \cup {Request(n)}
    BY <1>1 DEF SentBy, Request
  <2> QED  BY <2>1, <2>2, <2>3
<1>2. CASE sent' = sent \cup {Request(n)}
  <2>1. SentBy(runs)' = SentBy(runs) \cup {Request(n)}
    BY <1>2 DEF SentBy, Request
  <2>2. \A r : r # runs => SentBy(r)' = SentBy(r)
    BY <1>2 DEF SentBy, Request
  <2>3. sent' # sent
    BY <1>2 DEF SentBy, Request
  <2>4. /\ IsFiniteSet(SentBy(runs) \cup {Request(n)})
        /\ Cardinality(SentBy(runs) \cup {Request(n)}) = m + 1
    BY FS_AddElement
  <2> QED  BY <1>2, <2>1, <2>2, <2>3, <2>4
<1> QED  BY <1>1, <1>2

\* What else sending must not break: the audits of the executions before.
LEMMA AuditsStandWhileSending ==
    ASSUME CountInv, run.pc # "idle", runs \in Nat, UNCHANGED <<runs, audit>>,
           \A r : r # runs => SentBy(r)' = SentBy(r)
    PROVE  \A a \in audit' : /\ a.run < runs' /\ a.run \in 0..runs'
                             /\ Counted(a.run, a.count)'
<1> SUFFICES ASSUME NEW a \in audit
             PROVE  /\ a.run < runs /\ a.run \in 0..runs
                    /\ Counted(a.run, a.count)'
  OBVIOUS
<1>1. a.run < runs /\ a.run \in 0..runs /\ Counted(a.run, a.count)
  BY DEF CountInv
<1>2. SentBy(a.run)' = SentBy(a.run)
  BY <1>1
<1> QED  BY <1>1, <1>2 DEF Counted

LEMMA CountBaseline ==
    ASSUME CountInv, RunInv, RunShape, runs \in Nat, SendBaseline
    PROVE  CountInv'
<1>1. /\ run.pc = "baseline" /\ runs' = runs /\ audit' = audit
      /\ \/ /\ sent' = sent \cup {Request(1)}
            /\ run' = [run EXCEPT !.pc = "awaitBaseline", !.count = 1]
         \/ /\ sent' \in {sent, sent \cup {Request(1)}}
            /\ run' = [run EXCEPT !.pc = "evidence"]
  BY DEF SendBaseline, Send, Goto
<1>2. run.count = 0 /\ SentBy(runs) = {}
  BY <1>1, SentByFresh DEF CountInv, Fresh
<1>3. /\ sent' = sent => Cardinality(SentBy(runs)') = 0
      /\ sent' = sent \cup {Request(1)} => Cardinality(SentBy(runs)') = 1
      /\ IsFiniteSet(SentBy(runs)')
      /\ \A r : r # runs => SentBy(r)' = SentBy(r)
  BY <1>1, <1>2, FS_EmptySet, RequestCounted
<1>4. \/ run'.pc = "awaitBaseline" /\ run'.count = 1
      \/ run'.pc = "evidence" /\ run'.count = 0
  BY <1>1, <1>2 DEF RunShape, Fields
<1>5. \A a \in audit' : /\ a.run < runs' /\ a.run \in 0..runs'
                        /\ Counted(a.run, a.count)'
  BY <1>1, <1>3, AuditsStandWhileSending
<1>6. run'.pc = "evidence" => Counted(runs, run.count)'
  BY <1>1, <1>3, <1>4 DEF Counted
<1> QED  BY <1>4, <1>5, <1>6 DEF CountInv, Fresh, Halfway, Ending

LEMMA CountMutation ==
    ASSUME CountInv, RunInv, RunShape, runs \in Nat, SendMutation
    PROVE  CountInv'
<1>1. /\ run.pc = "mutation" /\ runs' = runs /\ audit' = audit
      /\ \/ /\ sent' = sent \cup {Request(2)}
            /\ run' = [run EXCEPT !.pc = "awaitMutation", !.count = 2]
         \/ /\ sent' \in {sent, sent \cup {Request(2)}}
            /\ run' = [run EXCEPT !.pc = "evidence"]
  BY DEF SendMutation, Send, Goto
<1>2. run.count = 1 /\ SentBy(runs) = {Request(1)}
  BY <1>1, SentByHalfway DEF CountInv, Halfway
<1>3. Request(2) \notin {Request(1)}
  BY DEF Request
<1>4. /\ sent' = sent => Cardinality(SentBy(runs)') = 1
      /\ sent' = sent \cup {Request(2)} => Cardinality(SentBy(runs)') = 2
      /\ IsFiniteSet(SentBy(runs)')
      /\ \A r : r # runs => SentBy(r)' = SentBy(r)
  BY <1>1, <1>2, <1>3, FS_Singleton, RequestCounted
<1>5. \/ run'.pc = "awaitMutation" /\ run'.count = 2 /\ sent' = sent \cup {Request(2)}
      \/ run'.pc = "evidence" /\ run'.count = 1
  BY <1>1, <1>2 DEF RunShape, Fields
<1>6. \A a \in audit' : /\ a.run < runs' /\ a.run \in 0..runs'
                        /\ Counted(a.run, a.count)'
  BY <1>1, <1>4, AuditsStandWhileSending
<1>7. Counted(runs, run.count)'
  BY <1>1, <1>4, <1>5 DEF Counted
<1> QED  BY <1>5, <1>6, <1>7 DEF CountInv, Fresh, Halfway, Ending

\* The first step of the last part, after an answer to the baseline.
LEMMA CountAfterBaseline ==
    ASSUME CountInv, RunInv, runs \in Nat, run.pc \in Halfway, run'.pc \in Ending,
           run'.count = run.count, UNCHANGED <<runs, sent, audit>>
    PROVE  CountInv'
<1>1. run.count = 1 /\ SentBy(runs) = {Request(1)}
  BY SentByHalfway DEF CountInv
<1>2. Counted(runs, run.count)
  <2>1. IsFiniteSet(SentBy(runs)) /\ Cardinality(SentBy(runs)) = 1
    BY <1>1, FS_Singleton
  <2> QED  BY <1>1, <2>1 DEF Counted
<1> QED  BY <1>2 DEF CountInv, Counted, SentBy, Fresh, Halfway, Ending

LEMMA CountAudit ==
    ASSUME CountInv, RunInv, runs \in Nat, WriteAudit
    PROVE  CountInv'
<1> DEFINE new == [rev |-> run.rev, run |-> runs, count |-> run.count]
<1>1. /\ run.pc = "audit" /\ audit' = audit \cup {new} /\ End
      /\ UNCHANGED <<runs, sent>>
  BY DEF WriteAudit
<1>2. run'.pc = "idle"
  BY <1>1, IdleRunShape DEF End
<1>3. Counted(new.run, new.count) /\ new.run \in 0..runs
  BY <1>1 DEF CountInv, Ending
<1>4. \A a \in audit' : a.run \in 0..runs' /\ Counted(a.run, a.count)'
  <2> SUFFICES ASSUME NEW a \in audit'
               PROVE  a.run \in 0..runs /\ Counted(a.run, a.count)'
    BY <1>1
  <2>1. a.run \in 0..runs /\ Counted(a.run, a.count)
    BY <1>1, <1>3 DEF CountInv
  <2> QED  BY <1>1, <2>1 DEF Counted, SentBy
<1> QED  BY <1>2, <1>4 DEF CountInv, Fresh, Halfway, Ending

LEMMA CountKeeps == RecordInv /\ [Running \/ CrashRun]_vars => CountInv'
<1> SUFFICES ASSUME RecordInv, [Running \/ CrashRun]_vars PROVE CountInv'
  OBVIOUS
<1>0. CountInv /\ RunInv /\ RunShape /\ runs \in Nat
  BY ExecutionAssumption DEF RecordInv, GateInv, AuthorityInv, RunInv, RunsCounted
<1>1. CASE Authenticate \/ Edits \/ Gate \/ UNCHANGED vars
  <2>1. UNCHANGED <<run, runs, sent, audit>>
    BY <1>1 DEF Authenticate, Edits, Gate, EditPlan, RemovePlan,
         EditApprovalStatus, ChangePolicy, ChangeInputs, GeneratePlan,
         ReviewApproval, RecordApproval, DeclineApproval, runVars, vars
  <2> QED  BY <1>0, <2>1, CountStands
<1>2. CASE ReviewAuthority
  <2>1. /\ runs' = runs + 1 /\ UNCHANGED <<sent, audit>>
        /\ run'.pc = "confirm" /\ run'.count = 0
    BY <1>2 DEF ReviewAuthority, IdleRun
  <2>2. \A a \in audit : a.run < runs + 1 /\ a.run \in 0..(runs + 1)
    BY <1>0 DEF CountInv
  <2> QED  BY <1>0, <2>1, <2>2 DEF CountInv, Counted, SentBy, Fresh, Halfway, Ending
<1>3. CASE CrashRun \/ ((Confirm \/ Prepare \/ Preflight \/ RefreshBeforeRun
                           \/ ResolveHeaders) /\ End)
  <2>1. End /\ UNCHANGED <<runs, sent, audit>>
    BY <1>3 DEF CrashRun, Confirm, Prepare, Preflight, RefreshBeforeRun,
         ResolveHeaders, Quiet
  <2> QED  BY <1>0, <2>1, CountEnds
<1>4. CASE (Confirm \/ Prepare \/ Preflight \/ RefreshBeforeRun \/ ResolveHeaders)
           /\ ~End
  <2>1. run.pc \in Fresh /\ UNCHANGED <<runs, sent, audit>>
    BY <1>4 DEF Confirm, Prepare, Preflight, RefreshBeforeRun, ResolveHeaders,
         Quiet, Fresh
  <2>2. run'.pc \in Fresh /\ run'.count = run.count
    BY <1>0, <1>4 DEF Confirm, Prepare, Preflight, RefreshBeforeRun,
         ResolveHeaders, Goto, RunShape, Fields, Fresh
  <2> QED  BY <1>0, <2>1, <2>2, CountMoves DEF Fresh
<1>5. CASE SendBaseline
  BY <1>0, <1>5, CountBaseline
<1>6. CASE SendMutation
  BY <1>0, <1>6, CountMutation
<1>7. CASE BaselineAnswered \/ MarkBaseline
  <2>1. /\ run.pc \in Halfway /\ UNCHANGED <<runs, sent, audit>>
        /\ \E p \in {"refused", "evidence", "ran", "mutation"} :
              run' = [run EXCEPT !.pc = p]
    BY <1>7 DEF BaselineAnswered, MarkBaseline, Mark, Goto, Quiet, Halfway
  <2>2. run'.pc \in {"refused", "evidence", "ran", "mutation"}
        /\ run'.count = run.count
    BY <1>0, <2>1 DEF RunShape, Fields
  <2>3. run'.pc \in Halfway \/ run'.pc \in Ending
    BY <2>2 DEF Halfway, Ending
  <2> QED  BY <1>0, <2>1, <2>2, <2>3, CountMoves, CountAfterBaseline DEF Halfway
<1>8. CASE MutationAnswered \/ MarkRefused \/ WriteEvidence \/ IndexEvidence
  <2>1. /\ run.pc \in Ending /\ UNCHANGED <<runs, sent, audit>>
        /\ \/ \E p \in Ending : run' = [run EXCEPT !.pc = p]
           \/ run' = [run EXCEPT !.pc = "index", !.rev = NextRevision]
    BY <1>8 DEF MutationAnswered, MarkRefused, WriteEvidence, IndexEvidence, Mark,
         Goto, Quiet, Ending
  <2>2. run'.pc \in Ending /\ run'.count = run.count
    BY <1>0, <2>1 DEF RunShape, Fields, Ending
  <2> QED  BY <1>0, <2>1, <2>2, CountMoves DEF Ending
<1>9. CASE WriteAudit
  BY <1>0, <1>9, CountAudit
<1> QED
  BY <1>1, <1>2, <1>3, <1>4, <1>5, <1>6, <1>7, <1>8, <1>9 DEF Running, RunnerStep

-----------------------------------------------------------------------------
LEMMA InitRecords == Init => RecordInv
<1> SUFFICES ASSUME Init PROVE RecordInv
  OBVIOUS
<1>1. /\ run.pc = "idle" /\ runs = 0 /\ sent = {} /\ evidence = {} /\ audit = {}
  BY IdleRunShape DEF Init
<1>2. RevisionInv
  <2>1. Used = 0..0
    BY <1>1 DEF Used
  <2> QED  BY <1>1, <2>1 DEF RevisionInv, RevisionsGapless, RevisionsNeverShared,
                             EvidenceShape, EvidenceIsThere
<1>3. CountInv /\ AuditedIndexed
  BY <1>1 DEF CountInv, AuditedIndexed, Fresh, Halfway, Ending
<1> QED  BY <1>2, <1>3, InitGate DEF RecordInv

LEMMA NextRecords == RecordInv /\ [Running \/ CrashRun]_vars => RecordInv'
<1>1. RecordInv /\ [Running \/ CrashRun]_vars => GateInv'
  BY NextGate DEF RecordInv
<1> QED  BY <1>1, RevisionsKeep, CountKeeps DEF RecordInv

LEMMA RecordsTruthful == RecordInv => AuditIsTruthful
  BY DEF RecordInv, CountInv, Counted, SentBy, AuditedIndexed, AuditIsTruthful

\* However many executions were killed, and wherever: no two of them share a
\* revision (runner.py, _next_revision).
THEOREM RevisionsBelongToOneRun == CrashSpec => []RevisionsNeverShared
<1>1. RecordInv => RevisionsNeverShared
  BY DEF RecordInv, RevisionInv
<1> QED  BY InitRecords, NextRecords, <1>1, PTL DEF CrashSpec

\* An audit record counts what its execution sent, missing at most a request
\* whose connection was lost, and points at its indexed evidence (runner.py,
\* _write_outputs).
THEOREM AuditsAreTruthful == CrashSpec => []AuditIsTruthful
  BY InitRecords, NextRecords, RecordsTruthful, PTL DEF CrashSpec
=============================================================================
