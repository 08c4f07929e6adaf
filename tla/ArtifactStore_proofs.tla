------------------------- MODULE ArtifactStore_proofs -----------------------
(***************************************************************************)
(* Proofs about the artifact files generators and researchers share, for   *)
(* any keys, bodies, lifecycle values and bounds: about a file with one    *)
(* generator (ArtifactStore) and about the backlog of two generators       *)
(* (HypothesisBacklog), their types, that identifiers stay distinct and    *)
(* that a run keeps what the researcher wrote.                             *)
(***************************************************************************)
EXTENDS ArtifactStore, HypothesisBacklog, TLAPS, FiniteSetTheorems,
        WellFoundedInduction

-----------------------------------------------------------------------------
(* The operators of GeneratedMerge                                         *)

\* Stamping changes the generation block only.
LEMMA StampContent ==
    ASSUME NEW P, NEW G, NEW r \in RecordsOf(P, G), NEW g
    PROVE  /\ Stamp(r, g).key = r.key /\ Stamp(r, g).id = r.id
           /\ Stamp(r, g).body = r.body /\ Stamp(r, g).disp = r.disp
           /\ Stamp(r, g).life = r.life
           /\ Stamp(r, g).gen = [by |-> g, sum |-> Checksum(r)]
  BY DEF Stamp, RecordsOf

LEMMA StampType ==
    ASSUME NEW P, NEW G, NEW r \in RecordsOf(P, G), NEW g \in G
    PROVE  Stamp(r, g) \in RecordsOf(P, G)
  BY DEF Stamp, RecordsOf, Checksum

\* A pass over a record leaves its key and identifier.
Same(x, y) == x.id = y.id /\ x.key = y.key

LEMMA StampSame ==
    ASSUME NEW P, NEW G, NEW r \in RecordsOf(P, G), NEW g
    PROVE  Same(Stamp(r, g), r)
  BY DEF Stamp, RecordsOf, Same

LEMMA GeneratedType ==
    ASSUME NEW P, NEW G, NEW g \in G,
           NEW k \in Keys, NEW id \in IdsUnder(P), NEW b \in Bodies, NEW l \in Lives
    PROVE  /\ Generated(k, id, b, l, g) \in RecordsOf(P, G)
           /\ Generated(k, id, b, l, g).id = id
           /\ Generated(k, id, b, l, g).key = k
<1> DEFINE r == [key |-> k, id |-> id, body |-> b, disp |-> "ACTIVE",
                 life |-> l, gen |-> Unmanaged]
<1>1. r \in RecordsOf(P, G)
  BY DEF RecordsOf, Dispositions
<1>2. r.key = k /\ r.id = id
  OBVIOUS
<1>3. Generated(k, id, b, l, g) = Stamp(r, g)
  BY DEF Generated
<1> HIDE DEF r
<1>4. Stamp(r, g) \in RecordsOf(P, G)
  BY <1>1, StampType
<1>5. Same(Stamp(r, g), r)
  BY <1>1, StampSame
<1> QED  BY <1>2, <1>3, <1>4, <1>5 DEF Same

LEMMA ReconcileType ==
    ASSUME NEW P, NEW G, NEW g \in G, NEW r \in RecordsOf(P, G), NEW b \in Bodies
    PROVE  Reconcile(r, b, g) \in RecordsOf(P, G) /\ Same(Reconcile(r, b, g), r)
<1>1. r.key \in Keys /\ r.id \in IdsUnder(P) /\ r.life \in Lives
  BY DEF RecordsOf
<1> QED  BY <1>1, GeneratedType DEF Reconcile, Same

LEMMA SuppressedType ==
    ASSUME NEW P, NEW G, NEW g \in G, NEW r \in RecordsOf(P, G)
    PROVE  /\ Stamp([r EXCEPT !.disp = "SUPPRESSED"], g) \in RecordsOf(P, G)
           /\ Same(Stamp([r EXCEPT !.disp = "SUPPRESSED"], g), r)
<1>1. [r EXCEPT !.disp = "SUPPRESSED"] \in RecordsOf(P, G)
  BY DEF RecordsOf, Dispositions
<1>2. Same([r EXCEPT !.disp = "SUPPRESSED"], r)
  BY DEF RecordsOf, Same
<1> DEFINE x == [r EXCEPT !.disp = "SUPPRESSED"]
<1> HIDE DEF x
<1>3. x \in RecordsOf(P, G) /\ Same(x, r)
  BY <1>1, <1>2 DEF x
<1>4. Stamp(x, g) \in RecordsOf(P, G)
  BY <1>3, StampType
<1>5. Same(Stamp(x, g), x)
  BY <1>3, StampSame
<1>6. Stamp(x, g) \in RecordsOf(P, G) /\ Same(Stamp(x, g), r)
  BY <1>3, <1>4, <1>5 DEF Same
<1> QED  BY <1>6 DEF x

LEMMA SuppressType ==
    ASSUME NEW P, NEW G, NEW g \in G, NEW r \in RecordsOf(P, G)
    PROVE  Suppress(r, g) \in RecordsOf(P, G) /\ Same(Suppress(r, g), r)
  BY SuppressedType DEF Suppress, Same

LEMMA PickType ==
    ASSUME NEW s, NEW ds, NEW pick \in Picks(s, ds)
    PROVE  /\ DOMAIN pick = DOMAIN ds \cap KeysOf(s)
           /\ \A k \in DOMAIN pick : pick[k] \in s /\ pick[k].key = k
  BY DEF Picks

\* What the merge makes of a record that was there.
Merged(r, ds, g) == IF r.key \in DOMAIN ds THEN Reconcile(r, ds[r.key], g) ELSE r

LEMMA MergedType ==
    ASSUME NEW P, NEW G, NEW g \in G, NEW r \in RecordsOf(P, G),
           NEW ds, \A k \in DOMAIN ds : ds[k] \in Bodies
    PROVE  Merged(r, ds, g) \in RecordsOf(P, G) /\ Same(Merged(r, ds, g), r)
  BY ReconcileType DEF Merged, Same

\* A merged record stems from a new draft or from a record that was there.
LEMMA MergeOrigin ==
    ASSUME NEW s, NEW ds, NEW g, NEW l, NEW ids, NEW pick \in Picks(s, ds),
           NEW x \in Merge(s, ds, g, l, pick, ids)
    PROVE  \/ \E k \in NewKeys(s, ds) : x = Generated(k, ids[k], ds[k], l, g)
           \/ \E r \in s : x = Merged(r, ds, g)
<1>0. /\ DOMAIN pick = DOMAIN ds \cap KeysOf(s)
      /\ \A k \in DOMAIN pick : pick[k] \in s /\ pick[k].key = k
  BY PickType
<1>1. CASE \E k \in DOMAIN pick : x = Reconcile(pick[k], ds[k], g)
  <2>1. PICK k \in DOMAIN pick : x = Reconcile(pick[k], ds[k], g)
    BY <1>1
  <2>2. pick[k] \in s /\ pick[k].key = k /\ k \in DOMAIN ds
    BY <1>0
  <2> QED  BY <2>1, <2>2 DEF Merged
<1>2. CASE x \in Preserved(s, ds)
  BY <1>2 DEF Preserved, Merged
<1> QED  BY <1>1, <1>2 DEF Merge

\* The only record of its key is merged.
LEMMA SoleIsMerged ==
    ASSUME NEW s, NEW ds, NEW g, NEW l, NEW ids, NEW pick \in Picks(s, ds),
           NEW r \in s, Sole(s, r)
    PROVE  Merged(r, ds, g) \in Merge(s, ds, g, l, pick, ids)
<1>0. /\ DOMAIN pick = DOMAIN ds \cap KeysOf(s)
      /\ \A k \in DOMAIN pick : pick[k] \in s /\ pick[k].key = k
  BY PickType
<1>1. CASE r.key \in DOMAIN ds
  <2>1. r.key \in DOMAIN pick
    BY <1>0, <1>1 DEF KeysOf
  <2>2. pick[r.key] \in WithKey(s, r.key)
    BY <1>0, <2>1 DEF WithKey
  <2>3. pick[r.key] = r
    BY <2>2 DEF Sole
  <2> QED  BY <1>1, <2>1, <2>3 DEF Merge, Merged
<1>2. CASE r.key \notin DOMAIN ds
  BY <1>2 DEF Merge, Merged, Preserved
<1> QED  BY <1>1, <1>2

\* A record the researcher wrote or edited is merged as it is.
LEMMA EditedIsKept ==
    ASSUME NEW r, ~Untouched(r), NEW ds, NEW g
    PROVE  Merged(r, ds, g) = r /\ Suppress(r, g) = r
  BY DEF Merged, Reconcile, Suppress

-----------------------------------------------------------------------------
(* Numbers                                                                 *)

\* A non-empty set of naturals has a least element.
LEMMA LeastNatural ==
    ASSUME NEW T, T \subseteq Nat, T # {}
    PROVE  \E x \in T : \A y \in T : x <= y
<1>1. IsWellFoundedOn(OpToRel(<, Nat), Nat)
  BY NatLessThanWellFounded
<1>2. PICK x \in T : \A y \in T : <<y, x>> \notin OpToRel(<, Nat)
  BY <1>1, WFMin
<1>3. ASSUME NEW y \in T
      PROVE  x <= y
  <2>1. <<y, x>> \in Nat \X Nat
    OBVIOUS
  <2>2. ~(y < x)
    BY <1>2, <2>1 DEF OpToRel
  <2> QED  BY <2>2
<1> QED  BY <1>3

\* A non-empty bounded set of naturals has the maximum that Max chooses.
LEMMA MaxNatural ==
    ASSUME NEW S, S \subseteq Nat, S # {},
           NEW n \in Nat, \A s \in S : s <= n
    PROVE  Max(S) \in S /\ \A s \in S : s <= Max(S)
<1> DEFINE T == {n - s : s \in S}
<1>1. T \subseteq Nat /\ T # {}
  <2>1. \A s \in S : n - s \in Nat
    <3> SUFFICES ASSUME NEW s \in S PROVE n - s \in Nat
      OBVIOUS
    <3>1. s \in Nat /\ s <= n
      OBVIOUS
    <3> QED  BY <3>1
  <2> QED  BY <2>1
<1>2. PICK x \in T : \A y \in T : x <= y
  BY <1>1, LeastNatural
<1>3. PICK m \in S : x = n - m
  OBVIOUS
<1>4. \A s \in S : m >= s
  <2> SUFFICES ASSUME NEW s \in S PROVE m >= s
    OBVIOUS
  <2>1. n - m <= n - s
    BY <1>2, <1>3
  <2>2. n \in Nat /\ m \in Nat /\ s \in Nat
    OBVIOUS
  <2> QED  BY <2>1, <2>2
<1> QED  BY <1>4 DEF Max

\* The number a key gets above the largest in use grows with the key.
LEMMA RankType ==
    ASSUME NEW K, K \subseteq Nat, NEW k \in K
    PROVE  /\ IsFiniteSet({j \in K : j < k})
           /\ Cardinality({j \in K : j < k}) \in Nat
<1>1. IsFiniteSet({j \in K : j < k})
  BY FS_BoundedSetOfNaturals
<1> QED  BY <1>1, FS_CardinalityType

LEMMA RankInjective ==
    ASSUME NEW K, K \subseteq Nat, NEW k \in K, NEW m \in K, k < m
    PROVE  Cardinality({j \in K : j < k}) < Cardinality({j \in K : j < m})
<1> DEFINE A == {j \in K : j < k}
           B == {j \in K : j < m}
<1>1. /\ IsFiniteSet(B)
      /\ Cardinality(A) \in Nat /\ Cardinality(B) \in Nat
  BY RankType
<1>2. A \in SUBSET B
  <2> SUFFICES ASSUME NEW j \in A PROVE j \in B
    OBVIOUS
  <2>1. j \in Nat /\ k \in Nat /\ m \in Nat /\ j < k
    OBVIOUS
  <2> QED  BY <2>1
<1>3. Cardinality(A) <= Cardinality(B) /\ (Cardinality(B) = Cardinality(A) => B = A)
  BY <1>1, <1>2, FS_Subset
<1>4. k \in B /\ k \notin A
  OBVIOUS
<1> QED  BY <1>1, <1>3, <1>4

-----------------------------------------------------------------------------
(* Identifiers of new records                                              *)

\* Identifiers are numbers, those in use under a prefix bounded.
NumsBounded(s, p) ==
    \A r \in s : /\ r.id.num \in Nat
                 /\ r.id.prefix = p => r.id.num <= MaxNum

LEMMA NextNumberAbove ==
    ASSUME NEW s, NEW p, NumsBounded(s, p)
    PROVE  /\ NextNumber(s, p) \in Nat
           /\ \A r \in s : r.id.prefix = p => r.id.num < NextNumber(s, p)
<1> DEFINE used == {0} \cup {r.id.num : r \in {x \in s : x.id.prefix = p}}
<1>1. \A r \in s : r.id.num \in Nat
  BY DEF NumsBounded
<1>2. used \subseteq Nat /\ used # {}
  BY <1>1
<1>3. MaxNum \in Nat /\ \A n \in used : n <= MaxNum
  BY <1>1, FileAssumption DEF NumsBounded
<1>4. Max(used) \in Nat /\ \A n \in used : n <= Max(used)
  <2> HIDE DEF used
  <2> QED  BY <1>2, <1>3, MaxNatural
<1>5. NextNumber(s, p) = 1 + Max(used)
  BY DEF NextNumber
<1>6. \A r \in s : r.id.prefix = p => r.id.num \in used
  OBVIOUS
<1> HIDE DEF used
<1> QED  BY <1>1, <1>4, <1>5, <1>6

\* An identifier given to a new record is nobody else's.
LEMMA FreshIds ==
    ASSUME NEW s, NEW p, NumsBounded(s, p),
           NEW ds, DOMAIN ds \subseteq Keys, NEW k \in NewKeys(s, ds)
    PROVE  /\ NewId(s, ds, p, k) \in IdsUnder({p})
           /\ \A r \in s : NewId(s, ds, p, k) # r.id
           /\ \A m \in NewKeys(s, ds) :
                 NewId(s, ds, p, k) = NewId(s, ds, p, m) => k = m
<1> DEFINE K == NewKeys(s, ds)
           rank(m) == Cardinality({j \in K : j < m})
           next == NextNumber(s, p)
           Fresh(m) == NewId(s, ds, p, m)
<1>1. K \subseteq Nat
  BY KeysAssumption DEF NewKeys
<1>2. \A m \in K : rank(m) \in Nat
  <2> HIDE DEF K
  <2> QED  BY <1>1, RankType
<1>3. next \in Nat /\ \A r \in s : r.id.prefix = p => r.id.num < next
  BY NextNumberAbove
<1>4. \A m \in K : Fresh(m) = [prefix |-> p, num |-> next + rank(m)]
  BY DEF NewId, Id
<1>5. \A m \in K : rank(k) = rank(m) => k = m
  <2> SUFFICES ASSUME NEW m \in K, k # m
               PROVE  rank(k) # rank(m)
    OBVIOUS
  <2>1. k \in Nat /\ m \in Nat
    BY <1>1
  <2>2. rank(k) < rank(m) \/ rank(m) < rank(k)
    <3> HIDE DEF K
    <3> k \in K
      BY DEF K
    <3>1. CASE k < m
      BY <1>1, <3>1, RankInjective
    <3>2. CASE m < k
      BY <1>1, <3>2, RankInjective
    <3> QED  BY <2>1, <3>1, <3>2
  <2> QED  BY <1>2, <2>2
<1>6. \A r \in s : r.id.num \in Nat
  BY DEF NumsBounded
<1>7. k \in K
  OBVIOUS
<1> HIDE DEF K, rank, next, Fresh
<1>8. Fresh(k) \in IdsUnder({p})
  BY <1>2, <1>3, <1>4, <1>7 DEF IdsUnder
<1>9. \A r \in s : Fresh(k) # r.id
  <2> SUFFICES ASSUME NEW r \in s, Fresh(k) = r.id
               PROVE  FALSE
    OBVIOUS
  <2>1. r.id.num = next + rank(k) /\ r.id.prefix = p
    BY <1>4, <1>7
  <2> QED  BY <1>2, <1>3, <1>6, <1>7, <2>1
<1>10. \A m \in K : Fresh(k) = Fresh(m) => k = m
  <2> SUFFICES ASSUME NEW m \in K, Fresh(k) = Fresh(m)
               PROVE  k = m
    OBVIOUS
  <2>1. next + rank(k) = next + rank(m)
    BY <1>4, <1>7
  <2> QED  BY <1>2, <1>3, <1>5, <1>7, <2>1
<1> QED  BY <1>8, <1>9, <1>10 DEF K, Fresh

-----------------------------------------------------------------------------
(***************************************************************************)
(* A file with one generator.                                              *)
(***************************************************************************)

LEMMA DraftsType ==
    ASSUME drafts \in Drafts
    PROVE  DOMAIN drafts \subseteq Keys /\ \A k \in DOMAIN drafts : drafts[k] \in Bodies
  BY DEF Drafts

\* The suppression pass, on one record.
Finished(x) == IF suppresses /\ x.key \notin DOMAIN drafts
                 THEN Suppress(x, Gid) ELSE x

\* What a run makes of a record that was there, and of a draft nothing in the
\* file matches.
Fresh(k) == NewId(store, drafts, Prefix, k)
Fate(r) == Finished(Merged(r, drafts, Gid))
Birth(k) == Finished(Generated(k, Fresh(k), drafts[k], FirstLife, Gid))

LEMMA OutputIs ==
    ASSUME NEW pick \in Picks(store, drafts)
    PROVE  Output(store, drafts, pick) =
             {Finished(x) : x \in Merge(store, drafts, Gid, FirstLife, pick,
                                       [k \in NewKeys(store, drafts) |-> Fresh(k)])}
<1> DEFINE merged == Merge(store, drafts, Gid, FirstLife, pick,
                           [k \in NewKeys(store, drafts) |-> Fresh(k)])
<1>1. Output(store, drafts, pick) = Finish(merged, drafts)
  BY DEF Output, Fresh
<1>2. Finish(merged, drafts) = {Finished(x) : x \in merged}
  <2> HIDE DEF merged
  <2>1. CASE suppresses
    BY <2>1 DEF Finish, SuppressUnsupported, Finished
  <2>2. CASE ~suppresses
    BY <2>2 DEF Finish, Finished
  <2> QED  BY <2>1, <2>2
<1> QED  BY <1>1, <1>2

LEMMA OutputOrigin ==
    ASSUME NEW pick \in Picks(store, drafts),
           NEW x \in Output(store, drafts, pick)
    PROVE  \/ \E k \in NewKeys(store, drafts) : x = Birth(k)
           \/ \E r \in store : x = Fate(r)
<1> DEFINE ids == [k \in NewKeys(store, drafts) |-> Fresh(k)]
<1>1. PICK y \in Merge(store, drafts, Gid, FirstLife, pick, ids) : x = Finished(y)
  BY OutputIs
<1>2. \A k \in NewKeys(store, drafts) : ids[k] = Fresh(k)
  OBVIOUS
<1> HIDE DEF ids
<1>3. \/ \E k \in NewKeys(store, drafts) :
             y = Generated(k, ids[k], drafts[k], FirstLife, Gid)
      \/ \E r \in store : y = Merged(r, drafts, Gid)
  BY <1>1, MergeOrigin
<1> QED  BY <1>1, <1>2, <1>3 DEF Birth, Fate

LEMMA FinishedType ==
    ASSUME NEW x \in Records
    PROVE  Finished(x) \in Records /\ Finished(x).id = x.id
  BY SuppressType DEF Finished, Records, Same

FileInv == TypeOK /\ NumsBounded(store, Prefix)

LEMMA BirthType ==
    ASSUME FileInv, NEW k \in NewKeys(store, drafts)
    PROVE  /\ Birth(k) \in Records /\ Birth(k).id = Fresh(k)
           /\ \A r \in store : Fresh(k) # r.id
           /\ \A m \in NewKeys(store, drafts) : Fresh(k) = Fresh(m) => k = m
<1>1. k \in Keys /\ drafts[k] \in Bodies /\ DOMAIN drafts \subseteq Keys
  BY DraftsType DEF NewKeys, TypeOK, FileInv
<1>2. /\ Fresh(k) \in IdsUnder({Prefix})
      /\ \A r \in store : Fresh(k) # r.id
      /\ \A m \in NewKeys(store, drafts) : Fresh(k) = Fresh(m) => k = m
  BY <1>1, FreshIds DEF FileInv, Fresh
<1>3. /\ Generated(k, Fresh(k), drafts[k], FirstLife, Gid) \in Records
      /\ Generated(k, Fresh(k), drafts[k], FirstLife, Gid).id = Fresh(k)
  BY <1>1, <1>2, GeneratedType, FileAssumption DEF Records
<1> QED  BY <1>2, <1>3, FinishedType DEF Birth

LEMMA FateType ==
    ASSUME FileInv, NEW r \in store
    PROVE  Fate(r) \in Records /\ Fate(r).id = r.id
<1>1. r \in Records /\ \A k \in DOMAIN drafts : drafts[k] \in Bodies
  BY DraftsType DEF FileInv, TypeOK
<1>2. Merged(r, drafts, Gid) \in Records /\ Merged(r, drafts, Gid).id = r.id
  BY <1>1, MergedType DEF Records, Same
<1> QED  BY <1>2, FinishedType DEF Fate

-----------------------------------------------------------------------------
(* The invariant                                                           *)

StoreInv == FileInv /\ IdsDistinct

\* A run of the generator keeps it.
LEMMA RegenerateKeeps ==
    ASSUME StoreInv, Regenerate
    PROVE  StoreInv'
<1>1. PICK pick \in Picks(store, drafts) :
        /\ store' = Output(store, drafts, pick)
        /\ Bounded(store')
        /\ UNCHANGED <<drafts, suppresses>>
  BY DEF Regenerate
<1>2. FileInv /\ TypeOK /\ IdsDistinct
  BY DEF StoreInv, FileInv
<1>3. \A x \in store' : \/ \E k \in NewKeys(store, drafts) : x = Birth(k)
                        \/ \E r \in store : x = Fate(r)
  BY <1>1, OutputOrigin
<1>4. TypeOK'
  <2>1. store' \subseteq Records
    BY <1>2, <1>3, BirthType, FateType
  <2> QED  BY <1>1, <1>2, <2>1 DEF TypeOK
<1>5. NumsBounded(store, Prefix)'
  BY <1>1, <1>4 DEF Bounded, NumsBounded, TypeOK, Records, RecordsOf, IdsUnder
<1>6. IdsDistinct'
  <2> SUFFICES ASSUME NEW x \in store', NEW y \in store', x.id = y.id
               PROVE  x = y
    BY DEF IdsDistinct
  <2>1. CASE /\ \E k \in NewKeys(store, drafts) : x = Birth(k)
             /\ \E m \in NewKeys(store, drafts) : y = Birth(m)
    BY <1>2, <2>1, BirthType
  <2>2. CASE /\ \E r \in store : x = Fate(r)
             /\ \E q \in store : y = Fate(q)
    <3>1. PICK r \in store, q \in store : x = Fate(r) /\ y = Fate(q)
      BY <2>2
    <3>2. r.id = q.id
      BY <1>2, <3>1, FateType
    <3> QED  BY <1>2, <3>1, <3>2 DEF IdsDistinct
  <2>3. ASSUME NEW k \in NewKeys(store, drafts), NEW r \in store,
               Birth(k).id = Fate(r).id
        PROVE  FALSE
    BY <1>2, <2>3, BirthType, FateType
  <2> QED  BY <1>3, <2>1, <2>2, <2>3
<1> QED  BY <1>4, <1>5, <1>6 DEF StoreInv, FileInv

\* An edit leaves the identifier alone.
LEMMA ReplaceKeeps ==
    ASSUME StoreInv, NEW r \in store, NEW e \in Records, e.id = r.id,
           Replace(r, e)
    PROVE  StoreInv'
  BY DEF StoreInv, FileInv, Replace, TypeOK, NumsBounded, IdsDistinct

LEMMA EditKeeps ==
    ASSUME StoreInv, NEW r \in store, Edit(r) \/ Annotate(r)
    PROVE  StoreInv'
<1>1. r \in Records
  BY DEF StoreInv, FileInv, TypeOK
<1>2. CASE \E k \in Keys : Replace(r, [r EXCEPT !.key = k])
  <2>1. \A k \in Keys : [r EXCEPT !.key = k] \in Records
                        /\ [r EXCEPT !.key = k].id = r.id
    BY <1>1 DEF Records, RecordsOf
  <2> QED  BY <1>2, <2>1, ReplaceKeeps
<1>3. CASE \E b \in Bodies : Replace(r, [r EXCEPT !.body = b])
  <2>1. \A b \in Bodies : [r EXCEPT !.body = b] \in Records
                          /\ [r EXCEPT !.body = b].id = r.id
    BY <1>1 DEF Records, RecordsOf
  <2> QED  BY <1>3, <2>1, ReplaceKeeps
<1>4. CASE \E d \in Dispositions : Replace(r, [r EXCEPT !.disp = d])
  <2>1. \A d \in Dispositions : [r EXCEPT !.disp = d] \in Records
                                /\ [r EXCEPT !.disp = d].id = r.id
    BY <1>1 DEF Records, RecordsOf
  <2> QED  BY <1>4, <2>1, ReplaceKeeps
<1>5. CASE Annotate(r)
  <2>1. \A l \in Lives : [r EXCEPT !.life = l] \in Records
                         /\ [r EXCEPT !.life = l].id = r.id
    BY <1>1 DEF Records, RecordsOf
  <2> QED  BY <1>5, <2>1, ReplaceKeeps DEF Annotate
<1> QED  BY <1>2, <1>3, <1>4, <1>5 DEF Edit

LEMMA AddKeeps ==
    ASSUME StoreInv, Add
    PROVE  StoreInv'
<1>1. PICK k \in Keys, b \in Bodies, n \in 1..MaxNum :
        /\ Id(Prefix, n) \notin {r.id : r \in store}
        /\ store' = store \cup {[key |-> k, id |-> Id(Prefix, n), body |-> b,
                                 disp |-> "ACTIVE", life |-> FirstLife,
                                 gen |-> Unmanaged]}
        /\ Bounded(store')
        /\ UNCHANGED <<drafts, suppresses>>
  BY DEF Add
<1> DEFINE new == [key |-> k, id |-> Id(Prefix, n), body |-> b, disp |-> "ACTIVE",
                   life |-> FirstLife, gen |-> Unmanaged]
<1>2. Id(Prefix, n) \in IdsUnder({Prefix})
  BY FileAssumption DEF Id, IdsUnder
<1>3. new \in Records /\ new.id = Id(Prefix, n)
  BY <1>2, FileAssumption DEF Records, RecordsOf, Dispositions
<1> HIDE DEF new
<1>4. store' = store \cup {new}
  BY <1>1 DEF new
<1>5. TypeOK'
  BY <1>1, <1>3, <1>4 DEF StoreInv, FileInv, TypeOK
<1>6. NumsBounded(store, Prefix)'
  BY <1>1, <1>5 DEF Bounded, NumsBounded, TypeOK, Records, RecordsOf, IdsUnder
<1>7. IdsDistinct'
  <2>1. \A r \in store : r.id # new.id
    BY <1>1, <1>3
  <2> QED  BY <1>4, <2>1 DEF StoreInv, IdsDistinct
<1> QED  BY <1>5, <1>6, <1>7 DEF StoreInv, FileInv

LEMMA StoreStep ==
    ASSUME StoreInv, [Next]_vars
    PROVE  StoreInv'
<1>1. CASE EvidenceChanges
  BY <1>1 DEF EvidenceChanges, StoreInv, FileInv, TypeOK, NumsBounded, IdsDistinct
<1>2. CASE Regenerate
  BY <1>2, RegenerateKeeps
<1>3. CASE \E r \in store : Edit(r) \/ Annotate(r)
  BY <1>3, EditKeeps
<1>4. CASE \E r \in store : Remove(r)
  BY <1>4 DEF Remove, StoreInv, FileInv, TypeOK, NumsBounded, IdsDistinct
<1>5. CASE Add
  BY <1>5, AddKeeps
<1>6. CASE UNCHANGED vars
  BY <1>6 DEF vars, StoreInv, FileInv, TypeOK, NumsBounded, IdsDistinct
<1> QED  BY <1>1, <1>2, <1>3, <1>4, <1>5, <1>6 DEF Next, Researcher

LEMMA StoreInit ==
    ASSUME Init
    PROVE  StoreInv
  BY DEF Init, StoreInv, FileInv, TypeOK, NumsBounded, IdsDistinct

LEMMA StoreInvariant == Spec => []StoreInv
  BY StoreInit, StoreStep, PTL DEF Spec

-----------------------------------------------------------------------------
(* The theorems                                                            *)

\* The records of the file keep their type, through every run and edit.
THEOREM TypeCorrect == Spec => []TypeOK
<1>1. StoreInv => TypeOK
  BY DEF StoreInv, FileInv
<1> QED  BY <1>1, StoreInvariant, PTL

\* Plans, evidence and findings name a record by its identifier: however often
\* a generator runs over a file that is edited, extended and pruned between
\* runs, it never gives one identifier to two records.
THEOREM IdentifiersDistinct == Spec => []IdsDistinct
<1>1. StoreInv => IdsDistinct
  BY DEF StoreInv
<1> QED  BY <1>1, StoreInvariant, PTL

\* A run returns every record that the researcher wrote, or whose generated
\* content the researcher changed, exactly as it was, unless the file holds
\* another record with its key.
THEOREM ResearcherEditsSurvive == Spec => EditsSurvive
<1>1. ASSUME Regenerate, NEW r \in store, Sole(store, r), ~Untouched(r)
      PROVE  r \in store'
  <2>1. PICK pick \in Picks(store, drafts) : store' = Output(store, drafts, pick)
    BY <1>1 DEF Regenerate
  <2>2. Finished(r) = r /\ Merged(r, drafts, Gid) = r
    BY <1>1, EditedIsKept DEF Finished
  <2> QED  BY <1>1, <2>1, <2>2, SoleIsMerged, OutputIs
<1>2. [Regenerate => \A r \in store :
          (Sole(store, r) /\ ~Untouched(r)) => r \in store']_vars
  BY <1>1
<1> QED  BY <1>2, PTL DEF EditsSurvive

-----------------------------------------------------------------------------
(***************************************************************************)
(* The backlog of two generators.  A hypothesis takes the next free HYP    *)
(* number; a BLH identifier is the hash of its record's key, so it is free *)
(* when the key is, which holds as long as every BLH record in the file    *)
(* still has the key its identifier was made from.                         *)
(***************************************************************************)

BacklogTypeOK == /\ store \subseteq Hypotheses
                 /\ hypDrafts \in DraftsOver(HypKeys)
                 /\ blhDrafts \in DraftsOver(BlhKeys)

Hashed(r) == r.id.prefix = "BLH" => r.id.num = r.key

BacklogInv == /\ BacklogTypeOK
              /\ \A r \in store : Hashed(r)
              /\ NumsBounded(store, "HYP")
              /\ IdsDistinct

LEMMA HypothesisDrafts ==
    ASSUME BacklogTypeOK
    PROVE  /\ DOMAIN hypDrafts \subseteq Keys
           /\ \A k \in DOMAIN hypDrafts : hypDrafts[k] \in Bodies
           /\ DOMAIN blhDrafts \subseteq Keys
           /\ \A k \in DOMAIN blhDrafts : blhDrafts[k] \in Bodies
  BY BacklogAssumption DEF BacklogTypeOK, DraftsOver

\* The passes of the two generators over one merged record.
Final(x) == IF Managed(x) THEN Stamp(x, x.gen.by) ELSE x
HypPass(x) == Final(IF x.key \in DOMAIN hypDrafts THEN x ELSE Suppress(x, HypGid))
BlhPass(x) == Final(IF Managed(x) /\ x.gen.by = BlhGid /\ x.key \notin DOMAIN blhDrafts
                      THEN Stamp([x EXCEPT !.disp = "SUPPRESSED"], BlhGid) ELSE x)

\* What the runs make of a record that was there, and of a new draft.
HypFate(r) == HypPass(Merged(r, hypDrafts, HypGid))
BlhFate(r) == BlhPass(Merged(r, blhDrafts, BlhGid))
HypId(k) == NewId(store, hypDrafts, "HYP", k)
HypBirth(k) == HypPass(Generated(k, HypId(k), hypDrafts[k], FirstLife, HypGid))
BlhBirth(k) == BlhPass(Generated(k, Id("BLH", k), blhDrafts[k], FirstLife, BlhGid))

\* Finalising, and so each pass, leaves the key and the identifier alone.
LEMMA FinalType ==
    ASSUME NEW x \in Hypotheses
    PROVE  Final(x) \in Hypotheses /\ Same(Final(x), x)
<1>1. CASE Managed(x)
  <2>1. x.gen.by \in {HypGid, BlhGid}
    BY <1>1 DEF Hypotheses, RecordsOf, Managed
  <2>2. Stamp(x, x.gen.by) \in Hypotheses
    BY <2>1, StampType DEF Hypotheses
  <2>3. Same(Stamp(x, x.gen.by), x)
    BY DEF Hypotheses, RecordsOf, Stamp, Same
  <2> QED  BY <1>1, <2>2, <2>3 DEF Final
<1>2. CASE ~Managed(x)
  BY <1>2 DEF Final, Same
<1> QED  BY <1>1, <1>2

LEMMA StampKeepsContent ==
    ASSUME NEW r \in Hypotheses, NEW g
    PROVE  Content(Stamp(r, g)) = Content(r)
<1>1. /\ Stamp(r, g).key = r.key /\ Stamp(r, g).id = r.id
      /\ Stamp(r, g).body = r.body /\ Stamp(r, g).disp = r.disp
  BY DEF Hypotheses, RecordsOf, Stamp
<1> QED  BY <1>1 DEF Content

LEMMA PassType ==
    ASSUME NEW x \in Hypotheses
    PROVE  /\ HypPass(x) \in Hypotheses /\ Same(HypPass(x), x)
           /\ BlhPass(x) \in Hypotheses /\ Same(BlhPass(x), x)
<1>1. Suppress(x, HypGid) \in Hypotheses /\ Same(Suppress(x, HypGid), x)
  <2>1. HypGid \in {HypGid, BlhGid}
    OBVIOUS
  <2> QED  BY <2>1, SuppressType DEF Hypotheses
<1>2. /\ Stamp([x EXCEPT !.disp = "SUPPRESSED"], BlhGid) \in Hypotheses
      /\ Same(Stamp([x EXCEPT !.disp = "SUPPRESSED"], BlhGid), x)
  <2>1. BlhGid \in {HypGid, BlhGid}
    OBVIOUS
  <2> QED  BY <2>1, SuppressedType DEF Hypotheses
<1> DEFINE a == IF x.key \in DOMAIN hypDrafts THEN x ELSE Suppress(x, HypGid)
           b == IF Managed(x) /\ x.gen.by = BlhGid /\ x.key \notin DOMAIN blhDrafts
                  THEN Stamp([x EXCEPT !.disp = "SUPPRESSED"], BlhGid) ELSE x
<1>3. a \in Hypotheses /\ Same(a, x) /\ b \in Hypotheses /\ Same(b, x)
  BY <1>1, <1>2 DEF Same
<1>4. HypPass(x) = Final(a) /\ BlhPass(x) = Final(b)
  BY DEF HypPass, BlhPass
<1> HIDE DEF a, b
<1>5. Final(a) \in Hypotheses /\ Same(Final(a), a)
  BY <1>3, FinalType
<1>6. Final(b) \in Hypotheses /\ Same(Final(b), b)
  BY <1>3, FinalType
<1> QED  BY <1>3, <1>4, <1>5, <1>6 DEF Same

LEMMA FatesType ==
    ASSUME BacklogTypeOK, NEW r \in store
    PROVE  /\ HypFate(r) \in Hypotheses /\ Same(HypFate(r), r)
           /\ BlhFate(r) \in Hypotheses /\ Same(BlhFate(r), r)
<1>1. r \in Hypotheses
  BY DEF BacklogTypeOK
<1>2. HypGid \in {HypGid, BlhGid} /\ BlhGid \in {HypGid, BlhGid}
  OBVIOUS
<1>3. /\ Merged(r, hypDrafts, HypGid) \in Hypotheses
      /\ Same(Merged(r, hypDrafts, HypGid), r)
  BY <1>1, <1>2, HypothesisDrafts, MergedType DEF Hypotheses
<1>4. /\ Merged(r, blhDrafts, BlhGid) \in Hypotheses
      /\ Same(Merged(r, blhDrafts, BlhGid), r)
  BY <1>1, <1>2, HypothesisDrafts, MergedType DEF Hypotheses
<1> QED  BY <1>3, <1>4, PassType DEF HypFate, BlhFate, Same

\* A new hypothesis takes a number of its own.
LEMMA HypBirthType ==
    ASSUME BacklogInv, NEW k \in NewKeys(store, hypDrafts)
    PROVE  /\ HypBirth(k) \in Hypotheses /\ HypBirth(k).id = HypId(k)
           /\ Hashed(HypBirth(k))
           /\ \A r \in store : HypId(k) # r.id
           /\ \A m \in NewKeys(store, hypDrafts) : HypId(k) = HypId(m) => k = m
<1>1. k \in Keys /\ hypDrafts[k] \in Bodies /\ DOMAIN hypDrafts \subseteq Keys
  BY HypothesisDrafts DEF NewKeys, BacklogInv
<1>2. /\ HypId(k) \in IdsUnder({"HYP"})
      /\ \A r \in store : HypId(k) # r.id
      /\ \A m \in NewKeys(store, hypDrafts) : HypId(k) = HypId(m) => k = m
  BY <1>1, FreshIds DEF BacklogInv, HypId
<1>3. HypId(k) \in IdsUnder({"HYP", "BLH"}) /\ HypId(k).prefix = "HYP"
  BY <1>2 DEF IdsUnder
<1> DEFINE g == Generated(k, HypId(k), hypDrafts[k], FirstLife, HypGid)
<1>4. g \in Hypotheses /\ g.id = HypId(k)
  <2>1. HypGid \in {HypGid, BlhGid}
    OBVIOUS
  <2> QED  BY <1>1, <1>3, <2>1, GeneratedType, FileAssumption DEF Hypotheses
<1>5. HypBirth(k) = HypPass(g)
  BY DEF HypBirth
<1> HIDE DEF g
<1>6. HypPass(g) \in Hypotheses /\ Same(HypPass(g), g)
  BY <1>4, PassType
<1> QED  BY <1>2, <1>3, <1>4, <1>5, <1>6 DEF Same, Hashed

\* A new BLH record takes the hash of a key that no record of the file has.
LEMMA BlhBirthType ==
    ASSUME BacklogInv, NEW k \in NewKeys(store, blhDrafts)
    PROVE  /\ BlhBirth(k) \in Hypotheses /\ BlhBirth(k).id = Id("BLH", k)
           /\ Hashed(BlhBirth(k))
           /\ \A r \in store : Id("BLH", k) # r.id
<1>1. k \in Keys /\ blhDrafts[k] \in Bodies
  BY HypothesisDrafts DEF NewKeys, BacklogInv
<1>2. Id("BLH", k) \in IdsUnder({"HYP", "BLH"})
  BY <1>1, KeysAssumption DEF Id, IdsUnder
<1>3. \A r \in store : Id("BLH", k) # r.id
  BY DEF Id, BacklogInv, Hashed, NewKeys, KeysOf
<1> DEFINE g == Generated(k, Id("BLH", k), blhDrafts[k], FirstLife, BlhGid)
<1>4. g \in Hypotheses /\ g.id = Id("BLH", k) /\ g.key = k
  <2>1. BlhGid \in {HypGid, BlhGid}
    OBVIOUS
  <2> QED  BY <1>1, <1>2, <2>1, GeneratedType, FileAssumption DEF Hypotheses
<1>5. BlhBirth(k) = BlhPass(g)
  BY DEF BlhBirth
<1> HIDE DEF g
<1>6. BlhPass(g) \in Hypotheses /\ Same(BlhPass(g), g)
  BY <1>4, PassType
<1>7. Id("BLH", k).num = k
  BY DEF Id
<1> QED  BY <1>3, <1>4, <1>5, <1>6, <1>7 DEF Same, Hashed

-----------------------------------------------------------------------------
(* Where the records of a run come from                                    *)

LEMMA HypOutputIs ==
    ASSUME NEW pick \in Picks(store, hypDrafts)
    PROVE  HypOutput(store, hypDrafts, pick) =
             {HypPass(x) : x \in Merge(store, hypDrafts, HypGid, FirstLife, pick,
                                      [k \in NewKeys(store, hypDrafts) |-> HypId(k)])}
  BY DEF HypOutput, Finalize, SuppressUnsupported, HypPass, Final, HypId

LEMMA BlhOutputIs ==
    ASSUME NEW pick \in Picks(store, blhDrafts)
    PROVE  BlhOutput(store, blhDrafts, pick) =
             {BlhPass(x) : x \in Merge(store, blhDrafts, BlhGid, FirstLife, pick,
                                      [k \in NewKeys(store, blhDrafts) |-> Id("BLH", k)])}
  BY DEF BlhOutput, Finalize, SuppressLogic, BlhPass, Final

LEMMA HypOrigin ==
    ASSUME NEW pick \in Picks(store, hypDrafts),
           NEW x \in HypOutput(store, hypDrafts, pick)
    PROVE  \/ \E k \in NewKeys(store, hypDrafts) : x = HypBirth(k)
           \/ \E r \in store : x = HypFate(r)
<1> DEFINE ids == [k \in NewKeys(store, hypDrafts) |-> HypId(k)]
<1>1. PICK y \in Merge(store, hypDrafts, HypGid, FirstLife, pick, ids) : x = HypPass(y)
  BY HypOutputIs
<1>2. \A k \in NewKeys(store, hypDrafts) : ids[k] = HypId(k)
  OBVIOUS
<1> HIDE DEF ids
<1>3. \/ \E k \in NewKeys(store, hypDrafts) :
             y = Generated(k, ids[k], hypDrafts[k], FirstLife, HypGid)
      \/ \E r \in store : y = Merged(r, hypDrafts, HypGid)
  BY <1>1, MergeOrigin
<1> QED  BY <1>1, <1>2, <1>3 DEF HypBirth, HypFate

LEMMA BlhOrigin ==
    ASSUME NEW pick \in Picks(store, blhDrafts),
           NEW x \in BlhOutput(store, blhDrafts, pick)
    PROVE  \/ \E k \in NewKeys(store, blhDrafts) : x = BlhBirth(k)
           \/ \E r \in store : x = BlhFate(r)
<1> DEFINE ids == [k \in NewKeys(store, blhDrafts) |-> Id("BLH", k)]
<1>1. PICK y \in Merge(store, blhDrafts, BlhGid, FirstLife, pick, ids) : x = BlhPass(y)
  BY BlhOutputIs
<1>2. \A k \in NewKeys(store, blhDrafts) : ids[k] = Id("BLH", k)
  OBVIOUS
<1> HIDE DEF ids
<1>3. \/ \E k \in NewKeys(store, blhDrafts) :
             y = Generated(k, ids[k], blhDrafts[k], FirstLife, BlhGid)
      \/ \E r \in store : y = Merged(r, blhDrafts, BlhGid)
  BY <1>1, MergeOrigin
<1> QED  BY <1>1, <1>2, <1>3 DEF BlhBirth, BlhFate

-----------------------------------------------------------------------------
(* The invariant                                                           *)

LEMMA GenerateKeeps == BacklogInv /\ GenerateHypotheses => BacklogInv'
<1> SUFFICES ASSUME BacklogInv, GenerateHypotheses PROVE BacklogInv'
  OBVIOUS
<1>0. BacklogTypeOK /\ IdsDistinct /\ \A r \in store : Hashed(r)
  BY DEF BacklogInv
<1>1. PICK pick \in Picks(store, hypDrafts) :
        /\ store' = HypOutput(store, hypDrafts, pick)
        /\ HypothesesBounded(store')
        /\ UNCHANGED <<hypDrafts, blhDrafts>>
  BY DEF GenerateHypotheses
<1>2. \A x \in store' : \/ \E k \in NewKeys(store, hypDrafts) : x = HypBirth(k)
                        \/ \E r \in store : x = HypFate(r)
  BY <1>1, HypOrigin
<1>3. \A k \in NewKeys(store, hypDrafts) :
          /\ HypBirth(k) \in Hypotheses /\ HypBirth(k).id = HypId(k)
          /\ Hashed(HypBirth(k))
          /\ \A r \in store : HypId(k) # r.id
          /\ \A m \in NewKeys(store, hypDrafts) : HypId(k) = HypId(m) => k = m
  BY HypBirthType
<1>4. \A r \in store : HypFate(r) \in Hypotheses /\ Same(HypFate(r), r)
  BY <1>0, FatesType
<1>5. store' \subseteq Hypotheses
  BY <1>2, <1>3, <1>4
<1>6. \A x \in store' : Hashed(x)
  BY <1>0, <1>2, <1>3, <1>4 DEF Hashed, Same
<1>7. NumsBounded(store, "HYP")'
  BY <1>1, <1>5 DEF HypothesesBounded, NumsBounded, Hypotheses, RecordsOf, IdsUnder
<1>8. IdsDistinct'
  <2> SUFFICES ASSUME NEW x \in store', NEW y \in store', x.id = y.id
               PROVE  x = y
    BY DEF IdsDistinct
  <2>1. ASSUME NEW r \in store, NEW q \in store, x = HypFate(r), y = HypFate(q)
        PROVE  x = y
    BY <1>0, <1>4, <2>1 DEF Same, IdsDistinct
  <2>2. ASSUME NEW k \in NewKeys(store, hypDrafts), NEW r \in store,
               HypBirth(k).id = HypFate(r).id
        PROVE  FALSE
    BY <1>3, <1>4, <2>2 DEF Same
  <2> QED  BY <1>2, <1>3, <2>1, <2>2
<1> QED  BY <1>0, <1>1, <1>5, <1>6, <1>7, <1>8 DEF BacklogInv, BacklogTypeOK

LEMMA SyncKeeps == BacklogInv /\ SyncBacklog => BacklogInv'
<1> SUFFICES ASSUME BacklogInv, SyncBacklog PROVE BacklogInv'
  OBVIOUS
<1>0. BacklogTypeOK /\ IdsDistinct /\ \A r \in store : Hashed(r)
  BY DEF BacklogInv
<1>1. PICK pick \in Picks(store, blhDrafts) :
        /\ store' = BlhOutput(store, blhDrafts, pick)
        /\ HypothesesBounded(store')
        /\ UNCHANGED <<hypDrafts, blhDrafts>>
  BY DEF SyncBacklog
<1>2. \A x \in store' : \/ \E k \in NewKeys(store, blhDrafts) : x = BlhBirth(k)
                        \/ \E r \in store : x = BlhFate(r)
  BY <1>1, BlhOrigin
<1>3. \A k \in NewKeys(store, blhDrafts) :
          /\ BlhBirth(k) \in Hypotheses /\ BlhBirth(k).id = Id("BLH", k)
          /\ Hashed(BlhBirth(k))
          /\ \A r \in store : Id("BLH", k) # r.id
  BY BlhBirthType
<1>4. \A r \in store : BlhFate(r) \in Hypotheses /\ Same(BlhFate(r), r)
  BY <1>0, FatesType
<1>5. store' \subseteq Hypotheses
  BY <1>2, <1>3, <1>4
<1>6. \A x \in store' : Hashed(x)
  BY <1>0, <1>2, <1>3, <1>4 DEF Hashed, Same
<1>7. NumsBounded(store, "HYP")'
  BY <1>1, <1>5 DEF HypothesesBounded, NumsBounded, Hypotheses, RecordsOf, IdsUnder
<1>8. IdsDistinct'
  <2> SUFFICES ASSUME NEW x \in store', NEW y \in store', x.id = y.id
               PROVE  x = y
    BY DEF IdsDistinct
  <2>1. ASSUME NEW r \in store, NEW q \in store, x = BlhFate(r), y = BlhFate(q)
        PROVE  x = y
    BY <1>0, <1>4, <2>1 DEF Same, IdsDistinct
  <2>2. ASSUME NEW k \in NewKeys(store, blhDrafts), NEW r \in store,
               BlhBirth(k).id = BlhFate(r).id
        PROVE  FALSE
    BY <1>3, <1>4, <2>2 DEF Same
  <2>3. \A k, m : Id("BLH", k) = Id("BLH", m) => k = m
    BY DEF Id
  <2> QED  BY <1>2, <1>3, <2>1, <2>2, <2>3
<1> QED  BY <1>0, <1>1, <1>5, <1>6, <1>7, <1>8 DEF BacklogInv, BacklogTypeOK

\* What a researcher or a later stage rewrites keeps its key and identifier.
LEMMA RewritingKeeps ==
    ASSUME BacklogInv, NEW r \in store, NEW e \in Hypotheses, Same(e, r),
           store' = (store \ {r}) \cup {e}, UNCHANGED <<hypDrafts, blhDrafts>>
    PROVE  BacklogInv'
<1>1. e.id = r.id /\ e.key = r.key
  BY DEF Same
<1> QED  BY <1>1 DEF BacklogInv, BacklogTypeOK, Hashed, NumsBounded, IdsDistinct

LEMMA RewriteKeeps ==
    ASSUME BacklogInv, NEW r \in store, EditHypothesis(r) \/ UpdateStatus(r)
    PROVE  BacklogInv'
<1>1. r \in Hypotheses
  BY DEF BacklogInv, BacklogTypeOK
<1>2. CASE \E b \in Bodies : Rewrite(r, [r EXCEPT !.body = b])
  <2>1. \A b \in Bodies : [r EXCEPT !.body = b] \in Hypotheses
                          /\ Same([r EXCEPT !.body = b], r)
    BY <1>1 DEF Hypotheses, RecordsOf, Same
  <2> QED  BY <1>2, <2>1, RewritingKeeps DEF Rewrite
<1>3. CASE \E d \in Dispositions : Rewrite(r, [r EXCEPT !.disp = d])
  <2>1. \A d \in Dispositions : [r EXCEPT !.disp = d] \in Hypotheses
                                /\ Same([r EXCEPT !.disp = d], r)
    BY <1>1 DEF Hypotheses, RecordsOf, Same
  <2> QED  BY <1>3, <2>1, RewritingKeeps DEF Rewrite
<1>4. CASE UpdateStatus(r)
  <2>1. \A l \in Lives : [r EXCEPT !.life = l] \in Hypotheses
                         /\ Same([r EXCEPT !.life = l], r)
    BY <1>1 DEF Hypotheses, RecordsOf, Same
  <2> QED  BY <1>4, <2>1, RewritingKeeps DEF UpdateStatus
<1> QED  BY <1>2, <1>3, <1>4 DEF EditHypothesis

LEMMA AddedKeeps == BacklogInv /\ AddHypothesis => BacklogInv'
<1> SUFFICES ASSUME BacklogInv, AddHypothesis PROVE BacklogInv'
  OBVIOUS
<1>1. PICK k \in Keys, b \in Bodies, n \in 1..MaxNum :
        /\ Id("HYP", n) \notin {r.id : r \in store}
        /\ store' = store \cup {[key |-> k, id |-> Id("HYP", n), body |-> b,
                                 disp |-> "ACTIVE", life |-> FirstLife,
                                 gen |-> Unmanaged]}
        /\ HypothesesBounded(store')
        /\ UNCHANGED <<hypDrafts, blhDrafts>>
  BY DEF AddHypothesis
<1> DEFINE new == [key |-> k, id |-> Id("HYP", n), body |-> b, disp |-> "ACTIVE",
                   life |-> FirstLife, gen |-> Unmanaged]
<1>2. Id("HYP", n) \in IdsUnder({"HYP", "BLH"}) /\ Id("HYP", n).prefix = "HYP"
  BY FileAssumption DEF Id, IdsUnder
<1>3. new \in Hypotheses /\ new.id = Id("HYP", n)
  BY <1>2, FileAssumption DEF Hypotheses, RecordsOf, Dispositions
<1> HIDE DEF new
<1>4. store' = store \cup {new}
  BY <1>1 DEF new
<1>5. BacklogTypeOK'
  BY <1>1, <1>3, <1>4 DEF BacklogInv, BacklogTypeOK
<1>6. \A x \in store' : Hashed(x)
  BY <1>2, <1>3, <1>4 DEF BacklogInv, Hashed
<1>7. NumsBounded(store, "HYP")'
  BY <1>1, <1>5 DEF HypothesesBounded, NumsBounded, BacklogTypeOK, Hypotheses,
                    RecordsOf, IdsUnder
<1>8. IdsDistinct'
  <2>1. \A r \in store : r.id # new.id
    BY <1>1, <1>3
  <2> QED  BY <1>4, <2>1 DEF BacklogInv, IdsDistinct
<1> QED  BY <1>5, <1>6, <1>7, <1>8 DEF BacklogInv

LEMMA BacklogStep == BacklogInv /\ [BacklogNext]_backlogVars => BacklogInv'
<1> SUFFICES ASSUME BacklogInv, [BacklogNext]_backlogVars PROVE BacklogInv'
  OBVIOUS
<1>1. CASE DraftsChange
  BY <1>1 DEF DraftsChange, BacklogInv, BacklogTypeOK, NumsBounded, IdsDistinct
<1>2. CASE Generators
  BY <1>2, GenerateKeeps, SyncKeeps DEF Generators
<1>3. CASE AddHypothesis
  BY <1>3, AddedKeeps
<1>4. CASE \E r \in store : UpdateStatus(r) \/ EditHypothesis(r)
  BY <1>4, RewriteKeeps
<1>5. CASE \E r \in store : RemoveHypothesis(r)
  BY <1>5 DEF RemoveHypothesis, BacklogInv, BacklogTypeOK, NumsBounded, IdsDistinct
<1>6. CASE UNCHANGED backlogVars
  BY <1>6 DEF backlogVars, BacklogInv, BacklogTypeOK, NumsBounded, IdsDistinct
<1> QED  BY <1>1, <1>2, <1>3, <1>4, <1>5, <1>6 DEF BacklogNext

LEMMA BacklogInvariant == BacklogSpec => []BacklogInv
<1>1. BacklogInit => BacklogInv
  BY DEF BacklogInit, BacklogInv, BacklogTypeOK, NumsBounded, IdsDistinct
<1> QED  BY <1>1, BacklogStep, PTL DEF BacklogSpec

-----------------------------------------------------------------------------
(* The theorems                                                            *)

\* Two generators and a researcher allocate identifiers in one backlog, one of
\* them by number and one by hash, and finalising rewrites the records of all
\* three; no two hypotheses ever share an identifier.
THEOREM HypothesesDistinct == BacklogSpec => []IdsDistinct
<1>1. BacklogInv => IdsDistinct
  BY DEF BacklogInv
<1> QED  BY <1>1, BacklogInvariant, PTL

\* One run of the hypothesis generator leaves the content of every generated
\* record a researcher edited as it was, whichever generator wrote the record,
\* although the run restamps it (_refresh_checksum).
THEOREM OneRunKeepsEdits == BacklogSpec => EditsSurviveOneRun
<1>1. ASSUME BacklogTypeOK, GenerateHypotheses,
             NEW r \in store, Sole(store, r), Managed(r), ~Untouched(r)
      PROVE  Content(r) \in ContentOf(store')
  <2>1. PICK pick \in Picks(store, hypDrafts) : store' = HypOutput(store, hypDrafts, pick)
    BY <1>1 DEF GenerateHypotheses
  <2>2. Merged(r, hypDrafts, HypGid) = r /\ HypPass(r) = Stamp(r, r.gen.by)
    BY <1>1, EditedIsKept DEF HypPass, Final
  <2>3. Stamp(r, r.gen.by) \in store'
    BY <1>1, <2>1, <2>2, SoleIsMerged, HypOutputIs
  <2>4. Content(Stamp(r, r.gen.by)) = Content(r)
    <3>1. r \in Hypotheses
      BY <1>1 DEF BacklogTypeOK
    <3> QED  BY <3>1, StampKeepsContent
  <2> QED  BY <2>3, <2>4 DEF ContentOf
<1>2. BacklogTypeOK =>
        [GenerateHypotheses => \A r \in store :
            (Sole(store, r) /\ Managed(r) /\ ~Untouched(r))
                => Content(r) \in ContentOf(store')]_backlogVars
  BY <1>1
<1>3. BacklogInv => BacklogTypeOK
  BY DEF BacklogInv
<1> QED  BY <1>2, <1>3, BacklogInvariant, PTL DEF EditsSurviveOneRun

\* A record without a generation block comes out of a run of either generator
\* as it went in: neither the merge, nor the suppression that does not compare
\* checksums, nor the finalisation of every record touches it.
THEOREM WrittenRecordsSurvive == BacklogSpec => ResearcherRecordsSurvive
<1>1. ASSUME NEW r \in store, Sole(store, r), ~Managed(r), GenerateHypotheses
      PROVE  r \in store'
  <2>1. PICK pick \in Picks(store, hypDrafts) : store' = HypOutput(store, hypDrafts, pick)
    BY <1>1 DEF GenerateHypotheses
  <2>2. Merged(r, hypDrafts, HypGid) = r /\ HypPass(r) = r
    BY <1>1, EditedIsKept DEF HypPass, Final, Untouched
  <2> QED  BY <1>1, <2>1, <2>2, SoleIsMerged, HypOutputIs
<1>2. ASSUME NEW r \in store, Sole(store, r), ~Managed(r), SyncBacklog
      PROVE  r \in store'
  <2>1. PICK pick \in Picks(store, blhDrafts) : store' = BlhOutput(store, blhDrafts, pick)
    BY <1>2 DEF SyncBacklog
  <2>2. Merged(r, blhDrafts, BlhGid) = r /\ BlhPass(r) = r
    BY <1>2, EditedIsKept DEF BlhPass, Final, Untouched
  <2> QED  BY <1>2, <2>1, <2>2, SoleIsMerged, BlhOutputIs
<1>3. [Generators => \A r \in store :
          (Sole(store, r) /\ ~Managed(r)) => r \in store']_backlogVars
  BY <1>1, <1>2 DEF Generators
<1> QED  BY <1>3, PTL DEF ResearcherRecordsSurvive
=============================================================================
