--------------------------- MODULE GeneratedMerge ---------------------------
(***************************************************************************)
(* finsec/modeling/merge.py: how one generation run reconciles its drafts  *)
(* with the records of an artifact file a researcher may have edited, and  *)
(* how the generators suppress the records their drafts no longer support. *)
(*                                                                         *)
(* A file is a SET of records.  The code keeps a list and, when two        *)
(* records share a key, works on the later one; the order in which a       *)
(* researcher leaves copies in the file is arbitrary, so the record the    *)
(* code picks is a parameter (see Picks).                                  *)
(***************************************************************************)
EXTENDS Naturals, FiniteSets, FiniteSetsExt

CONSTANTS Keys,      \* semantic keys, ordered as the code sorts them
          Bodies,    \* everything evidence decides about a record
          Lives,     \* values of the preserved lifecycle fields
          FirstLife, \* their value in a new draft
          MaxNum,    \* bound on identifier numbers
          MaxRecords \* bound on the records of the file

ASSUME KeysAssumption == Keys \subseteq Nat

ASSUME FileAssumption ==
    /\ FirstLife \in Lives
    /\ MaxNum \in Nat
    /\ MaxRecords \in Nat

VARIABLE store \* the records of the file

Dispositions == {"ACTIVE", "SUPPRESSED"}

\* An identifier such as HYP-003; the number of a BLH identifier is its hash.
Id(prefix, num) == [prefix |-> prefix, num |-> num]

\* _record_checksum: a digest of all but the generation block and the
\* preserved fields.  The digest is injective, so the model keeps its input.
Checksum(r) == [key |-> r.key, id |-> r.id, body |-> r.body, disp |-> r.disp]

\* A record without a generation block was written by the researcher.
Unmanaged == [by |-> "researcher"]
Managed(r) == r.gen # Unmanaged

Stamp(r, gid) == [r EXCEPT !.gen = [by |-> gid, sum |-> Checksum(r)]]

\* generated_checksum still describes the record: nobody edited it.
Untouched(r) == Managed(r) /\ r.gen.sum = Checksum(r)

\* The records under identifiers of the given prefixes, written by a
\* researcher or by one of the given generators.
IdsUnder(prefixes) == [prefix : prefixes, num : Nat]
RecordsOf(prefixes, gids) ==
    [key : Keys, id : IdsUnder(prefixes), body : Bodies, disp : Dispositions,
     life : Lives,
     gen : {Unmanaged} \cup
           [by : gids, sum : [key : Keys, id : IdsUnder(prefixes),
                              body : Bodies, disp : Dispositions]]]

WithKey(s, k) == {r \in s : r.key = k}
Sole(s, r) == WithKey(s, r.key) = {r}
KeysOf(s) == {r.key : r \in s}

\* Faulty: the number after as many records as there are.
NumberByCount(s, prefix) ==
    1 + Cardinality({x \in s : x.id.prefix = prefix})

\* _next_id: one more than the largest number in use under the prefix.
NextNumber(s, prefix) ==
    1 + Max({0} \cup {r.id.num : r \in {x \in s : x.id.prefix = prefix}})

\* Faulty: the number is not advanced from one new record to the next.
NewIdUnadvanced(s, drafts, prefix, k) == Id(prefix, NextNumber(s, prefix))

\* Drafts are a function from keys to bodies: a generator emits one draft for
\* a key.  They are merged in key order, so the k-th new key takes the k-th
\* free number.
NewKeys(s, drafts) == DOMAIN drafts \ KeysOf(s)
NewId(s, drafts, prefix, k) ==
    Id(prefix, NextNumber(s, prefix)
                 + Cardinality({j \in NewKeys(s, drafts) : j < k}))

Picks(s, drafts) ==
    {p \in [DOMAIN drafts \cap KeysOf(s) -> s] :
        \A k \in DOMAIN p : p[k].key = k}

\* A record made from a draft, under an identifier and lifecycle fields.
Generated(k, id, body, life, gid) ==
    Stamp([key |-> k, id |-> id, body |-> body, disp |-> "ACTIVE",
           life |-> life, gen |-> Unmanaged], gid)

\* Faulty: an edited record is replaced; a conflicting record is restamped.
ReconcileAlways(r, body, gid) == Generated(r.key, r.id, body, r.life, gid)

\* The draft replaces an untouched record; any other record is a conflict and
\* stays as it is.
Reconcile(r, body, gid) ==
    IF Untouched(r) THEN Generated(r.key, r.id, body, r.life, gid) ELSE r

\* Records no draft claimed are appended unchanged.
Preserved(s, drafts) == {r \in s : r.key \notin DOMAIN drafts}

\* merge_generated_records.  ids names the records that are new.
Merge(s, drafts, gid, life, pick, ids) ==
    {Generated(k, ids[k], drafts[k], life, gid) : k \in NewKeys(s, drafts)}
      \cup {Reconcile(pick[k], drafts[k], gid) : k \in DOMAIN pick}
      \cup Preserved(s, drafts)

\* The generators' pass over the merged records: what the drafts no longer
\* support and nobody edited is retained with a suppressed disposition.
Suppress(r, gid) ==
    IF Untouched(r) /\ r.gen.by = gid
      THEN Stamp([r EXCEPT !.disp = "SUPPRESSED"], gid) ELSE r

SuppressUnsupported(s, drafts, gid) ==
    {IF r.key \in DOMAIN drafts THEN r ELSE Suppress(r, gid) : r \in s}

-----------------------------------------------------------------------------

\* No two records of a file carry the same identifier, whoever allocated it:
\* plans, evidence directories and findings reach a record by its identifier
\* alone.
IdsDistinct == \A r, q \in store : r.id = q.id => r = q
=============================================================================
