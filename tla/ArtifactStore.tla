---------------------------- MODULE ArtifactStore ---------------------------
(***************************************************************************)
(* The life of one generated artifact file that one generator owns:        *)
(* passive evidence changes, the generator reruns, and between runs a      *)
(* researcher edits, annotates, adds and removes records.                  *)
(*                                                                         *)
(* There are two kinds of file.  The generators of resources and           *)
(* invariants suppress the records their drafts no longer support and      *)
(* preserve no field of a record; those of plans and validations suppress  *)
(* nothing and preserve lifecycle fields.                                  *)
(***************************************************************************)
EXTENDS GeneratedMerge

CONSTANTS Gid,   \* generation.generator of the file's owner
          Prefix \* identifier prefix: ACT, RES, INV, TEST, FND

ASSUME StoreAssumption == Gid # "researcher"

VARIABLES drafts,    \* what the generator would emit for the current evidence
          suppresses \* the kind of file: never changes

vars == <<store, drafts, suppresses>>

Records == RecordsOf({Prefix}, {Gid})
Drafts == UNION {[K -> Bodies] : K \in SUBSET Keys}

-----------------------------------------------------------------------------
Finish(s, ds) == IF suppresses THEN SuppressUnsupported(s, ds, Gid) ELSE s

\* What a run would write, were pick the records chosen among duplicates.
Output(s, ds, pick) ==
    Finish(Merge(s, ds, Gid, FirstLife, pick,
                 [k \in NewKeys(s, ds) |-> NewId(s, ds, Prefix, k)]), ds)

Bounded(s) == /\ Cardinality(s) <= MaxRecords
              /\ \A r \in s : r.id.num <= MaxNum

Init == /\ store = {}
        /\ drafts \in Drafts
        /\ suppresses \in BOOLEAN

\* Ingestion or a scope change gives the generator different drafts.
EvidenceChanges ==
    /\ drafts' \in Drafts \ {drafts}
    /\ UNCHANGED <<store, suppresses>>

Regenerate ==
    \E pick \in Picks(store, drafts) :
        /\ store' = Output(store, drafts, pick)
        /\ Bounded(store')
        /\ UNCHANGED <<drafts, suppresses>>

\* The researcher edits the YAML.  Identifiers and generation blocks are left
\* alone; a second record of a key and a re-keyed record are possible.
Replace(r, e) ==
    /\ e # r
    /\ store' = (store \ {r}) \cup {e}
    /\ UNCHANGED <<drafts, suppresses>>

Edit(r) == \/ \E k \in Keys : Replace(r, [r EXCEPT !.key = k])
           \/ \E b \in Bodies : Replace(r, [r EXCEPT !.body = b])
           \/ \E d \in Dispositions : Replace(r, [r EXCEPT !.disp = d])

Annotate(r) == /\ ~suppresses
               /\ \E l \in Lives : Replace(r, [r EXCEPT !.life = l])

Add ==
    /\ \E k \in Keys, b \in Bodies, n \in 1..MaxNum :
          /\ Id(Prefix, n) \notin {r.id : r \in store}
          /\ store' = store \cup {[key |-> k, id |-> Id(Prefix, n), body |-> b,
                                   disp |-> "ACTIVE", life |-> FirstLife,
                                   gen |-> Unmanaged]}
          /\ Bounded(store')
    /\ UNCHANGED <<drafts, suppresses>>

Remove(r) ==
    /\ store' = store \ {r}
    /\ UNCHANGED <<drafts, suppresses>>

Researcher == \/ \E r \in store : Edit(r)
              \/ \E r \in store : Annotate(r)
              \/ \E r \in store : Remove(r)
              \/ Add

Next == EvidenceChanges \/ Regenerate \/ Researcher

Spec == Init /\ [][Next]_vars

-----------------------------------------------------------------------------
TypeOK == /\ store \subseteq Records
          /\ drafts \in Drafts
          /\ suppresses \in BOOLEAN

\* A record the researcher wrote or edited comes out of a run as it went in,
\* unless the file holds a second record under its key.
EditsSurvive ==
    [][Regenerate => \A r \in store :
           (Sole(store, r) /\ ~Untouched(r)) => r \in store']_vars
=============================================================================
