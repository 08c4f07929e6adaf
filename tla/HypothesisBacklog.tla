-------------------------- MODULE HypothesisBacklog -------------------------
(***************************************************************************)
(* hypotheses/backlog.yaml is written by two generators: the hypothesis    *)
(* generator (HYP records) and the business-logic analysis (BLH records).  *)
(* Each merges its drafts into the shared file, suppresses its own         *)
(* unsupported records, and then finalises EVERY record of the file, which *)
(* ends by restamping the checksum of every generated record.              *)
(*                                                                         *)
(* The fields the finalisation derives (title, scores, readiness, grouping,*)
(* presentation) are functions of the rest of the file and are left out.   *)
(***************************************************************************)
EXTENDS GeneratedMerge

CONSTANTS HypKeys, \* keys only the hypothesis generator drafts
          BlhKeys  \* keys only the business-logic analysis drafts

ASSUME BacklogAssumption ==
    /\ HypKeys \cup BlhKeys = Keys
    /\ HypKeys \cap BlhKeys = {}

HypGid == "phase3-hypothesis-generator"
BlhGid == "business-logic-analysis"

VARIABLES hypDrafts,  \* what each generator would emit now
          blhDrafts

backlogVars == <<store, hypDrafts, blhDrafts>>

Hypotheses == RecordsOf({"HYP", "BLH"}, {HypGid, BlhGid})
DraftsOver(S) == UNION {[K -> Bodies] : K \in SUBSET S}

\* What of a record a researcher's edit consists of.
Content(r) == [key |-> r.key, id |-> r.id, body |-> r.body, disp |-> r.disp]
ContentOf(s) == {Content(r) : r \in s}

-----------------------------------------------------------------------------
\* Faulty: records without a generation block are stamped too.
FinalizeAll(s) ==
    {Stamp(r, IF Managed(r) THEN r.gen.by ELSE HypGid) : r \in s}

\* finalize_hypothesis_store, _refresh_checksum: each generated record is
\* restamped, whoever wrote its present content.
Finalize(s) == {IF Managed(r) THEN Stamp(r, r.gen.by) ELSE r : r \in s}

\* The business-logic analysis suppresses its unsupported records without
\* comparing their checksums.
SuppressLogic(s, ds) ==
    {IF Managed(r) /\ r.gen.by = BlhGid /\ r.key \notin DOMAIN ds
       THEN Stamp([r EXCEPT !.disp = "SUPPRESSED"], BlhGid) ELSE r : r \in s}

HypothesesBounded(s) ==
    /\ Cardinality(s) <= MaxRecords
    /\ \A r \in s : r.id.prefix = "HYP" => r.id.num <= MaxNum

HypOutput(s, ds, pick) ==
    Finalize(SuppressUnsupported(
        Merge(s, ds, HypGid, FirstLife, pick,
              [k \in NewKeys(s, ds) |-> NewId(s, ds, "HYP", k)]),
        ds, HypGid))

\* A BLH draft brings its identifier, a hash of the draft's own key.
BlhOutput(s, ds, pick) ==
    Finalize(SuppressLogic(
        Merge(s, ds, BlhGid, FirstLife, pick,
              [k \in NewKeys(s, ds) |-> Id("BLH", k)]), ds))

BacklogInit == /\ store = {}
               /\ hypDrafts \in DraftsOver(HypKeys)
               /\ blhDrafts \in DraftsOver(BlhKeys)

DraftsChange ==
    /\ hypDrafts' \in DraftsOver(HypKeys)
    /\ blhDrafts' \in DraftsOver(BlhKeys)
    /\ <<hypDrafts', blhDrafts'>> # <<hypDrafts, blhDrafts>>
    /\ UNCHANGED store

GenerateHypotheses ==
    \E pick \in Picks(store, hypDrafts) :
        /\ store' = HypOutput(store, hypDrafts, pick)
        /\ HypothesesBounded(store')
        /\ UNCHANGED <<hypDrafts, blhDrafts>>

SyncBacklog ==
    \E pick \in Picks(store, blhDrafts) :
        /\ store' = BlhOutput(store, blhDrafts, pick)
        /\ HypothesesBounded(store')
        /\ UNCHANGED <<hypDrafts, blhDrafts>>

\* update_hypothesis_status, from the planner and the validator, and the
\* researcher's own changes to status and notes.
UpdateStatus(r) ==
    /\ \E l \in Lives \ {r.life} :
          store' = (store \ {r}) \cup {[r EXCEPT !.life = l]}
    /\ UNCHANGED <<hypDrafts, blhDrafts>>

\* The researcher rewrites a record in the YAML, under the key it has: a BLH
\* record given another key would meet its identifier again in the next draft
\* for the old one.
Rewrite(r, e) ==
    /\ e # r
    /\ store' = (store \ {r}) \cup {e}
    /\ UNCHANGED <<hypDrafts, blhDrafts>>

EditHypothesis(r) ==
    \/ \E b \in Bodies : Rewrite(r, [r EXCEPT !.body = b])
    \/ \E d \in Dispositions : Rewrite(r, [r EXCEPT !.disp = d])

AddHypothesis ==
    /\ \E k \in Keys, b \in Bodies, n \in 1..MaxNum :
          /\ Id("HYP", n) \notin {r.id : r \in store}
          /\ store' = store \cup {[key |-> k, id |-> Id("HYP", n), body |-> b,
                                   disp |-> "ACTIVE", life |-> FirstLife,
                                   gen |-> Unmanaged]}
          /\ HypothesesBounded(store')
    /\ UNCHANGED <<hypDrafts, blhDrafts>>

RemoveHypothesis(r) ==
    /\ store' = store \ {r}
    /\ UNCHANGED <<hypDrafts, blhDrafts>>

Generators == GenerateHypotheses \/ SyncBacklog

BacklogNext ==
    \/ DraftsChange
    \/ Generators
    \/ AddHypothesis
    \/ \E r \in store : UpdateStatus(r) \/ EditHypothesis(r) \/ RemoveHypothesis(r)

BacklogSpec == BacklogInit /\ [][BacklogNext]_backlogVars

-----------------------------------------------------------------------------

\* A run of the hypothesis generator leaves what the researcher edited as the
\* researcher left it (tests/test_hypotheses.py checks one such run).
EditsSurviveOneRun ==
    [][GenerateHypotheses => \A r \in store :
           (Sole(store, r) /\ Managed(r) /\ ~Untouched(r))
               => Content(r) \in ContentOf(store')]_backlogVars

\* What a researcher wrote without a generation block is never rewritten,
\* even when a generator comes to draft the same key.
ResearcherRecordsSurvive ==
    [][Generators => \A r \in store :
           (Sole(store, r) /\ ~Managed(r)) => r \in store']_backlogVars
=============================================================================
