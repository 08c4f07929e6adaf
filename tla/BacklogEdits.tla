---------------------------- MODULE BacklogEdits ----------------------------
(***************************************************************************)
(* The hypothesis backlog together with a history of the researcher's      *)
(* edits, to state what the documentation says about them over any number  *)
(* of generator runs.                                                      *)
(***************************************************************************)
EXTENDS HypothesisBacklog

VARIABLE authored  \* content of the edited generated records, as the
                   \* researcher left them

EditedIn(s) == {Content(e) : e \in {x \in s : Managed(x) /\ ~Untouched(x)}}

EditsInit == BacklogInit /\ authored = {}

EditsNext ==
    \/ /\ \/ DraftsChange
          \/ Generators
          \/ AddHypothesis
          \/ \E r \in store : UpdateStatus(r)
       /\ UNCHANGED authored
    \/ \E r \in store :
          /\ EditHypothesis(r) \/ RemoveHypothesis(r)
          /\ authored' = (authored \ {Content(r)})
                            \cup EditedIn(store' \ store)

EditsSpec == EditsInit /\ [][EditsNext]_<<backlogVars, authored>>

\* docs/workflow-rationale.md: "Other edited generated records are preserved
\* and reported as conflicts."  Refuted for hypotheses: the run that reports
\* the conflict also restamps the edited record, so the next run takes it for
\* untouched and overwrites the edit, reporting nothing.
EditedHypothesesPreserved ==
    \A c \in authored : c.id.prefix = "HYP" => c \in ContentOf(store)
=============================================================================
