---------------------------- MODULE FindingReview ----------------------------
(***************************************************************************)
(* From evidence to report, for one business-logic hypothesis              *)
(* (evidence/manager.py, validation/validator.py, reporting/generator.py,  *)
(* the status update of hypotheses/generator.py) and what                  *)
(* readiness/resolver.py says of it.  A command reads several files and    *)
(* writes several, one after the other; the researcher edits them          *)
(* meanwhile, and a command may be killed between two writes.              *)
(*                                                                         *)
(* A checksum is injective: the model keeps what it digests.  Of each kind *)
(* of evidence there is one source, hence one path.                        *)
(***************************************************************************)
EXTENDS Naturals, FiniteSetsExt

CONSTANTS Facts,       \* states of scope, endpoints and hypothesis content
          Invariants,  \* versions of invariants.yaml
          Narratives,  \* complete report narratives
          Kinds,       \* kinds of evidence the hypothesis needs
          Contents,    \* contents of an artifact
          Assessments, \* what the researcher may answer
          MaxChanges,  \* bound on the researcher's changes
          MaxVersion   \* bound on report versions

Questions == {"compliance", "intent", "decisive", "other"}
Answers   == {"missing", "wanted", "unwanted"}

ASSUME ReviewAssumption ==
    /\ Facts \subseteq [text : Nat, scoped : BOOLEAN, plannable : BOOLEAN]
    /\ Assessments \subseteq [Questions -> Answers]
    /\ MaxChanges \in Nat
    /\ MaxVersion \in 0..9  \* names of versions sort as numbers, see LastListed
    /\ "none" \notin Contents \cup Narratives

VARIABLES facts, invs,
          plan,       \* the record of test-plans.yaml
          backlog,    \* the status in hypotheses.yaml
          logic,      \* the epistemic status in business-logic.yaml
          meta,       \* evidence/<id>/metadata.yaml
          files,      \* the artifact files beside it
          validation, \* the record of validations.yaml
          reports,    \* version -> content of reports/<id>-report-v<n>.md
          entry,      \* the report entry of the provenance file
          cmd,        \* the command under way
          settled,    \* history: the status the last command settled
          changes

researcherVars == <<facts, invs>>
storeVars == <<plan, backlog, logic, meta, files, validation, reports, entry>>
vars == <<researcherVars, storeVars, cmd, settled, changes>>

None == "none"
NoPlan == [none |-> TRUE]
NoValidation == [none |-> TRUE]
NoEntry == [none |-> TRUE]

-----------------------------------------------------------------------------
(* validator.py *)

\* _artifact_integrity
Intact(m) == \A a \in m.index : files[a.kind] = a.digest

\* _artifact_checks
Covered(m) == Kinds \subseteq {a.kind : a \in m.index}

\* The PLAN-APPROVAL check looks at the status alone.
PlanApproved(p) == p # NoPlan /\ p.ready /\ p.approval # "no"

\* _disposition, over the checks of validate_hypothesis
Disposition(f, p, m, intact) ==
    CASE ~f.scoped \/ m.answers["compliance"] = "unwanted" -> "OUT_OF_SCOPE"
      [] f.scoped /\ m.answers["compliance"] # "unwanted"
           /\ m.answers["intent"] = "unwanted" -> "EXPECTED_BEHAVIOR"
      [] f.scoped /\ m.answers["compliance"] # "unwanted"
           /\ m.answers["intent"] # "unwanted"
           /\ m.answers["decisive"] = "unwanted" -> "REFUTED"
      [] OTHER ->
           IF /\ PlanApproved(p) /\ intact /\ Covered(m)
              /\ \A q \in Questions : m.answers[q] = "wanted"
           THEN "CONFIRMED" ELSE "NEEDS_MORE_EVIDENCE"

\* _status
StatusOf(disposition) ==
    CASE disposition = "CONFIRMED" -> "CONFIRMED"
      [] disposition \in {"REFUTED", "EXPECTED_BEHAVIOR"} -> "REFUTED"
      [] OTHER -> "NEEDS_EVIDENCE"

\* validation_source_fingerprint
ValidationSource(f, p, m) == [facts |-> f, plan |-> p, meta |-> m]

\* The draft of validate_hypothesis; report_ready needs the narrative too.
ValidationDraft(c) ==
    LET d == Disposition(c.facts, c.plan, c.meta, c.intact)
    IN  [disp |-> d, ready |-> d = "CONFIRMED" /\ c.meta.narrative # None,
         src |-> ValidationSource(c.facts, c.plan, c.meta), edited |-> FALSE]

-----------------------------------------------------------------------------
(* reporting/generator.py *)

Content(c, inv) == [text |-> c.facts.text, inv |-> inv,
                    narrative |-> c.meta.narrative, index |-> c.meta.index]

\* report_source_fingerprint
ReportSource(text, m, inv, v) ==
    [text |-> text, meta |-> m, inv |-> inv, disp |-> v.disp, ready |-> v.ready]

\* Faulty: the version after as many versions as there are.
VersionByCount(content) ==
    LET same == {v \in DOMAIN reports : reports[v] = content}
    IN  IF same # {} THEN Min(same) ELSE 1 + Cardinality(DOMAIN reports)

\* _report_path: the oldest version with the same content, or the next one.
VersionFor(content) ==
    LET same == {v \in DOMAIN reports : reports[v] = content}
    IN  IF same # {} THEN Min(same) ELSE 1 + Max({0} \cup DOMAIN reports)

-----------------------------------------------------------------------------
(* readiness/resolver.py *)

\* _plan_current
CurrentPlan == IF plan # NoPlan /\ ~plan.edited /\ plan.src = facts
               THEN plan ELSE NoPlan

\* Faulty: the plan of the record is not compared.
ValidationCurrentSansPlan ==
    /\ validation # NoValidation /\ ~validation.edited
    /\ validation.src.facts = facts /\ validation.src.meta = meta

\* _validation_current
ValidationCurrent ==
    /\ validation # NoValidation /\ ~validation.edited
    /\ validation.src = ValidationSource(facts, CurrentPlan, meta)

Reportable == ValidationCurrent /\ validation.disp = "CONFIRMED" /\ validation.ready

\* The last of the names sorted as text; below ten versions the newest.
LastListed == Max(DOMAIN reports)

ReportBound ==
    /\ DOMAIN reports # {} /\ entry # NoEntry
    /\ entry.src = ReportSource(facts.text, meta, invs, validation)
    /\ entry.out = reports[LastListed]

ReportStatus ==
    CASE Reportable /\ ReportBound -> "COMPLETE"
      [] ~(Reportable /\ ReportBound) /\ DOMAIN reports # {} -> "STALE"
      [] OTHER -> IF Reportable THEN "READY" ELSE "BLOCKED"

-----------------------------------------------------------------------------
(* The researcher, and the commands around the plan                        *)

Idle == [pc |-> "idle"]
Change == changes < MaxChanges /\ changes' = changes + 1

ChangeFacts ==
    /\ Change /\ facts' \in Facts \ {facts}
    /\ UNCHANGED <<invs, storeVars, cmd, settled>>

ChangeInvariants ==
    /\ Change /\ invs' \in Invariants \ {invs}
    /\ UNCHANGED <<facts, storeVars, cmd, settled>>

\* metadata.yaml is where the researcher answers and writes the narrative.
Assess ==
    /\ Change
    /\ \/ \E a \in Assessments \ {meta.answers} : meta' = [meta EXCEPT !.answers = a]
       \/ \E n \in (Narratives \cup {None}) \ {meta.narrative} :
             meta' = [meta EXCEPT !.narrative = n]
    /\ UNCHANGED <<researcherVars, plan, backlog, logic, files, validation,
                   reports, entry, cmd, settled>>

TouchArtifact ==
    /\ Change
    /\ \E k \in Kinds : /\ files[k] # None
                        /\ \E c \in (Contents \cup {None}) \ {files[k]} :
                              files' = [files EXCEPT ![k] = c]
    /\ UNCHANGED <<researcherVars, plan, backlog, logic, meta, validation,
                   reports, entry, cmd, settled>>

\* Another disposition written into validations.yaml.
EditValidation ==
    /\ Change /\ validation # NoValidation
    /\ validation' = [validation EXCEPT !.disp = "CONFIRMED", !.ready = TRUE,
                                        !.edited = TRUE]
    /\ validation' # validation
    /\ UNCHANGED <<researcherVars, plan, backlog, logic, meta, files, reports,
                   entry, cmd, settled>>

RemoveReport ==
    /\ Change
    /\ \E v \in DOMAIN reports :
          reports' = [w \in DOMAIN reports \ {v} |-> reports[w]]
    /\ UNCHANGED <<researcherVars, plan, backlog, logic, meta, files,
                   validation, entry, cmd, settled>>

\* By hand an approval is only a status; so is one whose plan was edited.
EditPlan ==
    /\ Change /\ plan # NoPlan
    /\ \/ plan' = [plan EXCEPT !.approval = "paper"]
       \/ plan' = [plan EXCEPT !.edited = TRUE,
                               !.approval = IF @ = "valid" THEN "paper" ELSE @]
    /\ plan' # plan
    /\ UNCHANGED <<researcherVars, backlog, logic, meta, files, validation,
                   reports, entry, cmd, settled>>

\* generate_plan: an edited plan is a conflict and stays; another is replaced
\* with its approval fields preserved.
Replanned ==
    IF plan = NoPlan
      THEN [src |-> facts, ready |-> facts.plannable, edited |-> FALSE, approval |-> "no"]
    ELSE IF plan.edited THEN plan
    ELSE [src |-> facts, ready |-> facts.plannable, edited |-> FALSE,
          approval |-> IF plan.src # facts /\ plan.approval = "valid" THEN "paper"
                       ELSE plan.approval]

Plan ==
    /\ cmd = Idle
    /\ plan' = Replanned
    /\ cmd' = [pc |-> "status", status |-> "TEST_PLANNED", then |-> "end"]
    /\ settled' = None
    /\ UNCHANGED <<researcherVars, backlog, logic, meta, files, validation,
                   reports, entry, changes>>

\* approve_plan; _validate_static_policy refuses a decided hypothesis.
Approve ==
    /\ cmd = Idle
    /\ CurrentPlan # NoPlan /\ plan.ready
    /\ backlog \notin {"CONFIRMED", "REFUTED"}
    /\ plan' = [plan EXCEPT !.approval = "valid"] /\ plan' # plan
    /\ UNCHANGED <<researcherVars, backlog, logic, meta, files, validation,
                   reports, entry, cmd, settled, changes>>

-----------------------------------------------------------------------------
(* hunt evidence add *)

\* The metadata as it is then, and the redacted copy of the source.
CopyArtifact ==
    /\ cmd = Idle
    /\ \E k \in Kinds, c \in Contents :
          /\ files[k] = None
          /\ files' = [files EXCEPT ![k] = c]
          /\ cmd' = [pc |-> "index",
                     meta |-> [meta EXCEPT !.index = @ \cup {[kind |-> k, digest |-> c]}]]
    /\ UNCHANGED <<researcherVars, plan, backlog, logic, meta, validation,
                   reports, entry, settled, changes>>

IndexArtifact ==
    /\ cmd.pc = "index"
    /\ meta' = cmd.meta
    /\ cmd' = Idle
    /\ UNCHANGED <<researcherVars, plan, backlog, logic, files, validation,
                   reports, entry, settled, changes>>

-----------------------------------------------------------------------------
(* hunt validate, and hunt report, which validates first                   *)

Begin(then) ==
    /\ cmd = Idle
    /\ cmd' = [pc |-> "merge", then |-> then,
               copy |-> [facts |-> facts, plan |-> plan, meta |-> meta,
                         intact |-> Intact(meta)]]
    /\ UNCHANGED <<researcherVars, storeVars, settled, changes>>

Validate == Begin("end")
Report == Begin("report")

\* merge_generated_records: an edited record is preserved.
Merged(draft) ==
    IF validation # NoValidation /\ validation.edited THEN validation ELSE draft

MergeValidation ==
    /\ cmd.pc = "merge"
    /\ LET record == Merged(ValidationDraft(cmd.copy)) IN
          /\ validation' = record
          /\ cmd' = [pc |-> "status", status |-> StatusOf(record.disp),
                     then |-> IF cmd.then = "report" /\ record.ready
                                   /\ record.disp = "CONFIRMED" /\ ~record.edited
                                THEN "report" ELSE "end",
                     validation |-> record]
    /\ settled' = None
    /\ UNCHANGED <<researcherVars, plan, backlog, logic, meta, files, reports,
                   entry, changes>>

\* update_hypothesis_status: the backlog, then business-logic.yaml.
UpdateBacklog ==
    /\ cmd.pc = "status"
    /\ backlog' = cmd.status
    /\ cmd' = [cmd EXCEPT !.pc = "logic"]
    /\ UNCHANGED <<researcherVars, plan, logic, meta, files, validation,
                   reports, entry, settled, changes>>

\* Faulty: business-logic.yaml is left as it is.
LogicSkipped ==
    /\ cmd.pc = "logic"
    /\ settled' = cmd.status
    /\ cmd' = IF cmd.then = "end" THEN Idle
              ELSE [pc |-> "render", validation |-> cmd.validation]
    /\ UNCHANGED <<researcherVars, storeVars, changes>>

UpdateLogic ==
    /\ cmd.pc = "logic"
    /\ logic' = cmd.status
    /\ settled' = cmd.status
    /\ cmd' = IF cmd.then = "end" THEN Idle
              ELSE [pc |-> "render", validation |-> cmd.validation]
    /\ UNCHANGED <<researcherVars, plan, backlog, meta, files, validation,
                   reports, entry, changes>>

\* generate_report loads hypothesis and evidence again, renders them, and
\* raises when the narrative went missing meanwhile.
WriteReport ==
    LET loaded == [facts |-> facts, meta |-> meta]
        content == Content(loaded, invs)
        version == VersionFor(content)
    IN  /\ cmd.pc = "render"
        /\ IF meta.narrative = None
             THEN cmd' = Idle /\ UNCHANGED reports
             ELSE /\ version <= MaxVersion
                  /\ reports' = [v \in DOMAIN reports \cup {version} |->
                                    IF v = version THEN content ELSE reports[v]]
                  /\ cmd' = [pc |-> "record", loaded |-> loaded, version |-> version,
                             validation |-> cmd.validation]
        /\ UNCHANGED <<researcherVars, plan, backlog, logic, meta, files,
                       validation, entry, settled, changes>>

\* Faulty: a report that is as it was gets no new provenance.
RecordIfNew ==
    /\ cmd.pc = "record" /\ cmd.version \in DOMAIN reports
    /\ entry' = IF entry # NoEntry /\ entry.out = reports[cmd.version] THEN entry
                ELSE [src |-> ReportSource(cmd.loaded.facts.text, cmd.loaded.meta,
                                           invs, cmd.validation),
                      out |-> reports[cmd.version]]
    /\ cmd' = Idle
    /\ UNCHANGED <<researcherVars, plan, backlog, logic, meta, files,
                   validation, reports, settled, changes>>

\* The invariants and the written file are read once more.
RecordReport ==
    /\ cmd.pc = "record"
    /\ IF cmd.version \in DOMAIN reports
         THEN entry' = [src |-> ReportSource(cmd.loaded.facts.text, cmd.loaded.meta,
                                             invs, cmd.validation),
                        out |-> reports[cmd.version]]
         ELSE UNCHANGED entry
    /\ cmd' = Idle
    /\ UNCHANGED <<researcherVars, plan, backlog, logic, meta, files,
                   validation, reports, settled, changes>>

Kill == cmd # Idle /\ cmd' = Idle
        /\ UNCHANGED <<researcherVars, storeVars, settled, changes>>

-----------------------------------------------------------------------------
\* A classified workspace with its hypothesis, and nothing planned; of the
\* evidence, at most the metadata the researcher has filled in.
Init == /\ facts \in Facts /\ invs \in Invariants
        /\ plan = NoPlan /\ backlog = "NOT_TESTED" /\ logic = "NOT_TESTED"
        /\ meta \in [answers : Assessments, narrative : Narratives \cup {None},
                     index : {{}}]
        /\ files = [k \in Kinds |-> None]
        /\ validation = NoValidation
        /\ reports = [v \in {} |-> {}] /\ entry = NoEntry
        /\ cmd = Idle /\ settled = "NOT_TESTED" /\ changes = 0

Edits == \/ ChangeFacts \/ ChangeInvariants \/ Assess \/ TouchArtifact
         \/ EditValidation \/ RemoveReport \/ EditPlan

Next == \/ Edits \/ Plan \/ Approve \/ CopyArtifact \/ IndexArtifact
        \/ Validate \/ Report \/ MergeValidation \/ UpdateBacklog \/ UpdateLogic
        \/ WriteReport \/ RecordReport \/ Kill

Spec == Init /\ [][Next]_vars

-----------------------------------------------------------------------------

\* A report the readiness calls current shows the hypothesis, narrative and
\* evidence as the files have them now, validated as CONFIRMED in exactly this
\* state under a current plan with an approval, whoever edited what while the
\* report was made.
CurrentReportIsBacked ==
    ReportStatus = "COMPLETE" =>
        /\ LET r == reports[LastListed] IN
              /\ r.text = facts.text /\ r.index = meta.index
              /\ r.narrative = meta.narrative
        /\ validation.src.meta = meta /\ validation.src.facts = facts
        /\ facts.scoped /\ PlanApproved(plan) /\ plan.src = facts
        /\ \A q \in Questions : meta.answers[q] = "wanted"

\* A version still on disk is never overwritten, although versions before it
\* were removed (docs/manual.md: "versioned, immutable Markdown reports").
ReportsAreImmutable ==
    [][\A v \in DOMAIN reports \cap DOMAIN reports' : reports'[v] = reports[v]]_vars

\* The two files a status is kept in agree with the last plan or validation
\* that was not killed halfway; one that was is repaired by the next.
StatusIsSettled ==
    cmd = Idle /\ settled # None => backlog = settled /\ logic = settled

\* hunt report, when nothing changed beside it and it did not fall back on an
\* older version, leaves the report stage COMPLETE.
ReportBecomesCurrent ==
    [][RecordReport /\ cmd.version \in DOMAIN reports
         /\ ValidationCurrent /\ validation = cmd.validation
         /\ cmd.loaded = [facts |-> facts, meta |-> meta]
         /\ cmd.version = LastListed
       => ReportStatus' = "COMPLETE"]_vars

\* docs/manual.md, the 15 checks: "Plan is `READY_FOR_REVIEW` with valid
\* checksum approval".  A current confirmation rests on one.
ConfirmationIsApproved ==
    ValidationCurrent /\ validation.disp = "CONFIRMED" => plan.approval = "valid"
=============================================================================
