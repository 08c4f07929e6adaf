------------------------ MODULE FindingReview_proofs ------------------------
(***************************************************************************)
(* Proofs about one hypothesis from evidence to report, for any facts,     *)
(* evidence, answers and bounds, whatever the researcher edits meanwhile   *)
(* and wherever a command is killed: what backs a report that counts as    *)
(* current, that versions are never overwritten, that the two status files *)
(* agree, and that an undisturbed hunt report makes its stage COMPLETE.    *)
(***************************************************************************)
EXTENDS FindingReview, TLAPS, WellFoundedInduction

-----------------------------------------------------------------------------
(* Types                                                                   *)

Approvals == {"no", "paper", "valid"}
Dispositions == {"OUT_OF_SCOPE", "EXPECTED_BEHAVIOR", "REFUTED", "CONFIRMED",
                 "NEEDS_MORE_EVIDENCE"}
Statuses == {"NOT_TESTED", "TEST_PLANNED", "CONFIRMED", "REFUTED", "NEEDS_EVIDENCE"}

Artifacts == [kind : Kinds, digest : Contents]
Metas == [answers : Assessments, narrative : Narratives \cup {None},
          index : SUBSET Artifacts]
Plans == [src : Facts, ready : BOOLEAN, edited : BOOLEAN, approval : Approvals]
Copies == [facts : Facts, plan : Plans \cup {NoPlan}, meta : Metas, intact : BOOLEAN]
Sources == [facts : Facts, plan : Plans \cup {NoPlan}, meta : Metas]
Validations == [disp : Dispositions, ready : BOOLEAN, src : Sources, edited : BOOLEAN]
Loads == [facts : Facts, meta : Metas]
Pages == [text : Nat, inv : Invariants, narrative : Narratives \cup {None},
          index : SUBSET Artifacts]
Entries == [src : [text : Nat, meta : Metas, inv : Invariants, disp : Dispositions,
                   ready : BOOLEAN],
            out : Pages]

Commands ==
    {Idle}
    \cup [pc : {"index"}, meta : Metas]
    \cup [pc : {"merge"}, then : {"end", "report"}, copy : Copies]
    \cup [pc : {"status", "logic"}, status : Statuses, then : {"end"}]
    \cup [pc : {"status", "logic"}, status : Statuses, then : {"end", "report"},
          validation : Validations]
    \cup [pc : {"render"}, validation : Validations]
    \cup [pc : {"record"}, loaded : Loads, version : Nat, validation : Validations]

FactsTyped == facts \in Facts /\ invs \in Invariants
PlanTyped == plan \in Plans \cup {NoPlan}
MetaTyped == meta \in Metas /\ files \in [Kinds -> Contents \cup {None}]
ValidationTyped == validation \in Validations \cup {NoValidation}
StatusTyped == backlog \in Statuses /\ logic \in Statuses /\ settled \in Statuses \cup {None}
ReportsTyped == /\ DOMAIN reports \subseteq 1..MaxVersion
                /\ \A v \in DOMAIN reports : reports[v] \in Pages
EntryTyped == entry \in Entries \cup {NoEntry}
CmdTyped == cmd \in Commands

Typed == /\ FactsTyped /\ PlanTyped /\ MetaTyped /\ ValidationTyped /\ StatusTyped
         /\ ReportsTyped /\ EntryTyped /\ CmdTyped

-----------------------------------------------------------------------------
(* The inductive invariant                                                 *)

\* A status on its way to the two files has not settled; the backlog has it
\* first.
StatusInv ==
    /\ cmd.pc \in {"status", "logic"} => settled = None
    /\ cmd.pc = "logic" => backlog = cmd.status
    /\ settled # None => backlog = settled /\ logic = settled

\* What a confirmation says of the inputs it was made from.
Established(src) ==
    /\ src.facts.scoped
    /\ PlanApproved(src.plan)
    /\ \A q \in Questions : src.meta.answers[q] = "wanted"

VerdictInv ==
    (validation # NoValidation /\ ~validation.edited /\ validation.disp = "CONFIRMED")
        => Established(validation.src)

Confirmed(v) == v.disp = "CONFIRMED" /\ v.ready

Shows(page, text, m) ==
    page.text = text /\ page.narrative = m.narrative /\ page.index = m.index

\* A command that is to render a report has a confirmation to render, and
\* what it has rendered is what it loaded.
RenderInv ==
    /\ (cmd.pc \in {"status", "logic"} /\ cmd.then # "end") => Confirmed(cmd.validation)
    /\ cmd.pc \in {"render", "record"} => Confirmed(cmd.validation)
    /\ (cmd.pc = "record" /\ cmd.version \in DOMAIN reports)
           => Shows(reports[cmd.version], cmd.loaded.facts.text, cmd.loaded.meta)

\* The provenance entry speaks of the report it was written for.
EntryInv == entry # NoEntry => Shows(entry.out, entry.src.text, entry.src.meta)

ReviewInv == Typed /\ StatusInv /\ VerdictInv /\ RenderInv /\ EntryInv

-----------------------------------------------------------------------------
(* Types are kept                                                          *)

LEMMA InitTyped == Init => Typed
<1> SUFFICES ASSUME Init PROVE Typed
  OBVIOUS
<1>1. FactsTyped /\ PlanTyped /\ ValidationTyped /\ EntryTyped
  BY DEF Init, FactsTyped, PlanTyped, ValidationTyped, EntryTyped
<1>2. MetaTyped
  BY DEF Init, MetaTyped, Metas
<1>3. StatusTyped /\ ReportsTyped /\ CmdTyped
  BY DEF Init, StatusTyped, Statuses, ReportsTyped, CmdTyped, Commands
<1> QED  BY <1>1, <1>2, <1>3 DEF Typed

LEMMA EditsTyped == Typed /\ Edits => Typed'
<1> SUFFICES ASSUME Typed, Edits PROVE Typed'
  OBVIOUS
<1> USE DEF Typed
<1>1. CASE ChangeFacts \/ ChangeInvariants
  BY <1>1 DEF ChangeFacts, ChangeInvariants, storeVars, FactsTyped, PlanTyped,
              MetaTyped, ValidationTyped, StatusTyped, ReportsTyped, EntryTyped, CmdTyped
<1>2. CASE Assess
  <2>1. meta' \in Metas
    BY <1>2 DEF Assess, MetaTyped, Metas
  <2> QED  BY <1>2, <2>1 DEF Assess, researcherVars, FactsTyped, PlanTyped, MetaTyped,
                             ValidationTyped, StatusTyped, ReportsTyped, EntryTyped, CmdTyped
<1>3. CASE TouchArtifact
  <2>1. files' \in [Kinds -> Contents \cup {None}]
    BY <1>3 DEF TouchArtifact, MetaTyped
  <2> QED  BY <1>3, <2>1 DEF TouchArtifact, researcherVars, FactsTyped, PlanTyped, MetaTyped,
                             ValidationTyped, StatusTyped, ReportsTyped, EntryTyped, CmdTyped
<1>4. CASE EditValidation
  <2>1. validation \in Validations
    BY <1>4 DEF EditValidation, ValidationTyped
  <2>2. validation' \in Validations
    BY <1>4, <2>1 DEF EditValidation, Validations, Dispositions
  <2> QED  BY <1>4, <2>2 DEF EditValidation, researcherVars, FactsTyped, PlanTyped, MetaTyped,
                             ValidationTyped, StatusTyped, ReportsTyped, EntryTyped, CmdTyped
<1>5. CASE RemoveReport
  <2>1. ReportsTyped'
    BY <1>5 DEF RemoveReport, ReportsTyped
  <2> QED  BY <1>5, <2>1 DEF RemoveReport, researcherVars, FactsTyped, PlanTyped, MetaTyped,
                             ValidationTyped, StatusTyped, EntryTyped, CmdTyped
<1>6. CASE EditPlan
  <2>1. plan \in Plans
    BY <1>6 DEF EditPlan, PlanTyped
  <2>2. plan' \in Plans
    BY <1>6, <2>1 DEF EditPlan, Plans, Approvals
  <2> QED  BY <1>6, <2>2 DEF EditPlan, researcherVars, FactsTyped, PlanTyped, MetaTyped,
                             ValidationTyped, StatusTyped, ReportsTyped, EntryTyped, CmdTyped
<1> QED  BY <1>1, <1>2, <1>3, <1>4, <1>5, <1>6 DEF Edits

LEMMA DraftTyped ==
    ASSUME NEW c \in Copies
    PROVE  ValidationDraft(c) \in Validations
<1>1. Disposition(c.facts, c.plan, c.meta, c.intact) \in Dispositions
  BY DEF Disposition, Dispositions
<1>2. ValidationSource(c.facts, c.plan, c.meta) \in Sources
  BY DEF ValidationSource, Sources, Copies
<1> QED  BY <1>1, <1>2 DEF ValidationDraft, Validations

LEMMA PlanningTyped == Typed /\ (Plan \/ Approve) => Typed'
<1> SUFFICES ASSUME Typed, Plan \/ Approve PROVE Typed'
  OBVIOUS
<1> USE DEF Typed
<1>1. CASE Plan
  <2>1. plan' \in Plans
    <3>1. facts \in Facts /\ facts.plannable \in BOOLEAN
      BY ReviewAssumption DEF FactsTyped
    <3> QED  BY <1>1, <3>1 DEF Plan, Replanned, PlanTyped, Plans, Approvals
  <2>2. cmd' \in Commands
    BY <1>1 DEF Plan, Commands, Statuses
  <2> QED  BY <1>1, <2>1, <2>2 DEF Plan, researcherVars, FactsTyped, PlanTyped, MetaTyped,
                               ValidationTyped, StatusTyped, ReportsTyped, EntryTyped, CmdTyped
<1>2. CASE Approve
  <2>1. plan \in Plans
    BY <1>2 DEF Approve, CurrentPlan, PlanTyped
  <2>2. plan' \in Plans
    BY <1>2, <2>1 DEF Approve, Plans, Approvals
  <2> QED  BY <1>2, <2>2 DEF Approve, researcherVars, FactsTyped, PlanTyped, MetaTyped,
                             ValidationTyped, StatusTyped, ReportsTyped, EntryTyped, CmdTyped
<1> QED  BY <1>1, <1>2

LEMMA EvidenceTyped == Typed /\ (CopyArtifact \/ IndexArtifact) => Typed'
<1> SUFFICES ASSUME Typed, CopyArtifact \/ IndexArtifact PROVE Typed'
  OBVIOUS
<1> USE DEF Typed
<1>1. CASE CopyArtifact
  <2>1. PICK k \in Kinds, c \in Contents :
          /\ files' = [files EXCEPT ![k] = c]
          /\ cmd' = [pc |-> "index",
                     meta |-> [meta EXCEPT !.index = @ \cup {[kind |-> k, digest |-> c]}]]
    BY <1>1 DEF CopyArtifact
  <2>2. [meta EXCEPT !.index = @ \cup {[kind |-> k, digest |-> c]}] \in Metas
    BY DEF MetaTyped, Metas, Artifacts
  <2>3. cmd' \in Commands /\ files' \in [Kinds -> Contents \cup {None}]
    BY <2>1, <2>2 DEF Commands, MetaTyped
  <2> QED  BY <1>1, <2>3 DEF CopyArtifact, researcherVars, FactsTyped, PlanTyped, MetaTyped,
                             ValidationTyped, StatusTyped, ReportsTyped, EntryTyped, CmdTyped
<1>2. CASE IndexArtifact
  <2>1. cmd.meta \in Metas
    BY <1>2 DEF IndexArtifact, CmdTyped, Commands, Idle
  <2>2. Idle \in Commands
    BY DEF Commands
  <2> QED  BY <1>2, <2>1, <2>2 DEF IndexArtifact, researcherVars, FactsTyped, PlanTyped, MetaTyped,
                             ValidationTyped, StatusTyped, ReportsTyped, EntryTyped, CmdTyped
<1> QED  BY <1>1, <1>2

LEMMA ValidatingTyped == Typed /\ (Validate \/ Report \/ MergeValidation) => Typed'
<1> SUFFICES ASSUME Typed, Validate \/ Report \/ MergeValidation PROVE Typed'
  OBVIOUS
<1> USE DEF Typed
<1>1. CASE Validate \/ Report
  <2>1. [facts |-> facts, plan |-> plan, meta |-> meta, intact |-> Intact(meta)] \in Copies
    BY DEF Copies, FactsTyped, PlanTyped, MetaTyped, Intact
  <2>2. cmd' \in Commands
    BY <1>1, <2>1 DEF Validate, Report, Begin, Commands
  <2> QED  BY <1>1, <2>2 DEF Validate, Report, Begin, researcherVars, storeVars, FactsTyped,
                             PlanTyped, MetaTyped, ValidationTyped, StatusTyped, ReportsTyped,
                             EntryTyped, CmdTyped
<1>2. CASE MergeValidation
  <2> DEFINE record == Merged(ValidationDraft(cmd.copy))
  <2>1. cmd.copy \in Copies
    BY <1>2 DEF MergeValidation, CmdTyped, Commands, Idle
  <2>2. record \in Validations
    BY <2>1, DraftTyped DEF Merged, ValidationTyped
  <2>3. StatusOf(record.disp) \in Statuses
    BY DEF StatusOf, Statuses
  <2>4. cmd' \in Commands
    <3> HIDE DEF record
    <3>1. cmd' = [pc |-> "status", status |-> StatusOf(record.disp),
                  then |-> IF cmd.then = "report" /\ record.ready
                                   /\ record.disp = "CONFIRMED" /\ ~record.edited
                           THEN "report" ELSE "end",
                  validation |-> record]
      BY <1>2 DEF MergeValidation, record
    <3> QED  BY <3>1, <2>2, <2>3 DEF Commands
  <2> QED  BY <1>2, <2>2, <2>4 DEF MergeValidation, researcherVars, FactsTyped, PlanTyped,
                             MetaTyped, ValidationTyped, StatusTyped, ReportsTyped, EntryTyped,
                             CmdTyped
<1> QED  BY <1>1, <1>2

LEMMA SettlingTyped == Typed /\ (UpdateBacklog \/ UpdateLogic) => Typed'
<1> SUFFICES ASSUME Typed, UpdateBacklog \/ UpdateLogic PROVE Typed'
  OBVIOUS
<1> USE DEF Typed
<1>1. CASE UpdateBacklog
  <2>1. cmd.status \in Statuses /\ cmd' \in Commands
    BY <1>1 DEF UpdateBacklog, CmdTyped, Commands, Idle
  <2> QED  BY <1>1, <2>1 DEF UpdateBacklog, researcherVars, FactsTyped, PlanTyped, MetaTyped,
                             ValidationTyped, StatusTyped, ReportsTyped, EntryTyped, CmdTyped
<1>2. CASE UpdateLogic
  <2>1. cmd.status \in Statuses /\ cmd' \in Commands
    BY <1>2 DEF UpdateLogic, CmdTyped, Commands, Idle
  <2> QED  BY <1>2, <2>1 DEF UpdateLogic, researcherVars, FactsTyped, PlanTyped, MetaTyped,
                             ValidationTyped, StatusTyped, ReportsTyped, EntryTyped, CmdTyped
<1> QED  BY <1>1, <1>2

-----------------------------------------------------------------------------
(* Versions                                                                *)

\* A non-empty set of naturals has the least element that Min chooses.
LEMMA MinNatural ==
    ASSUME NEW S, S \subseteq Nat, S # {}
    PROVE  Min(S) \in S
<1>1. IsWellFoundedOn(OpToRel(<, Nat), Nat)
  BY NatLessThanWellFounded
<1>2. PICK x \in S : \A y \in S : <<y, x>> \notin OpToRel(<, Nat)
  BY <1>1, WFMin
<1>3. ASSUME NEW y \in S
      PROVE  x <= y
  <2>1. <<y, x>> \in Nat \X Nat
    OBVIOUS
  <2>2. ~(y < x)
    BY <1>2, <2>1 DEF OpToRel
  <2> QED  BY <2>2
<1> QED  BY <1>3 DEF Min

\* A non-empty set of naturals below a bound has the largest element that Max
\* chooses.
LEMMA MaxNatural ==
    ASSUME NEW S, S \subseteq Nat, S # {},
           NEW n \in Nat, \A s \in S : s <= n
    PROVE  Max(S) \in S /\ \A s \in S : s <= Max(S)
<1> DEFINE T == {n - s : s \in S}
<1>1. \A s \in S : n - s \in Nat
  <2> SUFFICES ASSUME NEW s \in S PROVE n - s \in Nat
    OBVIOUS
  <2>1. s \in Nat /\ s <= n
    OBVIOUS
  <2> QED  BY <2>1
<1>2. T \subseteq Nat /\ T # {}
  BY <1>1
<1>3. Min(T) \in T /\ \A y \in T : Min(T) <= y
  <2>1. IsWellFoundedOn(OpToRel(<, Nat), Nat)
    BY NatLessThanWellFounded
  <2>2. PICK x \in T : \A y \in T : <<y, x>> \notin OpToRel(<, Nat)
    BY <1>2, <2>1, WFMin
  <2>3. ASSUME NEW y \in T
        PROVE  x <= y
    <3>1. x \in Nat /\ y \in Nat /\ <<y, x>> \in Nat \X Nat
      BY <1>2
    <3>2. ~(y < x)
      BY <2>2, <3>1 DEF OpToRel
    <3> QED  BY <3>1, <3>2
  <2> QED  BY <2>3 DEF Min
<1>4. PICK m \in S : Min(T) = n - m
  BY <1>3
<1>5. \A s \in S : m >= s
  <2> SUFFICES ASSUME NEW s \in S PROVE m >= s
    OBVIOUS
  <2>1. n - m <= n - s
    BY <1>3, <1>4
  <2>2. n \in Nat /\ m \in Nat /\ s \in Nat
    OBVIOUS
  <2> QED  BY <2>1, <2>2
<1> QED  BY <1>5 DEF Max

\* The version for a content holds that content already or is a new one.
LEMMA VersionIsFree ==
    ASSUME ReportsTyped, NEW content
    PROVE  /\ VersionFor(content) \in Nat \ {0}
           /\ VersionFor(content) \in DOMAIN reports
                  => reports[VersionFor(content)] = content
<1> DEFINE same == {v \in DOMAIN reports : reports[v] = content}
<1>1. DOMAIN reports \subseteq Nat \ {0}
  BY ReviewAssumption DEF ReportsTyped
<1>2. CASE same # {}
  <2>1. Min(same) \in same
    BY <1>1, <1>2, MinNatural
  <2> QED  BY <1>1, <1>2, <2>1 DEF VersionFor
<1>3. CASE same = {}
  <2> DEFINE top == Max({0} \cup DOMAIN reports)
  <2>1. top \in {0} \cup DOMAIN reports /\ \A v \in {0} \cup DOMAIN reports : v <= top
    <3>1. {0} \cup DOMAIN reports \subseteq Nat /\ {0} \cup DOMAIN reports # {}
      BY <1>1
    <3>2. MaxVersion \in Nat /\ \A v \in {0} \cup DOMAIN reports : v <= MaxVersion
      BY ReviewAssumption DEF ReportsTyped
    <3> QED  BY <3>1, <3>2, MaxNatural
  <2>2. VersionFor(content) = 1 + top
    BY <1>3 DEF VersionFor
  <2> HIDE DEF top
  <2>3. top \in Nat
    BY <1>1, <2>1
  <2>4. 1 + top \notin DOMAIN reports
    BY <2>1, <2>3
  <2> QED  BY <2>2, <2>3, <2>4
<1> QED  BY <1>2, <1>3

LEMMA WriteReportKeeps ==
    ASSUME Typed, WriteReport
    PROVE  /\ \A v \in DOMAIN reports : v \in DOMAIN reports' /\ reports'[v] = reports[v]
           /\ cmd' # Idle => /\ cmd'.version \in DOMAIN reports'
                             /\ reports'[cmd'.version]
                                    = Content([facts |-> facts, meta |-> meta], invs)
<1> DEFINE loaded == [facts |-> facts, meta |-> meta]
           content == Content(loaded, invs)
           version == VersionFor(content)
<1>1. version \in DOMAIN reports => reports[version] = content
  BY VersionIsFree DEF Typed
<1>2. CASE meta.narrative = None
  BY <1>2 DEF WriteReport
<1>3. CASE meta.narrative # None
  <2>1. /\ reports' = [v \in DOMAIN reports \cup {version} |->
                          IF v = version THEN content ELSE reports[v]]
        /\ cmd' = [pc |-> "record", loaded |-> loaded, version |-> version,
                   validation |-> cmd.validation]
    BY <1>3 DEF WriteReport
  <2> HIDE DEF version, content
  <2> QED  BY <1>1, <2>1 DEF content
<1> QED  BY <1>2, <1>3

LEMMA ReportingTyped == Typed /\ (WriteReport \/ RecordReport \/ Kill) => Typed'
<1> SUFFICES ASSUME Typed, WriteReport \/ RecordReport \/ Kill PROVE Typed'
  OBVIOUS
<1> USE DEF Typed
<1>0. Idle \in Commands
  BY DEF Commands
<1>1. CASE WriteReport
  <2> DEFINE loaded == [facts |-> facts, meta |-> meta]
             content == Content(loaded, invs)
             version == VersionFor(content)
  <2>1. loaded \in Loads /\ content \in Pages
    BY ReviewAssumption DEF Loads, Pages, Content, FactsTyped, MetaTyped, Metas
  <2>2. version \in Nat \ {0}
    BY VersionIsFree
  <2>3. CASE meta.narrative = None
    BY <1>0, <1>1, <2>3 DEF WriteReport, researcherVars, FactsTyped, PlanTyped, MetaTyped,
          ValidationTyped, StatusTyped, ReportsTyped, EntryTyped, CmdTyped
  <2>4. CASE meta.narrative # None
    <3> HIDE DEF loaded, content, version
    <3>1. /\ cmd.pc = "render" /\ version <= MaxVersion
          /\ reports' = [v \in DOMAIN reports \cup {version} |->
                            IF v = version THEN content ELSE reports[v]]
          /\ cmd' = [pc |-> "record", loaded |-> loaded, version |-> version,
                     validation |-> cmd.validation]
      BY <1>1, <2>4 DEF WriteReport, loaded, content, version
    <3>2. ReportsTyped'
      BY <2>1, <2>2, <3>1, ReviewAssumption DEF ReportsTyped
    <3>3. cmd.validation \in Validations
      BY <3>1 DEF CmdTyped, Commands, Idle
    <3>4. cmd' \in Commands
      BY <2>1, <2>2, <3>1, <3>3 DEF Commands
    <3> QED  BY <1>1, <3>2, <3>4 DEF WriteReport, researcherVars, FactsTyped, PlanTyped,
                MetaTyped, ValidationTyped, StatusTyped, EntryTyped, CmdTyped
  <2> QED  BY <2>3, <2>4
<1>2. CASE RecordReport
  <2>1. cmd.loaded \in Loads /\ cmd.validation \in Validations
    BY <1>2 DEF RecordReport, CmdTyped, Commands, Idle
  <2>2. cmd.version \in DOMAIN reports =>
          [src |-> ReportSource(cmd.loaded.facts.text, cmd.loaded.meta, invs, cmd.validation),
           out |-> reports[cmd.version]] \in Entries
    BY <2>1, ReviewAssumption DEF ReportSource, Entries, Loads, Validations, FactsTyped,
                                  ReportsTyped
  <2>3. entry' \in Entries \cup {NoEntry}
    BY <1>2, <2>2 DEF RecordReport, EntryTyped
  <2> QED  BY <1>0, <1>2, <2>3 DEF RecordReport, researcherVars, FactsTyped, PlanTyped,
              MetaTyped, ValidationTyped, StatusTyped, ReportsTyped, EntryTyped, CmdTyped
<1>3. CASE Kill
  BY <1>0, <1>3 DEF Kill, storeVars, researcherVars, FactsTyped, PlanTyped, MetaTyped,
                    ValidationTyped, StatusTyped, ReportsTyped, EntryTyped, CmdTyped
<1> QED  BY <1>1, <1>2, <1>3

LEMMA NextTyped == Typed /\ [Next]_vars => Typed'
<1> SUFFICES ASSUME Typed, [Next]_vars PROVE Typed'
  OBVIOUS
<1>1. CASE Next
  BY <1>1, EditsTyped, PlanningTyped, EvidenceTyped, ValidatingTyped, SettlingTyped,
     ReportingTyped DEF Next
<1>2. CASE UNCHANGED vars
  BY <1>2 DEF vars, storeVars, researcherVars, Typed, FactsTyped, PlanTyped, MetaTyped,
              ValidationTyped, StatusTyped, ReportsTyped, EntryTyped, CmdTyped
<1> QED  BY <1>1, <1>2

-----------------------------------------------------------------------------
(* Every step keeps each part of the invariant                             *)

LEMMA StatusKept == Typed /\ StatusInv /\ [Next]_vars => StatusInv'
<1> SUFFICES ASSUME Typed, StatusInv, [Next]_vars PROVE StatusInv'
  OBVIOUS
<1> USE DEF StatusInv
<1>1. CASE Edits \/ Approve \/ UNCHANGED vars
  BY <1>1 DEF Edits, ChangeFacts, ChangeInvariants, Assess, TouchArtifact, EditValidation,
              RemoveReport, EditPlan, Approve, storeVars, researcherVars, vars
<1>2. CASE Plan
  BY <1>2 DEF Plan, None
<1>3. CASE CopyArtifact \/ IndexArtifact \/ Validate \/ Report
  BY <1>3 DEF CopyArtifact, IndexArtifact, Validate, Report, Begin, Idle, storeVars
<1>4. CASE MergeValidation
  <2>1. settled' = None /\ cmd'.pc = "status"
    BY <1>4 DEF MergeValidation
  <2> QED  BY <2>1
<1>5. CASE UpdateBacklog
  <2>1. /\ backlog' = cmd.status /\ UNCHANGED <<settled, logic>>
        /\ cmd' = [cmd EXCEPT !.pc = "logic"] /\ cmd.pc = "status"
    BY <1>5 DEF UpdateBacklog
  <2>2. cmd'.pc = "logic" /\ cmd'.status = cmd.status
    BY <2>1 DEF Typed, CmdTyped, Commands, Idle
  <2> QED  BY <2>1, <2>2
<1>6. CASE UpdateLogic
  <2>1. /\ cmd.pc = "logic" /\ logic' = cmd.status /\ settled' = cmd.status
        /\ backlog' = backlog /\ cmd'.pc \in {"idle", "render"}
    BY <1>6 DEF UpdateLogic, Idle
  <2> QED  BY <2>1
<1>7. CASE WriteReport
  <2>1. cmd'.pc \in {"idle", "record"}
    BY <1>7 DEF WriteReport, Idle
  <2> QED  BY <1>7, <2>1 DEF WriteReport
<1>8. CASE RecordReport \/ Kill
  BY <1>8 DEF RecordReport, Kill, Idle, storeVars
<1> QED  BY <1>1, <1>2, <1>3, <1>4, <1>5, <1>6, <1>7, <1>8 DEF Next

\* A verdict of CONFIRMED means that all the checks passed on what was read.
LEMMA ConfirmedDraft ==
    ASSUME NEW c, ValidationDraft(c).disp = "CONFIRMED"
    PROVE  Established(ValidationDraft(c).src)
<1>1. Disposition(c.facts, c.plan, c.meta, c.intact) = "CONFIRMED"
  BY DEF ValidationDraft
<1>2. /\ c.facts.scoped /\ PlanApproved(c.plan)
      /\ \A q \in Questions : c.meta.answers[q] = "wanted"
  BY <1>1 DEF Disposition
<1>3. ValidationDraft(c).src = [facts |-> c.facts, plan |-> c.plan, meta |-> c.meta]
  BY DEF ValidationDraft, ValidationSource
<1> QED  BY <1>2, <1>3 DEF Established

LEMMA VerdictKept == Typed /\ VerdictInv /\ [Next]_vars => VerdictInv'
<1> SUFFICES ASSUME Typed, VerdictInv, [Next]_vars PROVE VerdictInv'
  OBVIOUS
<1>1. CASE MergeValidation
  <2> DEFINE draft == ValidationDraft(cmd.copy)
  <2>1. validation' = Merged(draft)
    BY <1>1 DEF MergeValidation
  <2>2. validation' = validation \/ validation' = draft
    BY <2>1 DEF Merged
  <2>3. CASE validation' = validation
    BY <2>3 DEF VerdictInv
  <2>4. CASE validation' = draft
    BY <2>4, ConfirmedDraft DEF VerdictInv
  <2> QED  BY <2>2, <2>3, <2>4
<1>2. CASE EditValidation
  <2>1. validation \in Validations /\ validation' = [validation EXCEPT !.disp = "CONFIRMED",
                                                        !.ready = TRUE, !.edited = TRUE]
    BY <1>2 DEF EditValidation, Typed, ValidationTyped
  <2>2. validation'.edited
    BY <2>1 DEF Validations
  <2> QED  BY <2>2 DEF VerdictInv
<1>3. CASE validation' = validation
  BY <1>3 DEF VerdictInv
<1> QED  BY <1>1, <1>2, <1>3 DEF Next, Edits, ChangeFacts, ChangeInvariants, Assess,
            TouchArtifact, RemoveReport, EditPlan, Plan, Approve, CopyArtifact, IndexArtifact,
            Validate, Report, Begin, UpdateBacklog, UpdateLogic, WriteReport, RecordReport,
            Kill, storeVars, vars

LEMMA RenderKept == Typed /\ RenderInv /\ [Next]_vars => RenderInv'
<1> SUFFICES ASSUME Typed, RenderInv, [Next]_vars PROVE RenderInv'
  OBVIOUS
<1>1. CASE UNCHANGED <<cmd, reports>>
  BY <1>1 DEF RenderInv
<1>2. CASE RemoveReport
  <2>1. PICK v \in DOMAIN reports : reports' = [w \in DOMAIN reports \ {v} |-> reports[w]]
    BY <1>2 DEF RemoveReport
  <2>2. cmd' = cmd
    BY <1>2 DEF RemoveReport
  <2> QED  BY <2>1, <2>2 DEF RenderInv
<1>3. CASE Plan
  BY <1>3 DEF Plan, RenderInv
<1>4. CASE CopyArtifact \/ IndexArtifact \/ Validate \/ Report \/ RecordReport \/ Kill
  <2>1. cmd'.pc \notin {"status", "logic", "render", "record"}
    BY <1>4 DEF CopyArtifact, IndexArtifact, Validate, Report, Begin, RecordReport, Kill, Idle
  <2> QED  BY <2>1 DEF RenderInv
<1>5. CASE MergeValidation
  <2> DEFINE record == Merged(ValidationDraft(cmd.copy))
  <2>1. cmd' = [pc |-> "status", status |-> StatusOf(record.disp),
                then |-> IF cmd.then = "report" /\ record.ready
                                 /\ record.disp = "CONFIRMED" /\ ~record.edited
                           THEN "report" ELSE "end",
                validation |-> record]
    BY <1>5 DEF MergeValidation
  <2> HIDE DEF record
  <2> QED  BY <2>1 DEF RenderInv, Confirmed
<1>6. CASE UpdateBacklog
  <2>1. cmd.pc = "status" /\ cmd' = [cmd EXCEPT !.pc = "logic"]
    BY <1>6 DEF UpdateBacklog
  <2>2. cmd'.pc = "logic" /\ cmd'.then = cmd.then /\ cmd'.then \in {"end", "report"}
    BY <2>1 DEF Typed, CmdTyped, Commands, Idle
  <2>3. cmd'.then # "end" => cmd'.validation = cmd.validation
    BY <2>1, <2>2 DEF Typed, CmdTyped, Commands, Idle
  <2> QED  BY <2>1, <2>2, <2>3 DEF RenderInv
<1>7. CASE UpdateLogic
  <2>1. /\ cmd.pc = "logic"
        /\ cmd' = IF cmd.then = "end" THEN Idle
                  ELSE [pc |-> "render", validation |-> cmd.validation]
    BY <1>7 DEF UpdateLogic
  <2> QED  BY <2>1 DEF RenderInv, Idle
<1>8. CASE WriteReport
  <2>1. \/ cmd' = Idle
        \/ cmd'.pc = "record" /\ cmd'.validation = cmd.validation /\ cmd.pc = "render"
           /\ cmd'.loaded = [facts |-> facts, meta |-> meta]
    BY <1>8 DEF WriteReport
  <2>2. CASE cmd' = Idle
    BY <2>2 DEF RenderInv, Idle
  <2>3. CASE cmd' # Idle
    <3>1. reports'[cmd'.version] = Content([facts |-> facts, meta |-> meta], invs)
      BY <1>8, <2>3, WriteReportKeeps
    <3>2. Shows(reports'[cmd'.version], cmd'.loaded.facts.text, cmd'.loaded.meta)
      BY <2>1, <2>3, <3>1 DEF Shows, Content
    <3> QED  BY <2>1, <2>3, <3>2 DEF RenderInv
  <2> QED  BY <2>2, <2>3
<1> QED  BY <1>1, <1>2, <1>3, <1>4, <1>5, <1>6, <1>7, <1>8 DEF Next, Edits, ChangeFacts,
            ChangeInvariants, Assess, TouchArtifact, EditValidation, EditPlan, Approve,
            storeVars, vars

LEMMA EntryKept == Typed /\ RenderInv /\ EntryInv /\ [Next]_vars => EntryInv'
<1> SUFFICES ASSUME Typed, RenderInv, EntryInv, [Next]_vars PROVE EntryInv'
  OBVIOUS
<1>1. CASE RecordReport
  <2>1. CASE cmd.version \in DOMAIN reports
    <3>1. entry' = [src |-> ReportSource(cmd.loaded.facts.text, cmd.loaded.meta, invs,
                                         cmd.validation),
                    out |-> reports[cmd.version]]
      BY <1>1, <2>1 DEF RecordReport
    <3>2. Shows(reports[cmd.version], cmd.loaded.facts.text, cmd.loaded.meta)
      BY <1>1, <2>1 DEF RecordReport, RenderInv
    <3> QED  BY <3>1, <3>2 DEF EntryInv, ReportSource
  <2>2. CASE cmd.version \notin DOMAIN reports
    BY <1>1, <2>2 DEF RecordReport, EntryInv
  <2> QED  BY <2>1, <2>2
<1>2. CASE entry' = entry
  BY <1>2 DEF EntryInv
<1> QED  BY <1>1, <1>2 DEF Next, Edits, ChangeFacts, ChangeInvariants, Assess, TouchArtifact,
            EditValidation, RemoveReport, EditPlan, Plan, Approve, CopyArtifact, IndexArtifact,
            Validate, Report, Begin, MergeValidation, UpdateBacklog, UpdateLogic, WriteReport,
            Kill, storeVars, vars

-----------------------------------------------------------------------------
(* What holds of every behaviour                                           *)

\* The inductive invariant: types, the order the two status files are written
\* in, what a confirmation was made from, and what a report under way shows.
THEOREM ReviewInvariant == Spec => []ReviewInv
<1>1. Init => ReviewInv
  <2> SUFFICES ASSUME Init PROVE ReviewInv
    OBVIOUS
  <2>1. StatusInv /\ VerdictInv /\ RenderInv /\ EntryInv
    BY DEF Init, StatusInv, VerdictInv, RenderInv, EntryInv, Idle, None
  <2> QED  BY <2>1, InitTyped DEF ReviewInv
<1>2. ReviewInv /\ [Next]_vars => ReviewInv'
  BY NextTyped, StatusKept, VerdictKept, RenderKept, EntryKept DEF ReviewInv
<1> QED  BY <1>1, <1>2, PTL DEF Spec

\* hypotheses.yaml and business-logic.yaml (update_hypothesis_status writes one
\* after the other) agree with the last plan or validation that was not killed
\* between its writes.
THEOREM StatusesAgree == Spec => []StatusIsSettled
<1>1. ReviewInv => StatusIsSettled
  BY DEF ReviewInv, StatusInv, StatusIsSettled
<1> QED  BY <1>1, ReviewInvariant, PTL

LEMMA BackedReport == ReviewInv => CurrentReportIsBacked
<1> SUFFICES ASSUME ReviewInv, ReportStatus = "COMPLETE"
             PROVE  /\ LET r == reports[LastListed] IN
                          /\ r.text = facts.text /\ r.index = meta.index
                          /\ r.narrative = meta.narrative
                    /\ validation.src.meta = meta /\ validation.src.facts = facts
                    /\ facts.scoped /\ PlanApproved(plan) /\ plan.src = facts
                    /\ \A q \in Questions : meta.answers[q] = "wanted"
  BY DEF CurrentReportIsBacked
<1>1. Reportable /\ ReportBound
  BY DEF ReportStatus
<1>2. Shows(reports[LastListed], facts.text, meta)
  BY <1>1 DEF ReportBound, ReviewInv, EntryInv, ReportSource
<1>3. /\ validation # NoValidation /\ ~validation.edited /\ validation.disp = "CONFIRMED"
      /\ validation.src = [facts |-> facts, plan |-> CurrentPlan, meta |-> meta]
  BY <1>1 DEF Reportable, ValidationCurrent, ValidationSource
<1>4. Established(validation.src)
  BY <1>3 DEF ReviewInv, VerdictInv
<1>5. /\ facts.scoped /\ PlanApproved(CurrentPlan)
      /\ \A q \in Questions : meta.answers[q] = "wanted"
  BY <1>3, <1>4 DEF Established
<1>6. CurrentPlan # NoPlan
  BY <1>5 DEF PlanApproved
<1>7. CurrentPlan = plan /\ plan.src = facts
  BY <1>6 DEF CurrentPlan
<1> QED  BY <1>2, <1>3, <1>5, <1>7 DEF Shows

\* A report stage of COMPLETE (_report_status of resolver.py) means a report
\* that shows what the files say now, confirmed in that state under a current
\* plan with an approval.
THEOREM CompleteReportsAreBacked == Spec => []CurrentReportIsBacked
BY BackedReport, ReviewInvariant, PTL

\* _report_path never picks a version that holds another content, whichever
\* versions were removed.
THEOREM VersionsAreImmutable == Spec => ReportsAreImmutable
<1>1. ReviewInv /\ [Next]_vars
        => [\A v \in DOMAIN reports \cap DOMAIN reports' : reports'[v] = reports[v]]_vars
  <2> SUFFICES ASSUME ReviewInv, [Next]_vars
               PROVE  \A v \in DOMAIN reports \cap DOMAIN reports' : reports'[v] = reports[v]
    OBVIOUS
  <2>1. CASE WriteReport
    BY <2>1, WriteReportKeeps DEF ReviewInv
  <2>2. CASE RemoveReport
    <3>1. PICK v \in DOMAIN reports : reports' = [w \in DOMAIN reports \ {v} |-> reports[w]]
      BY <2>2 DEF RemoveReport
    <3> QED  BY <3>1
  <2>3. CASE reports' = reports
    BY <2>3
  <2> QED  BY <2>1, <2>2, <2>3 DEF Next, Edits, ChangeFacts, ChangeInvariants, Assess,
              TouchArtifact, EditValidation, EditPlan, Plan, Approve, CopyArtifact,
              IndexArtifact, Validate, Report, Begin, MergeValidation, UpdateBacklog,
              UpdateLogic, RecordReport, Kill, storeVars, vars
<1> QED  BY <1>1, ReviewInvariant, PTL DEF Spec, ReportsAreImmutable

LEMMA RecordedIsCurrent ==
    ASSUME ReviewInv, RecordReport, cmd.version \in DOMAIN reports,
           ValidationCurrent, validation = cmd.validation,
           cmd.loaded = [facts |-> facts, meta |-> meta],
           cmd.version = LastListed
    PROVE  ReportStatus' = "COMPLETE"
<1>1. UNCHANGED <<facts, invs, plan, meta, validation, reports>>
  BY DEF RecordReport, researcherVars
<1>2. Reportable
  BY DEF ReviewInv, RenderInv, RecordReport, Confirmed, Reportable
<1>3. Reportable'
  BY <1>1, <1>2 DEF Reportable, ValidationCurrent, CurrentPlan, ValidationSource
<1>4. entry' = [src |-> ReportSource(facts.text, meta, invs, validation),
                out |-> reports[LastListed]]
  BY DEF RecordReport
<1>5. entry' # NoEntry
  BY <1>4 DEF NoEntry
<1>6. ReportBound'
  BY <1>1, <1>4, <1>5 DEF ReportBound, LastListed, ReportSource
<1> QED  BY <1>3, <1>6 DEF ReportStatus

\* generate_report, when nothing changed beside it, leaves its stage COMPLETE:
\* what it records is what the readiness compares.
THEOREM UndisturbedReportIsCurrent == Spec => ReportBecomesCurrent
<1>1. ReviewInv /\ [Next]_vars
        => [RecordReport /\ cmd.version \in DOMAIN reports
              /\ ValidationCurrent /\ validation = cmd.validation
              /\ cmd.loaded = [facts |-> facts, meta |-> meta]
              /\ cmd.version = LastListed
            => ReportStatus' = "COMPLETE"]_vars
  BY RecordedIsCurrent
<1> QED  BY <1>1, ReviewInvariant, PTL DEF Spec, ReportBecomesCurrent
=============================================================================
