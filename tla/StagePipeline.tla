---------------------------- MODULE StagePipeline ---------------------------
(***************************************************************************)
(* The four offline generators (normalization/inventory.py, modeling/      *)
(* generator.py, modeling/invariants.py, hypotheses/generator.py), the     *)
(* fingerprints each records in .finsec/readiness-provenance.yaml, and the *)
(* lifecycle status readiness/resolver.py derives from them.               *)
(*                                                                         *)
(* target.yaml is a function from classes of settings to values: a class   *)
(* groups the settings that the same fingerprints cover and the same       *)
(* generators read.  An artifact is kept as the inputs it was computed     *)
(* from; how its records are merged is the subject of GeneratedMerge.      *)
(* Fingerprints are injective: the model keeps what they digest.           *)
(***************************************************************************)
EXTENDS Naturals, Functions

CONSTANTS Settings,   \* the classes of settings that vary
          Evidence,   \* what the observations can support
          Editable,   \* the stages whose artifacts a researcher edits
          MaxChanges  \* bound on changes of settings, evidence, artifacts

\* accounts: identities, ownership, roles.   rules: path and endpoint rules.
\* intent: domain intent rules, cleanup controls.   limits: request budget,
\* read-only and active-execution flags.   capture: intent inference.
ASSUME PipelineAssumption ==
    /\ Settings \subseteq {"accounts", "rules", "intent", "limits", "capture"}
    /\ Evidence \subseteq {"none", "bare", "rich"}
    /\ MaxChanges \in Nat

Stages == {"inventory", "model", "invariants", "hypotheses"}

ASSUME EditableAssumption == Editable \subseteq Stages

VARIABLES target,       \* target.yaml
          observations, \* observations.yaml: evidence and capture relevance
          file,         \* the artifact of each stage
          prov,         \* readiness-provenance.yaml
          run,          \* the generator at work
          torn,         \* history: artifacts written by a run that then died
          changes       \* counts changes, for the bound

inputVars == <<target, observations>>
vars == <<target, observations, file, prov, run, torn, changes>>

Values == {0, 1}
Idle == [stage |-> "idle"]
Absent == [at |-> "absent"]
NoEntry == [at |-> "no entry"]
Nothing == [at |-> "nothing"]

\* The artifact a new workspace comes with (config/workspace.py).
Blank == [made |-> Nothing, active |-> FALSE, records |-> FALSE, edit |-> "none"]

Present(s) == file[s] # Absent

-----------------------------------------------------------------------------
\* What the *_source_fingerprint functions digest of target.yaml ...
Covers(s) == Settings \cap
    CASE s = "inventory" -> {"accounts", "rules", "intent"}
      [] s = "model" -> {"accounts"}
      [] s = "invariants" -> {}
      [] s = "hypotheses" -> {"accounts"}

\* ... and what each generator reads there.
Reads(s) == Settings \cap
    CASE s = "inventory" -> {"accounts", "rules"}
      [] s = "model" -> {"accounts"}
      [] s = "invariants" -> {}
      [] s = "hypotheses" -> {"accounts", "intent", "limits"}

\* The classification and the inference of intent decide capture relevance.
RelevanceReads == Settings \cap {"rules", "intent", "capture"}

Sources(s) ==
    CASE s = "inventory" -> {}
      [] s = "model" -> {"inventory"}
      [] s = "invariants" -> {"inventory", "model"}
      [] s = "hypotheses" -> {"inventory", "model", "invariants"}

ReadsObservations(s) == s # "invariants"

\* An input the stage does not read is blanked.
Seen(s, o) == IF ReadsObservations(s) THEN {o} ELSE {}

\* The documents of the source stages, as the generator finds them.
Documents(s) == [d \in Sources(s) |-> file[d]]

\* Faulty: the documents of the earlier stages are not digested.
FingerprintBlind(s, t, o, ds) ==
    [target |-> Restrict(t, Covers(s)), seen |-> Seen(s, o), docs |-> {}]

Fingerprint(s, t, o, ds) ==
    [target |-> Restrict(t, Covers(s)), seen |-> Seen(s, o), docs |-> {ds}]

\* The settings that leave a mark on an artifact: those it is computed from
\* and, in merged records, those of the fingerprint that they carry.
Marks(s) == IF s = "inventory" THEN Reads(s) ELSE Reads(s) \cup Covers(s)

\* What the stage's artifact says, given its inputs.
Product(s, t, o, ds) ==
    [target |-> Restrict(t, Marks(s)), seen |-> Seen(s, o), docs |-> {ds}]

-----------------------------------------------------------------------------
\* What is relevant as the ingestion sees it, and once endpoints are known.
Ingested == [by |-> "ingest", settings |-> {}]
Refined(t) == [by |-> "inventory", settings |-> {Restrict(t, RelevanceReads)}]

\* Does the stage find anything to say?  Endpoints that support resources,
\* resources that support invariants, invariants that support hypotheses.
Supported(s, o, ds) ==
    CASE s = "inventory" -> o.evidence = "rich"
      [] s = "model" -> ds["inventory"].active
      [] s = "invariants" -> ds["model"].active
      [] s = "hypotheses" -> ds["invariants"].active

\* Does it leave a record?  An endpoint may support nothing.
Recorded(s, o, ds) ==
    IF s = "inventory" THEN o.evidence # "none" ELSE Supported(s, o, ds)

\* A researcher's record survives the merge; endpoints are not merged.  In
\* the backlog the finalisation restamps the record, and the run after this
\* one takes it for its own.
AfterMerge(s, edit) ==
    CASE s = "inventory" -> "none"
      [] s = "hypotheses" -> IF edit = "open" THEN "sealed" ELSE "none"
      [] OTHER -> edit

\* The artifact a run writes over the old one.
Written(s, t, o, ds, old) ==
    [made |-> Product(s, t, o, ds),
     active |-> Supported(s, o, ds)
                  \/ (s # "inventory" /\ old # Absent /\ old.edit = "open"),
     records |-> Recorded(s, o, ds)
                  \/ (s # "inventory" /\ old # Absent /\ old.records),
     edit |-> IF old = Absent THEN "none" ELSE AfterMerge(s, old.edit)]

-----------------------------------------------------------------------------
\* _record_integrity over the records of an artifact.
Integral(s) == s = "inventory" \/ file[s].edit # "open"

\* The sidecar's entry describes the present inputs.  Only the inventory's
\* entry carries a fingerprint of the output too.
Matching(s) ==
    /\ prov[s] # NoEntry
    /\ prov[s].of = Fingerprint(s, target, observations, Documents(s))
    /\ s = "inventory" => prov[s].out = {file[s]}

\* An artifact that counts as a result; for the model, any actor does.
HasResult(s) ==
    /\ Present(s)
    /\ file[s].records \/ (s = "model" /\ file[s].made # Nothing)

\* _provenance_state, and the lifecycle status of a stage whose inputs exist.
OwnStatus(s) ==
    IF ~Present(s) \/ (prov[s] = NoEntry /\ ~HasResult(s)) THEN "READY"
    ELSE IF Matching(s) /\ Integral(s) THEN "COMPLETE"
    ELSE "STALE"

Dependent(s, upstream) ==
    IF upstream = "COMPLETE" THEN OwnStatus(s)
    ELSE IF HasResult(s) THEN "STALE" ELSE "BLOCKED"

InventoryStatus ==
    IF observations.evidence = "none" THEN "BLOCKED" ELSE OwnStatus("inventory")
ModelStatus == Dependent("model", InventoryStatus)
InvariantStatus == Dependent("invariants", ModelStatus)
HypothesisStatus == Dependent("hypotheses", InvariantStatus)

\* resolve_workspace_readiness.
Status(s) ==
    CASE s = "inventory" -> InventoryStatus
      [] s = "model" -> ModelStatus
      [] s = "invariants" -> InvariantStatus
      [] s = "hypotheses" -> HypothesisStatus

-----------------------------------------------------------------------------
Init ==
    /\ target = [c \in Settings |-> 0]
    /\ observations \in [evidence : Evidence, relevance : {Ingested}]
    /\ file = [s \in Stages |-> Blank]
    /\ prov = [s \in Stages |-> NoEntry]
    /\ run = Idle
    /\ torn = {}
    /\ changes = 0

\* _load_inputs: what a generator refuses to start without.  The inventory
\* wants its own old artifact too, for the numbers of the endpoints.
CanRun(s) ==
    /\ \A d \in Sources(s) : Present(d)
    /\ s = "inventory" => Present("inventory")
    /\ s = "model" => file["inventory"].records
    /\ s = "invariants" => file["model"].records
    /\ s = "hypotheses" => file["invariants"].records

Load(s) ==
    /\ run = Idle
    /\ CanRun(s)
    /\ run' = [stage |-> s, step |-> "loaded", target |-> target,
               obs |-> observations, docs |-> Documents(s), doc |-> Absent]
    /\ UNCHANGED <<inputVars, file, prov, torn, changes>>

\* The generator writes its artifact.  Only the inventory goes on to refresh
\* the observations.
Write(s) ==
    /\ run.stage = s /\ run.step = "loaded"
    /\ LET doc == Written(s, run.target, run.obs, run.docs, file[s])
       IN /\ file' = [file EXCEPT ![s] = doc]
          /\ run' = [run EXCEPT
                       !.doc = IF s = "inventory" THEN doc ELSE Absent,
                       !.step = IF s = "inventory" THEN "written" ELSE "finished"]
    /\ UNCHANGED <<inputVars, prov, torn, changes>>

\* Faulty: the fingerprint is left to the observations that were loaded.
RefreshUnread ==
    /\ run.stage = "inventory" /\ run.step = "written"
    /\ observations' = [observations EXCEPT !.relevance = Refined(target)]
    /\ run' = [run EXCEPT !.step = "refreshed"]
    /\ UNCHANGED <<target, file, prov, torn, changes>>

\* refresh_capture_analysis reads target.yaml and the observations anew, and
\* the endpoints just written.  (A workspace has captures once it has
\* observations; those of older versions have none, and nothing is refreshed.)
Refresh ==
    /\ run.stage = "inventory" /\ run.step = "written"
    /\ observations' = [observations EXCEPT !.relevance = Refined(target)]
    /\ run' = [run EXCEPT !.step = "refreshed", !.obs = observations']
    /\ UNCHANGED <<target, file, prov, torn, changes>>

\* reconstruct_controlled_ownership adds to the endpoints in memory what the
\* refreshed observations say of ownership; they are written a second time.
Reconstruct ==
    /\ run.stage = "inventory" /\ run.step = "refreshed"
    /\ LET doc == [run.doc EXCEPT !.made.docs = {run.obs}]
       IN /\ run' = [run EXCEPT !.step = "finished", !.doc = doc]
          /\ file' = [file EXCEPT !["inventory"] = doc]
    /\ UNCHANGED <<inputVars, prov, torn, changes>>

\* Faulty: the output is fingerprinted as it is found on disk.
RecordFromDisk(s) ==
    /\ run.stage = s /\ run.step = "finished"
    /\ prov' = [prov EXCEPT ![s] =
                  [of |-> Fingerprint(s, target, observations, Documents(s)),
                   out |-> IF s = "inventory" THEN {file[s]} ELSE {}]]
    /\ run' = Idle
    /\ torn' = torn \ {s}
    /\ UNCHANGED <<inputVars, file, changes>>

\* record_stage_provenance.
Record(s) ==
    /\ run.stage = s /\ run.step = "finished"
    /\ prov' = [prov EXCEPT ![s] =
                  [of |-> Fingerprint(s, run.target, run.obs, run.docs),
                   out |-> IF s = "inventory" THEN {run.doc} ELSE {}]]
    /\ run' = Idle
    /\ torn' = torn \ {s}
    /\ UNCHANGED <<inputVars, file, changes>>

\* The run dies, by an exception or a kill.
Abort ==
    /\ run # Idle
    /\ run' = Idle
    /\ torn' = IF run.step = "loaded" THEN torn ELSE torn \cup {run.stage}
    /\ UNCHANGED <<inputVars, file, prov, changes>>

\* What analyze_business_logic loads; workflows need endpoints.
LogicInputs ==
    /\ Present("inventory") /\ file["inventory"].records
    /\ Present("model") /\ Present("hypotheses")

\* The finalisation of the backlog evaluates these settings anew.
Finalised == Settings \cap {"intent", "limits"}

Finalise(m) ==
    IF m = Nothing THEN m
    ELSE [m EXCEPT !.target = [c \in DOMAIN @ |->
                                 IF c \in Finalised THEN target[c] ELSE @[c]]]

\* The backlog with the records of the business logic in it.
Analysed(d) ==
    [made |-> Finalise(d.made), active |-> d.active,
     records |-> d.records \/ observations.evidence = "rich",
     edit |-> IF d.edit = "open" THEN "sealed" ELSE d.edit]

\* analyze_business_logic adds its records to the backlog, finalises all of it,
\* and records no provenance.  (Its loads and its write are one step.)
AnalyzeLogic ==
    /\ run = Idle /\ LogicInputs
    /\ file' = [file EXCEPT !["hypotheses"] = Analysed(@)]
    /\ UNCHANGED <<inputVars, prov, run, torn, changes>>

-----------------------------------------------------------------------------
\* The researcher, at any moment.
Change == changes < MaxChanges /\ changes' = changes + 1

ChangeSetting ==
    /\ Change
    /\ \E c \in Settings, v \in Values :
          v # target[c] /\ target' = [target EXCEPT ![c] = v]
    /\ UNCHANGED <<observations, file, prov, run, torn>>

\* An ingestion, or a change of a capture's mode or actor.
ChangeEvidence ==
    /\ Change
    /\ \E e \in Evidence \ {observations.evidence, "none"} :
          observations' = [evidence |-> e, relevance |-> Ingested]
    /\ UNCHANGED <<target, file, prov, run, torn>>

\* An edited record is one that counts.
Edited(d) == [made |-> d.made, active |-> TRUE,
              records |-> d.records, edit |-> "open"]

EditArtifact ==
    /\ Change
    /\ \E s \in Editable :
          /\ Present(s) /\ file[s].records
          /\ file' = [file EXCEPT ![s] = Edited(file[s])]
    /\ UNCHANGED <<inputVars, prov, run, torn>>

DeleteArtifact ==
    /\ Change
    /\ \E s \in Editable : Present(s) /\ file' = [file EXCEPT ![s] = Absent]
    /\ UNCHANGED <<inputVars, prov, run, torn>>

Researcher == ChangeSetting \/ ChangeEvidence \/ EditArtifact \/ DeleteArtifact

Generating == \/ \E s \in Stages : Write(s) \/ Record(s)
              \/ Refresh \/ Reconstruct

Next == \/ Researcher \/ Generating \/ Abort \/ AnalyzeLogic
        \/ \E s \in Stages : Load(s)

Spec == Init /\ [][Next]_vars

-----------------------------------------------------------------------------
AtRest(s) == run.stage # s /\ s \notin torn

\* A COMPLETE model, or a COMPLETE set of invariants, is what the generator
\* would write now from the present inputs (docs/workflow-rationale.md:96),
\* whatever commands, edits and reports led there; a run that died between
\* its artifact and its provenance is the exception.
CompleteIsCurrent ==
    \A s \in {"model", "invariants"} :
        (Status(s) = "COMPLETE" /\ AtRest(s))
            => file[s].made = Product(s, target, observations, Documents(s))

\* The inventory has a fingerprint of its output as well, so that even after a
\* run died a COMPLETE inventory is what the recorded run wrote, unedited, from
\* the present settings, and with ownership from the present observations.
InventoryIsIntact ==
    Status("inventory") = "COMPLETE" =>
        /\ file["inventory"].made.target = Restrict(target, Reads("inventory"))
        /\ file["inventory"].made.docs = {observations}
        /\ file["inventory"].edit = "none"

=============================================================================
