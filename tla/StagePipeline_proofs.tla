------------------------ MODULE StagePipeline_proofs ------------------------
(***************************************************************************)
(* CompleteIsCurrent for every choice of settings, evidence and bounds.    *)
(* It is not inductive: the status compares the entry of the sidecar with  *)
(* the present inputs, and says nothing of the artifact.  What has to be   *)
(* carried along is that entry and artifact speak of the same inputs       *)
(* (Bound), and, while a run stands between the two writes, that the       *)
(* artifact speaks of the inputs the run will record (Underway).           *)
(***************************************************************************)
EXTENDS WorkspaceReport, TLAPS

Checked == {"model", "invariants"}

\* Sidecar and artifact of a stage stem from the same inputs.
Agree(s) ==
    \E t, o, ds : /\ prov[s].of = Fingerprint(s, t, o, ds)
                  /\ file[s].made = Product(s, t, o, ds)

Finished(s) == run.stage = s /\ run.step = "finished"

Bound(s) ==
    (prov[s] # NoEntry /\ s \notin torn /\ ~Finished(s) /\ Present(s)) => Agree(s)

Underway(s) ==
    (Finished(s) /\ Present(s))
        => file[s].made = Product(s, run.target, run.obs, run.docs)

\* The variables are functions over the stages and records of these fields.
Artifact(d) ==
    d = Absent \/ d = [made |-> d.made, active |-> d.active,
                       records |-> d.records, edit |-> d.edit]

Shapes ==
    /\ file = [s \in Stages |-> file[s]]
    /\ prov = [s \in Stages |-> prov[s]]
    /\ \A s \in Checked : Artifact(file[s])
    /\ run = Idle \/ run = [stage |-> run.stage, step |-> run.step,
                            target |-> run.target, obs |-> run.obs,
                            docs |-> run.docs, doc |-> run.doc]

IInv == /\ Shapes
        /\ \A s \in Checked : Bound(s) /\ Underway(s)

\* The model and the invariants bear the mark of nothing their fingerprints
\* leave out.
LEMMA MarksAreCovered == \A s \in Checked : Marks(s) = Covers(s)
  BY DEF Checked, Marks, Covers, Reads

\* Equal fingerprints mean equal products.
LEMMA FingerprintDecides ==
    ASSUME NEW s \in Checked, NEW t, NEW o, NEW ds, NEW u, NEW p, NEW es,
           Fingerprint(s, t, o, ds) = Fingerprint(s, u, p, es)
    PROVE  Product(s, t, o, ds) = Product(s, u, p, es)
<1>1. Marks(s) = Covers(s)
  BY MarksAreCovered
<1>2. /\ Restrict(t, Covers(s)) = Restrict(u, Covers(s))
      /\ Seen(s, o) = Seen(s, p)
      /\ {ds} = {es}
  BY DEF Fingerprint
<1>3. QED
  BY <1>1, <1>2 DEF Product

\* A step that leaves the artifact, the entry and the run of a stage alone, or
\* only damages what the invariant is conditional on, keeps it.
LEMMA Untroubled ==
    ASSUME NEW s \in Checked, Bound(s), Underway(s),
           prov'[s] = prov[s], torn \subseteq torn', run' = run,
           Present(s)' => (Present(s) /\ file'[s].made = file[s].made)
    PROVE  (Bound(s) /\ Underway(s))'
  BY DEF Bound, Underway, Agree, Finished, Present

LEMMA Initially == Init => IInv
  BY DEF Init, IInv, Shapes, Artifact, Blank, Bound, Underway, Finished, Present,
         Checked, Stages, Idle

\* No step but the generator's own write touches what the invariant ties
\* together; the write establishes Underway, the record turns it into Bound.
LEMMA Inductive == IInv /\ [Next]_vars => IInv'
<1> SUFFICES ASSUME IInv, [Next]_vars PROVE IInv'
  OBVIOUS
<1> USE DEF IInv
<1>1. CASE Researcher
  <2>1. CASE ChangeSetting \/ ChangeEvidence
    <3>1. UNCHANGED <<file, prov, run, torn>>
      BY <2>1 DEF ChangeSetting, ChangeEvidence
    <3>2. Shapes'
      BY <3>1 DEF Shapes, Artifact
    <3>3. QED
      BY <3>1, <3>2, Untroubled DEF Present
  <2>2. CASE EditArtifact
    <3>1. UNCHANGED <<prov, run, torn>>
      BY <2>2 DEF EditArtifact
    <3>2. PICK e \in Editable :
            /\ Present(e)
            /\ file' = [file EXCEPT ![e] = Edited(file[e])]
      BY <2>2 DEF EditArtifact
    <3>3. file' = [s \in Stages |-> file'[s]]
      BY <3>2 DEF Shapes
    <3>4. ASSUME NEW s \in Checked
          PROVE  /\ Artifact(file'[s])
                 /\ Present(s)' => (Present(s) /\ file'[s].made = file[s].made)
      <4>1. CASE s = e
        <5>1. file'[s] = Edited(file[s])
          BY <3>2, <4>1 DEF Shapes, Checked, Stages
        <5>2. Artifact(file[s]) /\ file[s] # Absent
          BY <3>2, <4>1 DEF Shapes, Present
        <5>3. Artifact(Edited(file[s])) /\ Edited(file[s]).made = file[s].made
          BY DEF Edited, Artifact
        <5>4. QED
          BY <5>1, <5>2, <5>3 DEF Present
      <4>2. CASE s # e
        BY <3>2, <4>2 DEF Shapes, Present, Checked, Stages
      <4>3. QED
        BY <4>1, <4>2
    <3>5. Shapes'
      BY <3>1, <3>3, <3>4 DEF Shapes
    <3>6. QED
      BY <3>1, <3>4, <3>5, Untroubled
  <2>3. CASE DeleteArtifact
    <3>1. UNCHANGED <<prov, run, torn>>
      BY <2>3 DEF DeleteArtifact
    <3>2. PICK e \in Editable : file' = [file EXCEPT ![e] = Absent]
      BY <2>3 DEF DeleteArtifact
    <3>3. file' = [s \in Stages |-> file'[s]]
      BY <3>2 DEF Shapes
    <3>4. ASSUME NEW s \in Checked
          PROVE  /\ Artifact(file'[s])
                 /\ Present(s)' => (Present(s) /\ file'[s].made = file[s].made)
      BY <3>2 DEF Shapes, Artifact, Present, Checked, Stages
    <3>5. Shapes'
      BY <3>1, <3>3, <3>4 DEF Shapes
    <3>6. QED
      BY <3>1, <3>4, <3>5, Untroubled
  <2>4. QED
    BY <1>1, <2>1, <2>2, <2>3 DEF Researcher
<1>2. ASSUME NEW s \in Stages, Write(s) PROVE IInv'
  <2> DEFINE doc == Written(s, run.target, run.obs, run.docs, file[s])
  <2>1. /\ run.stage = s /\ run.step = "loaded"
        /\ file' = [file EXCEPT ![s] = doc]
        /\ run' = [run EXCEPT
                     !.doc = IF s = "inventory" THEN doc ELSE Absent,
                     !.step = IF s = "inventory" THEN "written" ELSE "finished"]
        /\ UNCHANGED <<prov, torn>>
    BY <1>2 DEF Write
  <2>2. doc = [made |-> doc.made, active |-> doc.active,
               records |-> doc.records, edit |-> doc.edit]
    BY DEF Written
  <2>3. doc.made = Product(s, run.target, run.obs, run.docs)
    BY DEF Written
  <2> HIDE DEF doc
  <2>4. run # Idle
    BY <2>1 DEF Idle, Stages
  <2>5. /\ run'.stage = s /\ run'.target = run.target
        /\ run'.obs = run.obs /\ run'.docs = run.docs
        /\ run'.step = IF s = "inventory" THEN "written" ELSE "finished"
        /\ run' = [stage |-> run'.stage, step |-> run'.step,
                   target |-> run'.target, obs |-> run'.obs,
                   docs |-> run'.docs, doc |-> run'.doc]
    BY <2>1, <2>4 DEF Shapes
  <2>6. Shapes'
    BY <2>1, <2>2, <2>5 DEF Shapes, Artifact, Checked, Stages
  <2>7. ASSUME NEW c \in Checked PROVE (Bound(c) /\ Underway(c))'
    <3>1. CASE c = s
      <4>1. Finished(c)'
        BY <2>5, <3>1 DEF Finished, Checked
      <4>2. file'[c].made = Product(c, run'.target, run'.obs, run'.docs)
        BY <2>1, <2>3, <2>5, <3>1 DEF Shapes
      <4>3. QED
        BY <4>1, <4>2 DEF Bound, Underway
    <3>2. CASE c # s
      <4>1. ~Finished(c) /\ ~Finished(c)'
        BY <2>1, <2>5, <3>2 DEF Finished
      <4>2. file'[c] = file[c] /\ prov'[c] = prov[c]
        BY <2>1, <3>2 DEF Shapes, Checked, Stages
      <4>3. QED
        BY <2>1, <4>1, <4>2 DEF Bound, Underway, Agree, Present
    <3>3. QED
      BY <3>1, <3>2
  <2>8. QED
    BY <2>6, <2>7
<1>3. ASSUME NEW s \in Stages, Record(s) PROVE IInv'
  <2> DEFINE print == Fingerprint(s, run.target, run.obs, run.docs)
             out == IF s = "inventory" THEN {run.doc} ELSE {}
  <2>1. /\ Finished(s)
        /\ prov' = [prov EXCEPT ![s] = [of |-> print, out |-> out]]
        /\ run' = Idle /\ torn' = torn \ {s} /\ file' = file
    BY <1>3 DEF Record, Finished
  <2> HIDE DEF out
  <2>2. Shapes'
    BY <2>1 DEF Shapes, Artifact
  <2>3. ASSUME NEW c \in Checked PROVE (Bound(c) /\ Underway(c))'
    <3>1. ~Finished(c)'
      BY <2>1 DEF Finished, Idle, Checked
    <3>2. CASE c = s
      <4>1. prov'[c].of = Fingerprint(c, run.target, run.obs, run.docs)
        BY <2>1, <3>2 DEF Shapes
      <4>2. Present(c) => file[c].made = Product(c, run.target, run.obs, run.docs)
        BY <2>1, <3>2 DEF Underway
      <4>3. QED
        BY <2>1, <3>1, <4>1, <4>2 DEF Bound, Underway, Agree, Present
    <3>3. CASE c # s
      <4>1. ~Finished(c) /\ prov'[c] = prov[c] /\ (c \in torn' <=> c \in torn)
        BY <2>1, <3>3 DEF Shapes, Finished, Checked, Stages
      <4>2. QED
        BY <2>1, <3>1, <4>1 DEF Bound, Underway, Agree, Present
    <3>4. QED
      BY <3>2, <3>3
  <2>4. QED
    BY <2>2, <2>3
<1>4. CASE Refresh \/ Reconstruct
  <2>1. run.stage = "inventory" /\ run'.stage = "inventory"
    BY <1>4 DEF Refresh, Reconstruct, Shapes, Idle
  <2>2. UNCHANGED <<prov, torn>>
    BY <1>4 DEF Refresh, Reconstruct
  <2>3. /\ file' = [s \in Stages |-> file'[s]]
        /\ \A c \in Checked : file'[c] = file[c]
    BY <1>4 DEF Refresh, Reconstruct, Shapes, Checked, Stages
  <2>4. run' = [stage |-> run'.stage, step |-> run'.step,
                target |-> run'.target, obs |-> run'.obs,
                docs |-> run'.docs, doc |-> run'.doc]
    <3> run # Idle
      BY <2>1 DEF Idle
    <3>1. CASE Refresh
      BY <3>1 DEF Refresh, Shapes
    <3>2. CASE Reconstruct
      BY <3>2 DEF Reconstruct, Shapes
    <3>3. QED
      BY <1>4, <3>1, <3>2
  <2>5. Shapes'
    BY <2>2, <2>3, <2>4 DEF Shapes, Artifact
  <2>6. ASSUME NEW c \in Checked PROVE (Bound(c) /\ Underway(c))'
    <3>1. ~Finished(c) /\ ~Finished(c)'
      BY <2>1 DEF Finished, Checked
    <3>2. QED
      BY <2>2, <2>3, <3>1 DEF Bound, Underway, Agree, Present
  <2>7. QED
    BY <2>5, <2>6
<1>5. CASE Abort
  <2>1. /\ run' = Idle /\ UNCHANGED <<file, prov>>
        /\ torn' = IF run.step = "loaded" THEN torn ELSE torn \cup {run.stage}
    BY <1>5 DEF Abort
  <2>2. Shapes'
    BY <2>1 DEF Shapes, Artifact
  <2>3. ASSUME NEW c \in Checked PROVE (Bound(c) /\ Underway(c))'
    <3>1. ~Finished(c)'
      BY <2>1 DEF Finished, Idle, Checked
    <3>2. c \notin torn' => c \notin torn /\ ~Finished(c)
      BY <2>1 DEF Finished
    <3>3. QED
      BY <2>1, <3>1, <3>2 DEF Bound, Underway, Agree, Present
  <2>4. QED
    BY <2>2, <2>3
<1>6. CASE AnalyzeLogic
  <2>1. UNCHANGED <<prov, run, torn>>
    BY <1>6 DEF AnalyzeLogic
  <2>2. /\ file' = [s \in Stages |-> file'[s]]
        /\ \A c \in Checked : file'[c] = file[c]
    BY <1>6 DEF AnalyzeLogic, Shapes, Checked, Stages
  <2>3. Shapes'
    BY <2>1, <2>2 DEF Shapes, Artifact
  <2>4. QED
    BY <2>1, <2>2, <2>3, Untroubled DEF Present
<1>7. ASSUME NEW s \in Stages, Load(s) PROVE IInv'
  <2>1. /\ UNCHANGED <<file, prov, torn>>
        /\ run = Idle
        /\ run' = [stage |-> s, step |-> "loaded", target |-> target,
                   obs |-> observations, docs |-> Documents(s), doc |-> Absent]
    BY <1>7 DEF Load
  <2>2. Shapes'
    BY <2>1 DEF Shapes, Artifact
  <2>3. ASSUME NEW c \in Checked PROVE (Bound(c) /\ Underway(c))'
    <3>1. ~Finished(c) /\ ~Finished(c)'
      BY <2>1 DEF Finished, Idle, Checked
    <3>2. QED
      BY <2>1, <3>1 DEF Bound, Underway, Agree, Present
  <2>4. QED
    BY <2>2, <2>3
<1>8. CASE UNCHANGED vars
  BY <1>8 DEF vars, Shapes, Artifact, Bound, Underway, Agree, Finished, Present
<1>9. QED
  BY <1>1, <1>2, <1>3, <1>4, <1>5, <1>6, <1>7, <1>8 DEF Next, Generating

\* COMPLETE asks that the entry match the present inputs; with Bound, so does
\* the artifact.
LEMMA Sufficient == IInv => CompleteIsCurrent
<1> SUFFICES ASSUME IInv, NEW s \in Checked,
                    Status(s) = "COMPLETE", AtRest(s)
             PROVE  file[s].made = Product(s, target, observations, Documents(s))
  BY DEF CompleteIsCurrent, Checked
<1>1. OwnStatus(s) = "COMPLETE"
  BY DEF Checked, Status, ModelStatus, InvariantStatus, Dependent
<1>2. Present(s) /\ Matching(s)
  BY <1>1 DEF OwnStatus
<1>3. Agree(s)
  BY <1>2 DEF IInv, Bound, Matching, AtRest, Finished
<1>4. PICK t, o, ds : /\ prov[s].of = Fingerprint(s, t, o, ds)
                      /\ file[s].made = Product(s, t, o, ds)
  BY <1>3 DEF Agree
<1>5. Fingerprint(s, t, o, ds)
        = Fingerprint(s, target, observations, Documents(s))
  BY <1>2, <1>4 DEF Matching
<1>6. Product(s, t, o, ds) = Product(s, target, observations, Documents(s))
  BY <1>5, FingerprintDecides
<1>7. QED
  BY <1>4, <1>6

\* Whatever the generators, the researcher and kills do, a COMPLETE model and
\* COMPLETE invariants are those of the present inputs, unless the run that
\* wrote them died before it recorded them (readiness/provenance.py).
THEOREM PipelineIsCurrent == Spec => []CompleteIsCurrent
<1>1. Spec => []IInv
  BY Initially, Inductive, PTL DEF Spec
<1>2. QED
  BY <1>1, Sufficient, PTL

\* Reports and commands do nothing to the pipeline that it does not allow.
LEMMA ReportsStep == [ReportNext]_allVars => [Next]_vars
<1> SUFFICES ASSUME [ReportNext]_allVars PROVE [Next]_vars
  OBVIOUS
<1>1. CASE Start
  BY <1>1 DEF Start
<1>2. ASSUME NEW s \in Stages, Deciding(s) PROVE [Next]_vars
  BY <1>2 DEF Deciding, Skip, NotApplicable, Reuse, Withhold, Refuse, Settle,
             Regenerate, Next
<1>3. ASSUME NEW s \in Stages, Continue(s) \/ Complete(s) PROVE [Next]_vars
  BY <1>3 DEF Continue, Complete, Next, Generating
<1>4. CASE Behave \/ PassOver \/ Finish \/ Fail \/ Kill
  BY <1>4 DEF Behave, PassOver, Settle, Finish, Fail, Kill, Next
<1>5. CASE LogicCommand \/ ResearcherActs
  BY <1>5 DEF LogicCommand, ResearcherActs, Next
<1>6. ASSUME NEW s \in Stages, Command(s) PROVE [Next]_vars
  BY <1>6 DEF Command, Next
<1>7. CASE UNCHANGED allVars
  BY <1>7 DEF allVars
<1>8. QED
  BY <1>1, <1>2, <1>3, <1>4, <1>5, <1>6, <1>7 DEF ReportNext, Working

\* The same under workspace reports in every mode (workspace_analysis/
\* service.py), which is what the TLC run checks on a small instance.
THEOREM ReportsAreCurrent == ReportSpec => []CompleteIsCurrent
<1>1. InitReport => IInv
  BY Initially DEF InitReport
<1>2. IInv /\ [ReportNext]_allVars => IInv'
  BY Inductive, ReportsStep
<1>3. ReportSpec => []IInv
  BY <1>1, <1>2, PTL DEF ReportSpec
<1>4. QED
  BY <1>3, Sufficient, PTL

-----------------------------------------------------------------------------
(* The inventory                                                           *)

\* What an inventory run has in memory once it wrote: made from the settings
\* it loaded and, in the end, with ownership from its own observations.
Remembered ==
    run.stage = "inventory" /\ run.step # "loaded" =>
        LET d == run.doc IN
        /\ run.step \in {"written", "refreshed", "finished"}
        /\ d = [made |-> d.made, active |-> d.active, records |-> d.records,
                edit |-> d.edit]
        /\ d.made = [target |-> d.made.target, seen |-> d.made.seen, docs |-> d.made.docs]
        /\ d.made.target = Restrict(run.target, Reads("inventory")) /\ d.edit = "none"
        /\ run.step = "finished" => d.made.docs = {run.obs}

\* The entry of the inventory describes one output, and that output stems from
\* the inputs the entry describes, whatever has become of the file.
Sealed ==
    prov["inventory"] # NoEntry =>
        \E t, o, ds, d :
            /\ prov["inventory"].of = Fingerprint("inventory", t, o, ds)
            /\ prov["inventory"].out = {d}
            /\ d.made.target = Restrict(t, Reads("inventory"))
            /\ d.made.docs = {o} /\ d.edit = "none"

InventoryInv == IInv /\ Remembered /\ Sealed

LEMMA InitInventory == Init => InventoryInv
<1>1. Init => IInv
  BY Initially
<1>2. Init => Remembered /\ Sealed
  BY DEF Init, Remembered, Sealed, Idle, Stages
<1> QED
  BY <1>1, <1>2 DEF InventoryInv

LEMMA InventoryStands ==
    ASSUME InventoryInv, prov'["inventory"] = prov["inventory"],
           run' = run \/ run'.stage # "inventory" \/ run'.step = "loaded"
    PROVE  Remembered' /\ Sealed'
<1>1. Sealed'
  BY DEF InventoryInv, Sealed
<1>2. Remembered'
  BY DEF InventoryInv, Remembered
<1> QED
  BY <1>1, <1>2

LEMMA NextInventory == InventoryInv /\ [Next]_vars => InventoryInv'
<1> SUFFICES ASSUME InventoryInv, [Next]_vars PROVE Remembered' /\ Sealed'
  BY Inductive DEF InventoryInv
<1> USE DEF InventoryInv
<1>1. CASE Researcher \/ AnalyzeLogic \/ UNCHANGED vars
  <2>1. UNCHANGED <<prov, run>>
    BY <1>1 DEF Researcher, ChangeSetting, ChangeEvidence, EditArtifact, DeleteArtifact,
                AnalyzeLogic, vars
  <2> QED
    BY <2>1, InventoryStands
<1>2. CASE Abort
  <2>1. prov' = prov /\ run'.stage = "idle"
    BY <1>2 DEF Abort, Idle
  <2> QED
    BY <2>1, InventoryStands
<1>3. ASSUME NEW s \in Stages, Load(s) PROVE Remembered' /\ Sealed'
  <2>1. prov' = prov /\ run'.step = "loaded"
    BY <1>3 DEF Load
  <2> QED
    BY <2>1, InventoryStands
<1>4. ASSUME NEW s \in Stages, Write(s) PROVE Remembered' /\ Sealed'
  <2> DEFINE doc == Written(s, run.target, run.obs, run.docs, file[s])
  <2>1. /\ run.stage = s /\ prov' = prov
        /\ run' = [run EXCEPT
                     !.doc = IF s = "inventory" THEN doc ELSE Absent,
                     !.step = IF s = "inventory" THEN "written" ELSE "finished"]
    BY <1>4 DEF Write
  <2>2. run = [stage |-> run.stage, step |-> run.step, target |-> run.target,
               obs |-> run.obs, docs |-> run.docs, doc |-> run.doc]
    BY <2>1 DEF IInv, Shapes, Idle, Stages
  <2>3. run'.stage = s
    BY <2>1, <2>2
  <2>4. CASE s # "inventory"
    BY <2>1, <2>3, <2>4, InventoryStands
  <2>5. CASE s = "inventory"
    <3>1. /\ doc = [made |-> doc.made, active |-> doc.active, records |-> doc.records,
                    edit |-> doc.edit]
          /\ doc.edit = "none"
      BY <2>5 DEF Written, AfterMerge
    <3>2. doc.made = Product(s, run.target, run.obs, run.docs)
      BY DEF Written
    <3> HIDE DEF doc
    <3>3. /\ doc.made = [target |-> doc.made.target, seen |-> doc.made.seen,
                         docs |-> doc.made.docs]
          /\ doc.made.target = Restrict(run.target, Reads("inventory"))
      BY <2>5, <3>2 DEF Product, Marks
    <3>4. run'.step = "written" /\ run'.doc = doc /\ run'.target = run.target
      BY <2>1, <2>2, <2>5
    <3>5. Remembered'
      BY <3>1, <3>3, <3>4 DEF Remembered
    <3>6. Sealed'
      BY <2>1 DEF Sealed
    <3> QED
      BY <3>5, <3>6
  <2> QED
    BY <2>4, <2>5
<1>5. ASSUME NEW s \in Stages, Record(s) PROVE Remembered' /\ Sealed'
  <2> DEFINE print == Fingerprint(s, run.target, run.obs, run.docs)
             out == IF s = "inventory" THEN {run.doc} ELSE {}
  <2>1. /\ Finished(s) /\ run'.stage # "inventory"
        /\ prov' = [prov EXCEPT ![s] = [of |-> print, out |-> out]]
    BY <1>5 DEF Record, Finished, Idle
  <2>2. prov = [x \in Stages |-> prov[x]]
    BY DEF IInv, Shapes
  <2>3. CASE s # "inventory"
    <3>1. prov'["inventory"] = prov["inventory"]
      BY <2>1, <2>2, <2>3
    <3> QED
      BY <2>1, <3>1, InventoryStands
  <2>4. CASE s = "inventory"
    <3>1. /\ prov'[s].of = Fingerprint(s, run.target, run.obs, run.docs)
          /\ prov'[s].out = {run.doc}
      BY <2>1, <2>2, <2>4
    <3>2. /\ run.doc.made.target = Restrict(run.target, Reads("inventory"))
          /\ run.doc.edit = "none" /\ run.doc.made.docs = {run.obs}
      BY <2>1, <2>4 DEF Finished, Remembered
    <3>3. Sealed'
      BY <2>4, <3>1, <3>2 DEF Sealed
    <3>4. Remembered'
      BY <2>1 DEF Remembered
    <3> QED
      BY <3>3, <3>4
  <2> QED
    BY <2>3, <2>4
<1>6. CASE Refresh
  <2>1. /\ run.stage = "inventory" /\ run.step = "written" /\ prov' = prov
        /\ run' = [run EXCEPT !.step = "refreshed", !.obs = observations']
    BY <1>6 DEF Refresh
  <2>2. run = [stage |-> run.stage, step |-> run.step, target |-> run.target,
               obs |-> run.obs, docs |-> run.docs, doc |-> run.doc]
    BY <2>1 DEF IInv, Shapes, Idle
  <2>3. run'.step = "refreshed" /\ run'.doc = run.doc /\ run'.target = run.target
    BY <2>1, <2>2
  <2> QED
    BY <2>1, <2>3 DEF Remembered, Sealed
<1>7. CASE Reconstruct
  <2> DEFINE doc == [run.doc EXCEPT !.made.docs = {run.obs}]
             d == run.doc
             seen == {run.obs}
  <2>1. /\ run.stage = "inventory" /\ run.step = "refreshed" /\ prov' = prov
        /\ run' = [run EXCEPT !.step = "finished", !.doc = doc]
    BY <1>7 DEF Reconstruct
  <2>2. run = [stage |-> run.stage, step |-> run.step, target |-> run.target,
               obs |-> run.obs, docs |-> run.docs, doc |-> run.doc]
    BY <2>1 DEF IInv, Shapes, Idle
  <2>3. /\ d = [made |-> d.made, active |-> d.active, records |-> d.records,
                edit |-> d.edit]
        /\ d.made = [target |-> d.made.target, seen |-> d.made.seen, docs |-> d.made.docs]
        /\ d.made.target = Restrict(run.target, Reads("inventory")) /\ d.edit = "none"
    BY <2>1 DEF Remembered
  <2>4. doc = [d EXCEPT !.made = [d.made EXCEPT !.docs = seen]]
    BY <2>3
  <2> HIDE DEF doc, d, seen
  <2>5. [d.made EXCEPT !.docs = seen]
           = [target |-> d.made.target, seen |-> d.made.seen, docs |-> seen]
    BY <2>3
  <2>6. doc = [made |-> [target |-> d.made.target, seen |-> d.made.seen, docs |-> seen],
               active |-> d.active, records |-> d.records, edit |-> d.edit]
    BY <2>3, <2>4, <2>5
  <2>7. run'.step = "finished" /\ run'.doc = doc /\ run'.target = run.target
          /\ run'.obs = run.obs
    BY <2>1, <2>2
  <2>8. Remembered'
    BY <2>3, <2>6, <2>7 DEF Remembered, seen
  <2> QED
    BY <2>1, <2>8 DEF Sealed
<1> QED
  BY <1>1, <1>2, <1>3, <1>4, <1>5, <1>6, <1>7 DEF Next, Generating

LEMMA SealedIsIntact == InventoryInv => InventoryIsIntact
<1> SUFFICES ASSUME InventoryInv, Status("inventory") = "COMPLETE"
             PROVE  /\ file["inventory"].made.target = Restrict(target, Reads("inventory"))
                    /\ file["inventory"].made.docs = {observations}
                    /\ file["inventory"].edit = "none"
  BY DEF InventoryIsIntact
<1>1. Matching("inventory")
  BY DEF Status, InventoryStatus, OwnStatus
<1>2. PICK t, o, ds, d :
         /\ prov["inventory"].of = Fingerprint("inventory", t, o, ds)
         /\ prov["inventory"].out = {d}
         /\ d.made.target = Restrict(t, Reads("inventory"))
         /\ d.made.docs = {o} /\ d.edit = "none"
  BY <1>1 DEF Matching, InventoryInv, Sealed
<1>3. d = file["inventory"]
  BY <1>1, <1>2 DEF Matching
<1>4. /\ Restrict(t, Covers("inventory")) = Restrict(target, Covers("inventory"))
      /\ {o} = {observations}
  BY <1>1, <1>2 DEF Matching, Fingerprint, Seen, ReadsObservations
<1>5. Reads("inventory") \subseteq Covers("inventory")
  BY DEF Reads, Covers
<1>6. ASSUME NEW c \in Reads("inventory") PROVE t[c] = target[c]
  <2>1. /\ Restrict(t, Covers("inventory"))[c] = t[c]
        /\ Restrict(target, Covers("inventory"))[c] = target[c]
    BY <1>5 DEF Restrict
  <2> QED
    BY <1>4, <2>1
<1>7. Restrict(t, Reads("inventory")) = Restrict(target, Reads("inventory"))
  BY <1>6 DEF Restrict
<1> QED
  BY <1>2, <1>3, <1>4, <1>7

\* A COMPLETE inventory is what the recorded run of build_inventory wrote,
\* unedited, from the present settings and with ownership from the present
\* observations, even after runs that died (readiness/provenance.py).
THEOREM InventoriesAreIntact == ReportSpec => []InventoryIsIntact
<1>1. InitReport => InventoryInv
  BY InitInventory DEF InitReport
<1>2. InventoryInv /\ [ReportNext]_allVars => InventoryInv'
  BY NextInventory, ReportsStep
<1> QED
  BY <1>1, <1>2, SealedIsIntact, PTL DEF ReportSpec

-----------------------------------------------------------------------------
(* Workspace reports                                                       *)

Good == {"kept", "made"}

\* A report decides on the stages in order, and a run under it is that of the
\* stage whose turn it is.
InOrder ==
    /\ result = [s \in Tasks |-> result[s]]
    /\ mode = "none" => result = Pending
    /\ \A s \in Stages : result[s] # "pending"
          => \A d \in Sources(s) : result[d] # "pending"
    /\ mode # "none" /\ run # Idle
          => /\ run.stage \in Stages /\ result[run.stage] = "pending"
             /\ \A d \in Sources(run.stage) : result[d] # "pending"

\* Under a report that nothing disturbs, a run works on what the files say,
\* and what it wrote is still there.
Undisturbed ==
    mode # "none" /\ quiet /\ run # Idle =>
        LET s == run.stage IN
        /\ run.target = target /\ run.obs = observations /\ run.docs = Documents(s)
        /\ run.step # "loaded" =>
              /\ Present(s) /\ (s = "hypotheses" => file[s].edit # "open")
              /\ s = "inventory" => run.doc = file[s]

\* The stages a report has been through, with no record in their way.
Passed(s) ==
    \A u \in Upstream(s) :
        result[u] \in Good /\ (u # "hypotheses" => file[u].edit = "none")

PassedAreCurrent ==
    mode # "none" /\ quiet =>
        /\ result["inventory"] \in {"pending"} \cup Good => observations.evidence # "none"
        /\ \A s \in Stages : Passed(s) => OwnStatus(s) = "COMPLETE"

ReportInv == InventoryInv /\ InOrder /\ Undisturbed /\ PassedAreCurrent

LEMMA StageOrder ==
    ASSUME NEW s \in Stages
    PROVE  /\ "inventory" \in Upstream(s) /\ Upstream(s) \subseteq Stages
           /\ s \notin Sources(s) /\ s \in Tasks /\ s # "behavior"
           /\ \A d \in Sources(s) : Sources(d) \subseteq Sources(s)
  BY DEF Stages, Upstream, Sources, Tasks

\* Nothing a stage follows is decided after it.
LEMMA PendingIsNotPassed ==
    ASSUME InOrder, NEW s \in Stages, result[s] = "pending", NEW x \in Stages,
           s \in Upstream(x)
    PROVE  ~Passed(x) /\ (x # s => result[x] = "pending")
<1>1. x # s => result[x] = "pending"
  BY DEF InOrder, Upstream
<1> QED
  BY <1>1 DEF Passed, Good

LEMMA StatusStands ==
    ASSUME NEW s \in Stages, UNCHANGED <<target, observations>>,
           \A u \in Upstream(s) : file'[u] = file[u], prov'[s] = prov[s]
    PROVE  OwnStatus(s)' = OwnStatus(s)
<1>1. Documents(s)' = Documents(s) /\ file'[s] = file[s]
  BY DEF Documents, Upstream
<1>2. Fingerprint(s, target, observations, Documents(s))'
         = Fingerprint(s, target, observations, Documents(s))
  BY <1>1
<1> QED
  BY <1>1, <1>2 DEF OwnStatus, Matching, Integral, HasResult, Present

\* A step that leaves the files, the entries and the settings.
LEMMA PassedStands ==
    ASSUME PassedAreCurrent, UNCHANGED <<target, observations, file, prov, mode, quiet>>,
           result'["inventory"] \in {"pending"} \cup Good
              => result["inventory"] \in {"pending"} \cup Good,
           \A s \in Stages : Passed(s)' => Passed(s) \/ OwnStatus(s) = "COMPLETE"
    PROVE  PassedAreCurrent'
<1>1. \A s \in Stages : OwnStatus(s)' = OwnStatus(s)
  BY StatusStands, StageOrder
<1> QED
  BY <1>1 DEF PassedAreCurrent

\* The decision on one stage, or on the business logic.
LEMMA SettleKeeps ==
    ASSUME ReportInv, NEW s \in Tasks, NEW r, r # "pending", Settle(s, r),
           mode # "none", run = Idle, result[s] = "pending",
           s \in Stages => \A d \in Sources(s) : result[d] # "pending",
           s \in Stages /\ r \in Good => OwnStatus(s) = "COMPLETE"
    PROVE  ReportInv'
<1> USE DEF ReportInv
<1>1. UNCHANGED <<target, observations, file, prov, run, torn, changes, mode, quiet>>
  BY DEF Settle, vars
<1>2. /\ result' = [x \in Tasks |-> result'[x]] /\ result'[s] = r
      /\ \A x \in Tasks \ {s} : result'[x] = result[x]
  BY DEF Settle, InOrder
<1>3. InventoryInv'
  BY <1>1, NextInventory DEF vars
<1>4. InOrder'
  <2>1. ASSUME NEW x \in Stages, result'[x] # "pending", NEW d \in Sources(x)
        PROVE  result'[d] # "pending"
    <3>1. x \in Tasks /\ d \in Tasks
      BY StageOrder DEF Upstream
    <3>2. result[d] # "pending" \/ d = s
      BY <1>2, <2>1, <3>1 DEF InOrder
    <3> QED
      BY <1>2, <3>1, <3>2
  <2> QED
    BY <1>1, <1>2, <2>1 DEF InOrder
<1>5. Undisturbed'
  BY <1>1 DEF Undisturbed
<1>6. ASSUME NEW x \in Stages, Passed(x)' PROVE Passed(x) \/ OwnStatus(x) = "COMPLETE"
  <2>1. CASE s \in Upstream(x)
    <3>1. r \in Good /\ s \in Stages
      BY <1>2, <1>6, <2>1, StageOrder DEF Passed
    <3>2. x = s
      <4>1. CASE x # s
        <5>1. result[x] = "pending" /\ result'[x] = result[x]
          BY <1>2, <2>1, <3>1, <4>1, PendingIsNotPassed, StageOrder
        <5> QED
          BY <1>6, <5>1 DEF Passed, Upstream, Good
      <4> QED
        BY <4>1
    <3> QED
      BY <3>1, <3>2
  <2>2. CASE s \notin Upstream(x)
    <3>1. \A u \in Upstream(x) : result'[u] = result[u]
      BY <1>2, <2>2, StageOrder
    <3> QED
      BY <1>1, <1>6, <3>1 DEF Passed
  <2> QED
    BY <2>1, <2>2
<1>7. result'["inventory"] \in {"pending"} \cup Good
         => result["inventory"] \in {"pending"} \cup Good
  BY <1>2 DEF Tasks, Stages
<1>8. PassedAreCurrent'
  BY <1>1, <1>6, <1>7, PassedStands
<1> QED
  BY <1>3, <1>4, <1>5, <1>8


\* Decisions reuse a stage only when its status is COMPLETE.
LEMMA DecidingKeeps ==
    ASSUME ReportInv, NEW s \in Stages, Deciding(s)
    PROVE  ReportInv'
<1> USE DEF ReportInv
<1>1. /\ mode # "none" /\ run = Idle /\ result[s] = "pending" /\ s \in Tasks
      /\ \A d \in Sources(s) : result[d] # "pending"
  BY StageOrder DEF Deciding, Skip, NotApplicable, Reuse, Withhold, Refuse, Regenerate, Due,
                    Turn
<1>2. CASE Skip(s) \/ NotApplicable(s) \/ Withhold(s) \/ Refuse(s)
  <2>1. PICK r \in {"unavailable", "inapplicable"} : Settle(s, r)
    BY <1>2 DEF Skip, NotApplicable, Withhold, Refuse
  <2>2. r # "pending" /\ r \notin Good
    BY DEF Good
  <2> QED
    BY <1>1, <2>1, <2>2, SettleKeeps
<1>3. CASE Reuse(s)
  <2>1. Settle(s, "kept") /\ Status(s) = "COMPLETE"
    BY <1>3 DEF Reuse
  <2>2. OwnStatus(s) = "COMPLETE"
    BY <2>1 DEF Stages, Status, InventoryStatus, ModelStatus, InvariantStatus,
                HypothesisStatus, Dependent
  <2> DEFINE r == "kept"
  <2>3. Settle(s, r) /\ r # "pending"
    BY <2>1
  <2> HIDE DEF r
  <2> QED
    BY <1>1, <2>2, <2>3, SettleKeeps
<1>4. CASE Regenerate(s)
  <2>1. /\ UNCHANGED <<target, observations, file, prov, torn, changes, mode, result, quiet>>
        /\ run' = [stage |-> s, step |-> "loaded", target |-> target,
                   obs |-> observations, docs |-> Documents(s), doc |-> Absent]
    BY <1>4 DEF Regenerate, Load, reportVars, inputVars
  <2>2. InventoryInv'
    <3>1. Next
      BY <1>4 DEF Regenerate, Next
    <3> QED
      BY <3>1, NextInventory
  <2>3. /\ run'.stage = s /\ run'.step = "loaded" /\ run'.target = target
        /\ run'.obs = observations /\ run'.docs = Documents(s)
    BY <2>1
  <2>4. InOrder'
    BY <1>1, <2>1, <2>3 DEF InOrder
  <2>5. Documents(s)' = Documents(s)
    BY <2>1 DEF Documents
  <2>6. Undisturbed'
    BY <2>1, <2>3, <2>5 DEF Undisturbed
  <2>7. PassedAreCurrent'
    BY <2>1, PassedStands DEF Passed
  <2> QED
    BY <2>2, <2>4, <2>6, <2>7
<1> QED
  BY <1>2, <1>3, <1>4 DEF Deciding


\* A generator under way in a report touches nothing a passed stage stands on.
LEMMA RunKeepsPassed ==
    ASSUME InOrder, PassedAreCurrent, NEW s \in Stages, run # Idle, run.stage = s,
           UNCHANGED <<target, prov, mode, result, quiet>>,
           \A x \in Stages \ {s} : file'[x] = file[x],
           s = "inventory" \/ observations' = observations,
           observations'.evidence = observations.evidence
    PROVE  PassedAreCurrent'
<1> SUFFICES ASSUME mode # "none", quiet
             PROVE  /\ result["inventory"] \in {"pending"} \cup Good
                           => observations'.evidence # "none"
                    /\ \A x \in Stages : Passed(x)' => OwnStatus(x)' = "COMPLETE"
  BY DEF PassedAreCurrent
<1>1. result[s] = "pending"
  BY DEF InOrder
<1>2. ASSUME NEW x \in Stages, Passed(x)' PROVE OwnStatus(x)' = "COMPLETE"
  <2>1. s \notin Upstream(x)
    BY <1>1, <1>2 DEF Passed, Good
  <2>2. observations' = observations /\ \A u \in Upstream(x) : file'[u] = file[u]
    BY <2>1, StageOrder
  <2>3. Passed(x)
    BY <1>2, <2>2 DEF Passed
  <2>4. OwnStatus(x)' = OwnStatus(x)
    BY <2>2, StatusStands
  <2> QED
    BY <2>3, <2>4 DEF PassedAreCurrent
<1> QED
  BY <1>2 DEF PassedAreCurrent

LEMMA RunIsWhole ==
    ASSUME ReportInv, run # Idle
    PROVE  run = [stage |-> run.stage, step |-> run.step, target |-> run.target,
                  obs |-> run.obs, docs |-> run.docs, doc |-> run.doc]
  BY DEF ReportInv, InventoryInv, IInv, Shapes

LEMMA ContinueKeeps ==
    ASSUME ReportInv, NEW s \in Stages, Continue(s)
    PROVE  ReportInv'
<1> USE DEF ReportInv
<1>n. InventoryInv'
  <2>1. Next
    BY DEF Continue, Next, Generating
  <2> QED
    BY <2>1, NextInventory
<1>f. /\ UNCHANGED <<target, prov, mode, result, quiet>> /\ run # Idle /\ run.stage = s
      /\ observations'.evidence = observations.evidence
      /\ s = "inventory" \/ observations' = observations
  <2>1. run.stage = s /\ UNCHANGED <<target, prov, mode, result, quiet>>
    BY DEF Continue, Write, Refresh, Reconstruct, inputVars, reportVars
  <2>2. run # Idle
    BY <2>1 DEF Idle, Stages
  <2>3. CASE Refresh
    <3>1. observations' = [observations EXCEPT !.relevance = Refined(target)]
      BY <2>3 DEF Refresh
    <3> QED
      BY <2>1, <2>2, <2>3, <3>1 DEF Refresh
  <2>4. CASE observations' = observations
    BY <2>1, <2>2, <2>4
  <2> QED
    BY <2>3, <2>4 DEF Continue, Write, Reconstruct, inputVars
<1>s. /\ file = [x \in Stages |-> file[x]]
      /\ run = [stage |-> run.stage, step |-> run.step, target |-> run.target,
                obs |-> run.obs, docs |-> run.docs, doc |-> run.doc]
  BY <1>f, RunIsWhole DEF InventoryInv, IInv, Shapes
<1>p. ASSUME \A x \in Stages \ {s} : file'[x] = file[x], run'.stage = s,
             mode # "none" /\ quiet =>
                /\ run'.target = target /\ run'.obs = observations' /\ run'.docs = run.docs
                /\ run'.step # "loaded" /\ Present(s)'
                /\ (s = "hypotheses" => file'[s].edit # "open")
                /\ (s = "inventory" => run'.doc = file'[s])
      PROVE  ReportInv'
  <2>1. InOrder'
    BY <1>f, <1>p DEF InOrder
  <2>2. Documents(s)' = Documents(s)
    BY <1>p, StageOrder DEF Documents, Upstream
  <2>3. Undisturbed'
    BY <1>f, <1>p, <2>2 DEF Undisturbed
  <2>4. PassedAreCurrent'
    BY <1>f, <1>p, RunKeepsPassed
  <2> QED
    BY <1>n, <2>1, <2>3, <2>4
<1>1. CASE Write(s)
  <2> DEFINE doc == Written(s, run.target, run.obs, run.docs, file[s])
  <2>1. /\ file' = [file EXCEPT ![s] = doc] /\ observations' = observations
        /\ run' = [run EXCEPT
                     !.doc = IF s = "inventory" THEN doc ELSE Absent,
                     !.step = IF s = "inventory" THEN "written" ELSE "finished"]
    BY <1>1 DEF Write, inputVars
  <2>2. s = "hypotheses" => doc.edit # "open"
    BY DEF Written, AfterMerge
  <2>3. doc # Absent
    <3>1. "made" \in DOMAIN doc /\ "made" \notin DOMAIN Absent
      BY DEF Written, Absent
    <3> QED
      BY <3>1
  <2> HIDE DEF doc
  <2>4. file'[s] = doc /\ \A x \in Stages \ {s} : file'[x] = file[x]
    BY <2>1, <1>s
  <2>5. /\ run'.stage = s /\ run'.target = run.target /\ run'.obs = run.obs
        /\ run'.docs = run.docs /\ run'.step # "loaded"
        /\ (s = "inventory" => run'.doc = doc)
    BY <2>1, <1>s, <1>f
  <2> QED
    BY <1>f, <1>p, <2>1, <2>2, <2>3, <2>4, <2>5 DEF Present, Undisturbed
<1>2. CASE s = "inventory" /\ Refresh
  <2>1. /\ file' = file /\ run.step = "written"
        /\ run' = [run EXCEPT !.step = "refreshed", !.obs = observations']
    BY <1>2 DEF Refresh
  <2>2. /\ run'.stage = s /\ run'.target = run.target /\ run'.obs = observations'
        /\ run'.docs = run.docs /\ run'.step = "refreshed" /\ run'.doc = run.doc
    BY <2>1, <1>s, <1>f
  <2> QED
    BY <1>2, <1>f, <1>p, <2>1, <2>2 DEF Present, Undisturbed
<1>3. CASE s = "inventory" /\ Reconstruct
  <2> DEFINE doc == [run.doc EXCEPT !.made.docs = {run.obs}]
  <2>1. /\ run.step = "refreshed" /\ observations' = observations
        /\ run' = [run EXCEPT !.step = "finished", !.doc = doc]
        /\ file' = [file EXCEPT !["inventory"] = doc]
    BY <1>3 DEF Reconstruct, inputVars
  <2>2. doc # Absent
    <3>1. "made" \in DOMAIN run.doc
      BY <1>f, <1>3, <2>1 DEF InventoryInv, Remembered
    <3>2. DOMAIN doc = DOMAIN run.doc /\ "made" \notin DOMAIN Absent
      BY DEF Absent
    <3> QED
      BY <3>1, <3>2
  <2> HIDE DEF doc
  <2>3. file'[s] = doc /\ \A x \in Stages \ {s} : file'[x] = file[x]
    BY <1>3, <2>1, <1>s
  <2>4. /\ run'.stage = s /\ run'.target = run.target /\ run'.obs = run.obs
        /\ run'.docs = run.docs /\ run'.step = "finished" /\ run'.doc = doc
    BY <2>1, <1>s, <1>f
  <2> QED
    BY <1>3, <1>f, <1>p, <2>1, <2>2, <2>3, <2>4 DEF Present, Undisturbed
<1> QED
  BY <1>1, <1>2, <1>3 DEF Continue


LEMMA CompleteKeeps ==
    ASSUME ReportInv, NEW s \in Stages, Complete(s)
    PROVE  ReportInv'
<1> USE DEF ReportInv
<1> DEFINE print == Fingerprint(s, run.target, run.obs, run.docs)
           out == IF s = "inventory" THEN {run.doc} ELSE {}
           entry == [of |-> print, out |-> out]
<1>1. /\ run.stage = s /\ run.step = "finished" /\ run' = Idle
      /\ prov' = [prov EXCEPT ![s] = entry]
      /\ UNCHANGED <<target, observations, file, mode, quiet>>
      /\ result' = IF mode = "none" THEN result ELSE [result EXCEPT ![s] = "made"]
  BY DEF Complete, Record, inputVars
<1>2. /\ entry.of = print /\ entry # NoEntry /\ (s = "inventory" => entry.out = {run.doc})
  <2>1. "of" \in DOMAIN entry /\ "of" \notin DOMAIN NoEntry
    BY DEF NoEntry
  <2> QED
    BY <2>1
<1> HIDE DEF print, entry
<1>3. prov'[s] = entry /\ \A x \in Stages \ {s} : prov'[x] = prov[x]
  BY <1>1 DEF InventoryInv, IInv, Shapes
<1>4. run # Idle
  BY <1>1 DEF Idle, Stages
<1>n. InventoryInv'
  <2>1. Next
    BY DEF Complete, Next, Generating
  <2> QED
    BY <2>1, NextInventory
<1>5. CASE mode = "none"
  <2>1. InOrder'
    BY <1>1, <1>5 DEF InOrder
  <2>2. Undisturbed' /\ PassedAreCurrent'
    BY <1>1, <1>5 DEF Undisturbed, PassedAreCurrent
  <2> QED
    BY <1>n, <2>1, <2>2
<1>6. CASE mode # "none"
  <2>1. /\ result[s] = "pending" /\ \A d \in Sources(s) : result[d] # "pending"
    BY <1>1, <1>4, <1>6 DEF InOrder
  <2>2. /\ result' = [x \in Tasks |-> result'[x]] /\ result'[s] = "made"
        /\ \A x \in Tasks \ {s} : result'[x] = result[x]
    BY <1>1, <1>6, StageOrder DEF InOrder
  <2>3. ASSUME NEW x \in Stages, result'[x] # "pending", NEW d \in Sources(x)
        PROVE  result'[d] # "pending"
    <3>1. x \in Tasks /\ d \in Tasks
      BY StageOrder DEF Upstream
    <3>2. result[d] # "pending" \/ d = s
      BY <2>1, <2>2, <2>3, <3>1 DEF InOrder
    <3> QED
      BY <2>2, <3>1, <3>2
  <2>4. InOrder'
    BY <1>1, <1>6, <2>2, <2>3 DEF InOrder
  <2>5. Undisturbed'
    BY <1>1 DEF Undisturbed
  <2>6. ASSUME quiet, NEW x \in Stages, Passed(x)' PROVE OwnStatus(x)' = "COMPLETE"
    <3>1. CASE s \notin Upstream(x)
      <4>1. \A u \in Upstream(x) : result'[u] = result[u] /\ prov'[u] = prov[u]
        BY <1>3, <2>2, <3>1, StageOrder
      <4>2. Passed(x)
        BY <1>1, <2>6, <4>1 DEF Passed
      <4>3. OwnStatus(x)' = OwnStatus(x)
        BY <1>1, <4>1, StatusStands DEF Upstream
      <4> QED
        BY <1>6, <2>6, <4>2, <4>3 DEF PassedAreCurrent
    <3>2. CASE s \in Upstream(x) /\ x # s
      <4>1. result'[x] = "pending"
        BY <2>1, <2>2, <3>2, PendingIsNotPassed, StageOrder
      <4> QED
        BY <2>6, <4>1 DEF Passed, Upstream, Good
    <3>3. CASE x = s
      <4>1. /\ run.target = target /\ run.obs = observations /\ run.docs = Documents(s)
            /\ Present(s) /\ (s = "hypotheses" => file[s].edit # "open")
            /\ (s = "inventory" => run.doc = file[s])
        BY <1>1, <1>4, <1>6, <2>6 DEF Undisturbed
      <4>2. Documents(s)' = Documents(s) /\ Present(s)'
        BY <1>1, <4>1 DEF Documents, Present
      <4>3. Integral(s)'
        BY <1>1, <2>6, <3>3, <4>1 DEF Integral, Passed, Upstream
      <4>4. prov'[s].of = Fingerprint(s, target', observations', Documents(s)')
        BY <1>1, <1>2, <1>3, <4>1, <4>2 DEF print
      <4>5. Matching(s)'
        BY <1>1, <1>2, <1>3, <4>1, <4>4 DEF Matching
      <4>6. prov'[s] # NoEntry
        BY <1>2, <1>3
      <4> QED
        BY <3>3, <4>2, <4>3, <4>5, <4>6 DEF OwnStatus
    <3> QED
      BY <3>1, <3>2, <3>3
  <2>7. quiet /\ result'["inventory"] \in {"pending"} \cup Good
           => observations'.evidence # "none"
    BY <1>1, <1>6, <2>1, <2>2 DEF PassedAreCurrent, Tasks, Stages
  <2>8. PassedAreCurrent'
    BY <1>1, <2>6, <2>7 DEF PassedAreCurrent
  <2> QED
    BY <1>n, <2>4, <2>5, <2>8
<1> QED
  BY <1>5, <1>6

\* The business logic of a report: the backlog keeps its provenance.
LEMMA BehaveKeeps ==
    ASSUME ReportInv, Behave
    PROVE  ReportInv'
<1> USE DEF ReportInv
<1> DEFINE doc == Analysed(file["hypotheses"])
<1>1. /\ mode # "none" /\ run = Idle /\ run' = run /\ Present("hypotheses")
      /\ UNCHANGED <<target, observations, prov, mode, quiet>>
      /\ file' = [file EXCEPT !["hypotheses"] = doc]
      /\ result' = [result EXCEPT !["behavior"] = "made"]
  BY DEF Behave, BehaviorDue, BehaviorTurn, AnalyzeLogic, LogicInputs, inputVars
<1>3. doc.edit # "open"
  BY DEF Analysed
<1>4. doc # Absent
  <2>1. "made" \in DOMAIN doc /\ "made" \notin DOMAIN Absent
    BY DEF Analysed, Absent
  <2> QED
    BY <2>1
<1> HIDE DEF doc
<1>5. /\ file'["hypotheses"] = doc /\ \A x \in Stages \ {"hypotheses"} : file'[x] = file[x]
  BY <1>1 DEF InventoryInv, IInv, Shapes, Stages
<1>6. /\ result' = [x \in Tasks |-> result'[x]]
      /\ \A x \in Stages : result'[x] = result[x]
  BY <1>1, StageOrder DEF InOrder
<1>n. InventoryInv'
  <2>1. Next
    BY DEF Behave, Next
  <2> QED
    BY <2>1, NextInventory
<1>7. InOrder'
  BY <1>1, <1>6, StageOrder DEF InOrder, Upstream
<1>8. Undisturbed'
  BY <1>1 DEF Undisturbed
<1>9. ASSUME quiet, NEW x \in Stages, Passed(x)' PROVE OwnStatus(x)' = "COMPLETE"
  <2>1. \A u \in Stages \ {"hypotheses"} : file'[u] = file[u]
    BY <1>5
  <2>2. Passed(x)
    <3> SUFFICES ASSUME NEW u \in Upstream(x)
                 PROVE  result[u] \in Good /\ (u # "hypotheses" => file[u].edit = "none")
      BY DEF Passed
    <3>1. u \in Stages
      BY StageOrder
    <3> QED
      BY <1>6, <1>9, <2>1, <3>1 DEF Passed
  <2>3. OwnStatus(x) = "COMPLETE"
    BY <1>1, <1>9, <2>2 DEF PassedAreCurrent
  <2>4. CASE x # "hypotheses"
    <3>1. "hypotheses" \notin Upstream(x)
      BY <2>4 DEF Upstream, Sources, Stages
    <3>2. \A u \in Upstream(x) : file'[u] = file[u]
      BY <2>1, <3>1, StageOrder
    <3> QED
      BY <1>1, <2>3, <3>2, StatusStands
  <2>5. CASE x = "hypotheses"
    <3>1. Matching(x)
      BY <2>3 DEF OwnStatus
    <3>2. Documents(x)' = Documents(x)
      BY <2>1, StageOrder DEF Documents, Upstream, Stages, Sources
    <3>3. prov'[x] # NoEntry /\ Present(x)' /\ Integral(x)'
      BY <1>1, <1>3, <1>4, <1>5, <2>5, <3>1 DEF Matching, Present, Integral
    <3>4. Matching(x)'
      BY <1>1, <2>5, <3>1, <3>2 DEF Matching
    <3> QED
      BY <3>3, <3>4 DEF OwnStatus
  <2> QED
    BY <2>4, <2>5
<1>10. PassedAreCurrent'
  BY <1>1, <1>6, <1>9 DEF PassedAreCurrent, Stages
<1> QED
  BY <1>n, <1>7, <1>8, <1>10


\* Where no report is under way, or something disturbed it, only the order of
\* its decisions is to be seen to.
LEMMA OutsideAReport ==
    ASSUME ReportInv, [Next]_vars, InOrder', mode' = "none" \/ ~quiet'
    PROVE  ReportInv'
<1>1. InventoryInv'
  BY NextInventory DEF ReportInv
<1> QED
  BY <1>1 DEF ReportInv, Undisturbed, PassedAreCurrent

LEMMA NextReport == ReportInv /\ [ReportNext]_allVars => ReportInv'
<1> SUFFICES ASSUME ReportInv, [ReportNext]_allVars PROVE ReportInv'
  OBVIOUS
<1> USE DEF ReportInv
<1>s. [Next]_vars
  BY ReportsStep
<1>1. CASE Start
  <2> DEFINE settled == IF observations.evidence = "none"
                        THEN [Pending EXCEPT !["inventory"] = "unavailable"] ELSE Pending
  <2>1. /\ run = Idle /\ mode = "none" /\ UNCHANGED vars /\ result' = settled
    BY <1>1 DEF Start, Begin
  <2>2. /\ settled = [x \in Tasks |-> settled[x]]
        /\ \A x \in Tasks \ {"inventory"} : settled[x] = "pending"
        /\ settled["inventory"] \in {"pending", "unavailable"}
        /\ observations.evidence = "none" => settled["inventory"] = "unavailable"
    BY DEF Pending, Tasks, Stages
  <2> HIDE DEF settled
  <2>3. InventoryInv'
    BY <1>s, NextInventory
  <2>4. mode' # "none"
    BY <1>1, ReportAssumption DEF Start
  <2>5. InOrder'
    BY <2>1, <2>2, <2>4 DEF InOrder, Tasks, Sources, Stages, vars
  <2>6. Undisturbed'
    BY <2>1 DEF Undisturbed, vars
  <2>7. \A x \in Stages : ~Passed(x)'
    BY <2>1, <2>2, StageOrder DEF Passed, Good
  <2>8. PassedAreCurrent'
    BY <2>1, <2>2, <2>7 DEF PassedAreCurrent, Good, vars, inputVars
  <2> QED
    BY <2>3, <2>5, <2>6, <2>8
<1>2. ASSUME NEW s \in Stages, Deciding(s) \/ Continue(s) \/ Complete(s) PROVE ReportInv'
  BY <1>2, DecidingKeeps, ContinueKeeps, CompleteKeeps
<1>3. CASE Behave
  BY <1>3, BehaveKeeps
<1>4. CASE PassOver
  <2> DEFINE s == "behavior"
             r == "unavailable"
  <2>1. /\ Settle(s, r) /\ mode # "none" /\ run = Idle /\ result[s] = "pending"
        /\ s \in Tasks /\ s \notin Stages /\ r # "pending"
    BY <1>4 DEF PassOver, BehaviorTurn, Tasks, Stages
  <2> HIDE DEF s, r
  <2> QED
    BY <2>1, SettleKeeps
<1>5. CASE Finish \/ Kill
  <2>1. mode' = "none" /\ result' = Pending
    BY <1>5 DEF Finish, Kill
  <2>2. InOrder'
    BY <2>1 DEF InOrder, Pending, Tasks, Stages
  <2> QED
    BY <1>s, <2>1, <2>2, OutsideAReport
<1>6. CASE Fail
  <2> DEFINE s == run.stage
  <2>1. /\ run # Idle /\ run' = Idle /\ mode # "none"
        /\ UNCHANGED <<target, observations, file, prov, mode, quiet>>
        /\ result' = [result EXCEPT ![s] = "unavailable"]
    BY <1>6 DEF Fail, Abort, inputVars
  <2>2. /\ s \in Stages /\ result[s] = "pending"
        /\ \A d \in Sources(s) : result[d] # "pending"
    BY <2>1 DEF InOrder
  <2>3. /\ result' = [x \in Tasks |-> result'[x]] /\ result'[s] = "unavailable"
        /\ \A x \in Tasks \ {s} : result'[x] = result[x]
    BY <2>1, <2>2, StageOrder DEF InOrder
  <2> HIDE DEF s
  <2>4. ASSUME NEW x \in Stages, result'[x] # "pending", NEW d \in Sources(x)
        PROVE  result'[d] # "pending"
    <3>1. x \in Tasks /\ d \in Tasks
      BY StageOrder DEF Upstream
    <3>2. result[d] # "pending" \/ d = s
      BY <2>2, <2>3, <2>4, <3>1 DEF InOrder
    <3> QED
      BY <2>3, <3>1, <3>2
  <2>5. InOrder'
    BY <2>1, <2>3, <2>4 DEF InOrder
  <2>6. InventoryInv'
    BY <1>s, NextInventory
  <2>7. Undisturbed'
    BY <2>1 DEF Undisturbed
  <2>8. ASSUME NEW x \in Stages, Passed(x)' PROVE Passed(x)
    <3>1. s \notin Upstream(x)
      BY <2>3, <2>8 DEF Passed, Good
    <3>2. \A u \in Upstream(x) : result'[u] = result[u]
      BY <2>3, <3>1, StageOrder
    <3> QED
      BY <2>1, <2>8, <3>2 DEF Passed
  <2>9. result'["inventory"] \in {"pending"} \cup Good
           => result["inventory"] \in {"pending"} \cup Good
    BY <2>3 DEF Good, Tasks, Stages
  <2>10. PassedAreCurrent'
    BY <2>1, <2>8, <2>9, PassedStands
  <2> QED
    BY <2>5, <2>6, <2>7, <2>10
<1>7. ASSUME LogicCommand \/ \E s \in Stages : Command(s) PROVE ReportInv'
  <2>1. mode = "none" /\ mode' = mode /\ result' = result
    BY <1>7 DEF LogicCommand, Command, Begin
  <2>2. InOrder'
    BY <2>1 DEF InOrder
  <2> QED
    BY <1>s, <2>1, <2>2, OutsideAReport
<1>8. CASE ResearcherActs
  <2>1. mode' = mode /\ result' = result /\ run' = run /\ quiet' = (mode = "none")
    BY <1>8 DEF ResearcherActs, Researcher, ChangeSetting, ChangeEvidence, EditArtifact,
                DeleteArtifact
  <2>2. InOrder'
    BY <2>1 DEF InOrder
  <2> QED
    BY <1>s, <2>1, <2>2, OutsideAReport
<1>9. CASE UNCHANGED allVars
  <2>1. UNCHANGED <<target, observations, file, prov, run, mode, result, quiet>>
    BY <1>9 DEF allVars, vars, reportVars
  <2>2. InOrder'
    BY <2>1 DEF InOrder
  <2>3. Undisturbed'
    BY <2>1 DEF Undisturbed, Documents, Present
  <2>4. PassedAreCurrent'
    BY <2>1, PassedStands DEF Passed
  <2>5. InventoryInv'
    BY <1>s, NextInventory
  <2> QED
    BY <2>2, <2>3, <2>4, <2>5
<1> QED
  BY <1>1, <1>2, <1>3, <1>4, <1>5, <1>6, <1>7, <1>8, <1>9 DEF ReportNext, Working

LEMMA InitReportInv == InitReport => ReportInv
<1> SUFFICES ASSUME InitReport PROVE ReportInv
  OBVIOUS
<1>1. InventoryInv
  BY InitInventory DEF InitReport
<1>2. InOrder /\ Undisturbed /\ PassedAreCurrent
  BY DEF InitReport, InOrder, Undisturbed, PassedAreCurrent, Pending, Tasks, Stages
<1> QED
  BY <1>1, <1>2 DEF ReportInv

\* A stage a report went through is COMPLETE because all it stands on is.
LEMMA PassedIsComplete ==
    ASSUME ReportInv, mode # "none", quiet, NEW s \in Stages,
           \A u \in Upstream(s) : result[u] \in Good,
           \A u \in Upstream(s) \ {"hypotheses"} : file[u].edit = "none"
    PROVE  Status(s) = "COMPLETE"
<1>1. \A u \in Upstream(s) : Passed(u)
  BY StageOrder DEF Passed, Upstream
<1>2. \A u \in Upstream(s) : OwnStatus(u) = "COMPLETE"
  BY <1>1, StageOrder DEF ReportInv, PassedAreCurrent
<1>3. observations.evidence # "none"
  BY StageOrder DEF ReportInv, PassedAreCurrent
<1>4. InventoryStatus = "COMPLETE"
  BY <1>2, <1>3, StageOrder DEF InventoryStatus
<1>5. CASE s = "inventory"
  BY <1>4, <1>5 DEF Status
<1>6. CASE s = "model"
  BY <1>2, <1>4, <1>6 DEF Status, ModelStatus, Dependent, Upstream, Sources
<1>7. CASE s = "invariants"
  BY <1>2, <1>4, <1>7
     DEF Status, ModelStatus, InvariantStatus, Dependent, Upstream, Sources
<1>8. CASE s = "hypotheses"
  BY <1>2, <1>4, <1>8
     DEF Status, ModelStatus, InvariantStatus, HypothesisStatus, Dependent, Upstream, Sources
<1> QED
  BY <1>5, <1>6, <1>7, <1>8 DEF Stages

\* When a report ends that nothing disturbed, what it reused or regenerated is
\* COMPLETE: _execute_stage, in whatever mode and order, runs nothing later
\* that takes back the status of a stage it has been through.
THEOREM ReportsLeaveStagesCurrent == ReportSpec => []ReportLeavesCurrent
<1>1. ReportInv => ReportLeavesCurrent
  BY PassedIsComplete DEF ReportLeavesCurrent, Good
<1>2. InitReport => ReportInv
  BY InitReportInv
<1>3. ReportInv /\ [ReportNext]_allVars => ReportInv'
  BY NextReport
<1> QED
  BY <1>1, <1>2, <1>3, PTL DEF ReportSpec
=============================================================================
