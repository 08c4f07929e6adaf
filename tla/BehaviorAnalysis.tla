---------------------------- MODULE BehaviorAnalysis ----------------------------
(***************************************************************************)
(* `hunt workflows build` and `hunt logic analyze` as commands over a      *)
(* workspace: captures are imported, the inventory is taken, the behavior  *)
(* is reconstructed from both, and the hypotheses found in it are merged   *)
(* into the backlog, where their status is decided.  A command may be      *)
(* killed between any two of its writes.                                   *)
(*                                                                         *)
(* A derived file holds the snapshot it was made from: the captures that   *)
(* were imported and the ones the inventory covered.  What it says is      *)
(* Results[snapshot].  Commands run one at a time, and nobody edits the    *)
(* rows of the backlog (HypothesisBacklog has that).                       *)
(***************************************************************************)
EXTENDS HypothesisClusters

CONSTANTS Captures,     \* capture identifiers
          Exchanges,    \* the exchanges of each capture
          Endpoints,    \* what the inventory can know, without sources
          Surroundings, \* the rest of what the analysis reads
          Table,        \* ResultTable
          Decisions,    \* statuses a plan or a validation gives
          MaxRuns,      \* bound on builds and analyses
          MaxDecisions  \* bound on decisions

VARIABLES imported, \* captures in observations.yaml
          surveyed, \* captures endpoints.yaml was made from
          built,    \* the reconstruction's files: snapshot of each
          invariants,    \* business-invariants.yaml: its snapshot
          logic,    \* business-logic.yaml: snapshot and epistemic states
          backlog,  \* the BLH rows of backlog.yaml
          at,       \* the running command and its next write
          runs, decided

vars == <<imported, surveyed, built, invariants, logic, backlog, at, runs, decided>>

-----------------------------------------------------------------------------
(* What a snapshot leads to                                                *)

ExchangesIn(S) == UNION {Exchanges[c] : c \in S}
IdsIn(S) == {x.id : x \in ExchangesIn(S)}

\* extract_exchange_facts: the facts of the imported exchanges.
FactsOf(s) ==
    [i \in IdsIn(s[1]) |-> Facts(CHOOSE x \in ExchangesIn(s[1]) : x.id = i, IdsIn(s[2]))]

\* Endpoints the inventory made, with their source observations.
Inventoried(K) ==
    LET Sources(e) == {x.id : x \in {y \in ExchangesIn(K) : y.endpoint.id = e.id}}
    IN {e @@ [sources |-> Sources(e)] : e \in {d \in Endpoints : Sources(d) # {}}}

\* _load_inputs, without what the reconstruction wrote
Inputs(S, K) ==
    Surroundings @@
    [endpoints |-> Inventoried(K),
     observations |-> {[id |-> x.id, actor |-> x.actor, capture |-> x.capture] :
                         x \in ExchangesIn(S)},
     authenticated |-> {x.id : x \in {y \in ExchangesIn(S) : y.actor # "UNKNOWN"}}]

Snapshots == UNION {{<<S, K>> : K \in SUBSET S} : S \in SUBSET Captures}

\* What build_behavior_model reconstructs is Reconstruction(ActiveFacts(
\* FactsOf(s))); what analyze_business_logic makes of it:
AnalysisOf(M, s) == Analysis(M, Inputs(s[1], s[2]))

\* _weakness_family: these do not depend on the workflow.
Weakness(mutation) ==
    CASE mutation \in {"ACTOR_SWITCH", "RESOURCE_SWITCH"} -> "AUTHORIZATION_BOUNDARY"
      [] mutation = "QUANTITY_VALUE_INVARIANT" -> "VALUE_VALIDATION"
      [] mutation \in {"REPLAY", "DUPLICATE_ACTION", "CONCURRENT_EXECUTION"} ->
            "SINGLE_EXECUTION"
      [] OTHER -> mutation

\* The exact key of _descriptor: what is tested where, and in which workflow.
ExactKey(h) ==
    [endpoints |-> {<<e.method, e.route>> : e \in {d \in Endpoints : d.id \in h.endpoints}},
     operator |-> h.mutation,
     workflow |-> IF Weakness(h.mutation) \in {"AUTHORIZATION_BOUNDARY", "VALUE_VALIDATION"}
                    THEN <<>> ELSE <<h.family, h.action>>]

\* _backlog_draft: only the representative of a shown cluster is presented.
Disposition(h, c) ==
    FirstRule(<< <<c.representative # h.id, "SUPPRESSED_DUPLICATE">>,
                 <<~Shown(c), "SUPPRESSED_INSUFFICIENT_EVIDENCE">>,
                 <<h.kind = "SECURITY_HYPOTHESIS", "ACTIVE">> >>, "NEEDS_RESEARCH")

Drafted(h, clusters) ==
    [disposition |-> Disposition(h, CHOOSE c \in clusters : h.id \in c.members),
     kind |-> h.kind, epistemic |-> h.epistemic, key |-> ExactKey(h), score |-> Total(h.score)]

\* What the commands write.  number stands for the hash that makes a
\* hypothesis's identifier.
ResultOf(M, analysis, number) ==
    LET Numbered(c) == [shown |-> Shown(c), members |-> {number[id] : id \in c.members},
                        representative |-> number[c.representative]]
        The(n) == CHOOSE h \in analysis.hypotheses : number[h.id] = n
    IN [model |-> M,
        drafts |-> [n \in {number[h.id] : h \in analysis.hypotheses} |->
                      Drafted(The(n), analysis.clusters)],
        clusters |-> {Numbered(c) : c \in analysis.clusters},
        rejections |-> analysis.rejections]

Now == <<imported, surveyed>>
None == <<{}, {}>>

\* What each snapshot leads to (@@ keeps a function's values instead of its
\* definition).
ResultTable ==
    LET models == [s \in Snapshots |->
                     Reconstruction(ActiveFacts(FactsOf(s) @@ << >>) @@ << >>)] @@ << >>
        analyses == [s \in Snapshots |-> AnalysisOf(models[s], s)] @@ << >>
        number == FoldSet(LAMBDA id, ids : ids @@ (id :> Cardinality(DOMAIN ids) + 1), << >>,
                          UNION {{h.id : h \in analyses[s].hypotheses} : s \in Snapshots})
    IN [s \in Snapshots |->
          [ResultOf(models[s], analyses[s], number) EXCEPT !.drafts = @ @@ << >>]] @@ << >>

\* The same, evaluated once: every step reads it.
Results == Table

Model(s) == Results[s].model
Found(s) == DOMAIN Results[s].drafts

\* _base_visible
BaseVisible(row) ==
    row.disposition = "ACTIVE" \/ (row.disposition = "NEEDS_RESEARCH"
                                   /\ row.kind = "RESEARCH_TASK")

\* What an analysis drafts: of each cluster worth showing the representative
\* is presented and nobody else, and a score has four parts from one to five.
WellDrafted(result) ==
    /\ \A n \in DOMAIN result.drafts : result.drafts[n].score \in 4..20
    /\ \A c \in result.clusters :
          /\ c.representative \in c.members /\ c.members \subseteq DOMAIN result.drafts
          /\ \A n \in c.members :
                BaseVisible(result.drafts[n]) <=> c.shown /\ n = c.representative

ASSUME TableAssumption == \A s \in Snapshots : WellDrafted(Table[s])

-----------------------------------------------------------------------------
(* The rows of the backlog                                                 *)

EpistemicOf == [NOT_TESTED |-> "TEST_CANDIDATE", TEST_PLANNED |-> "TEST_PLANNED",
                REFUTED |-> "REJECTED_BY_BACKEND", NEEDS_EVIDENCE |-> "NEEDS_EVIDENCE",
                CONFIRMED |-> "CONFIRMED"]
Kept == {"TEST_PLANNED", "NEEDS_EVIDENCE", "REJECTED_BY_BACKEND", "CONFIRMED"}

\* A row drafted from a snapshot.  drafted is where the rest of its text is
\* from.
Draft(s, n, epistemic) ==
    LET d == Results[s].drafts[n]
    IN [disposition |-> d.disposition, kind |-> d.kind, epistemic |-> epistemic,
        status |-> "NOT_TESTED", visible |-> FALSE, drafted |-> s]

\* Faulty: a merged row starts over.
MergedAnew(row, draft) == draft

\* merge_generated_records with its preserved fields
Merged(row, draft) == [draft EXCEPT !.status = row.status, !.epistemic = row.epistemic]

\* Faulty: a row that lost its pattern is still presented.
RetiredInKind(row) == [row EXCEPT !.epistemic = "RESEARCH_TASK"]

\* A row whose pattern the evidence no longer shows.
Retired(row) ==
    [row EXCEPT !.kind = "RESEARCH_TASK", !.epistemic = "RESEARCH_TASK",
                !.disposition = "SUPPRESSED_INSUFFICIENT_EVIDENCE"]

Content(n, row) == Results[row.drafted].drafts[n]

\* _primary
Primary(ids, rows) ==
    LET Order(n) == <<IF BaseVisible(rows[n]) THEN 1 ELSE 0,
                      IF rows[n].kind = "SECURITY_HYPOTHESIS" THEN 1 ELSE 0,
                      Content(n, rows[n]).score>>
        Above(m, n) == \E i \in 1..3 : /\ Order(m)[i] > Order(n)[i]
                                       /\ \A j \in 1..(i - 1) : Order(m)[j] = Order(n)[j]
    IN CHOOSE n \in ids : ~\E m \in ids : Above(m, n)

\* finalize_hypothesis_store: of rows that test exactly the same, one shows.
Finalized(rows) ==
    LET Alike(n) == {m \in DOMAIN rows : Content(m, rows[m]).key = Content(n, rows[n]).key}
    IN [n \in DOMAIN rows |->
          [rows[n] EXCEPT !.visible = BaseVisible(rows[n]) /\ Primary(Alike(n), rows) = n]]

\* The drafts, merged with the rows they find, and the rows no draft is for.
Updated(rows, s, said) ==
    [n \in Found(s) \cup DOMAIN rows |->
       IF n \notin Found(s) THEN Retired(rows[n])
       ELSE IF n \in DOMAIN rows THEN Merged(rows[n], Draft(s, n, said[n]))
       ELSE Draft(s, n, said[n])]

\* _sync_backlog
Synced(rows, s, said) == Finalized(Updated(rows, s, said))

\* The epistemic states an analysis writes: decided ones are kept from the
\* file it is about to replace.
Said(s) ==
    [n \in Found(s) |->
       IF n \in DOMAIN logic.said /\ logic.said[n] \in Kept
         THEN logic.said[n] ELSE Results[s].drafts[n].epistemic]

-----------------------------------------------------------------------------
(* The commands                                                            *)

\* The graphs go to a file per family, which count as one here; those of a
\* family that is gone stay, and nothing reads them.
Artifacts == <<"actions", "resources", "propagation", "instances", "families", "states",
               "transitions", "graphs">>

Idle == [command |-> "none", step |-> 0, id |-> 0, says |-> ""]
Running(command) == at.command = command
Go(step) == at' = [at EXCEPT !.step = step]

Init ==
    /\ imported = {} /\ surveyed = {}
    /\ built = [a \in Range(Artifacts) |-> None]
    /\ invariants = None
    /\ logic = [of |-> None, said |-> << >>] /\ backlog = << >>
    /\ at = Idle /\ runs = 0 /\ decided = 0

Import(c) ==
    /\ at = Idle /\ c \notin imported
    /\ imported' = imported \cup {c}
    /\ UNCHANGED <<surveyed, built, invariants, logic, backlog, at, runs, decided>>

Inventory ==
    /\ at = Idle /\ surveyed # imported
    /\ surveyed' = imported
    /\ UNCHANGED <<imported, built, invariants, logic, backlog, at, runs, decided>>

\* build_behavior_model refuses an empty workspace or inventory.
Start(command) ==
    /\ at = Idle /\ imported # {} /\ surveyed # {} /\ runs < MaxRuns
    /\ at' = [Idle EXCEPT !.command = command]
    /\ runs' = runs + 1
    /\ UNCHANGED <<imported, surveyed, built, invariants, logic, backlog, decided>>

Build == Start("build")
Analyze == Start("analyze")

WriteArtifact ==
    /\ at.command \in {"build", "analyze"} /\ at.step < Len(Artifacts)
    /\ built' = [built EXCEPT ![Artifacts[at.step + 1]] = Now]
    /\ IF Running("build") /\ at.step + 1 = Len(Artifacts) THEN at' = Idle
       ELSE Go(at.step + 1)
    /\ UNCHANGED <<imported, surveyed, invariants, logic, backlog, runs, decided>>

WriteRules ==
    /\ Running("analyze") /\ at.step = 8
    /\ invariants' = Now /\ Go(9)
    /\ UNCHANGED <<imported, surveyed, built, logic, backlog, runs, decided>>

WriteLogic ==
    /\ Running("analyze") /\ at.step = 9
    /\ logic' = [of |-> Now, said |-> Said(Now)] /\ Go(10)
    /\ UNCHANGED <<imported, surveyed, built, invariants, backlog, runs, decided>>

\* The backlog; business-logic.yaml is then written again with the
\* readiness of the rows, which the model leaves out.
SyncBacklog ==
    /\ Running("analyze") /\ at.step = 10
    /\ backlog' = Synced(backlog, Now, logic.said) /\ at' = Idle
    /\ UNCHANGED <<imported, surveyed, built, invariants, logic, runs, decided>>

\* update_hypothesis_status: the backlog first,
DecideRow(id, status) ==
    /\ at = Idle /\ decided < MaxDecisions /\ backlog[id].status # status
    /\ backlog' = [backlog EXCEPT ![id].status = status,
                                  ![id].epistemic = EpistemicOf[status]]
    /\ at' = [command |-> "decide", step |-> 0, id |-> id, says |-> EpistemicOf[status]]
    /\ decided' = decided + 1
    /\ UNCHANGED <<imported, surveyed, built, invariants, logic, runs>>

\* then business-logic.yaml, when it has the hypothesis.
DecideLogic ==
    /\ Running("decide")
    /\ logic' = IF at.id \in DOMAIN logic.said THEN [logic EXCEPT !.said[at.id] = at.says]
                ELSE logic
    /\ at' = Idle
    /\ UNCHANGED <<imported, surveyed, built, invariants, backlog, runs, decided>>

\* Killed between two writes.
Kill ==
    /\ at # Idle /\ at' = Idle
    /\ UNCHANGED <<imported, surveyed, built, invariants, logic, backlog, runs, decided>>

Next ==
    \/ \E c \in Captures : Import(c)
    \/ Inventory \/ Build \/ Analyze
    \/ WriteArtifact \/ WriteRules \/ WriteLogic \/ SyncBacklog
    \/ \E id \in DOMAIN backlog, status \in Decisions : DecideRow(id, status)
    \/ DecideLogic \/ Kill

Spec == Init /\ [][Next]_vars

-----------------------------------------------------------------------------
(* Properties                                                              *)

\* What a snapshot shows is judged once and looked up in every state.

CausalIn(M) ==
    LET active == UNION {a.observations : a \in M.actions}
        normal == {x.id : x \in {y \in ExchangesIn(Captures) :
                                    y.id \in active /\ Normal([x |-> y])}}
        linked == {{l.from, l.to} : l \in {k \in M.links : Merges(k)}}
        Crosses(e, T) == e \subseteq normal /\ e \cap T # {} /\ e \ T # {}
    IN /\ normal = UNION {Range(j.id) : j \in M.journeys}
       /\ \A j \in M.journeys :
             /\ Cardinality(j.actors) = 1
             /\ \A T \in SUBSET Range(j.id) \ {{}} :
                   (\E e \in linked : Crosses(e, T)) <=> T # Range(j.id)

Causal == {s \in Snapshots : CausalIn(Model(s))}

\* A journey is what the causal links connect and nothing more: its exchanges
\* are ordinary traffic of one actor, each exchange belongs to one journey,
\* and two of them share one exactly when a chain of admissible links joins
\* them, in whatever order the links were found.
JourneysAreCausal == built["instances"] \in Causal

Separate ==
    LET Own(a) == {c \in Captures : \A x \in Exchanges[c] : x.actor = a}
    IN {s \in Snapshots : \A a \in DOMAIN Surroundings.role :
          {j \in Model(s).journeys : j.actors = {a}}
             = Model(<<s[1] \cap Own(a), s[2] \cap Own(a)>>).journeys}

\* The journeys of an actor do not depend on what others did: another
\* account's use of the same identifiers neither joins nor splits them.
JourneysIgnoreOthers == built["instances"] \in Separate

Unanimous ==
    {s \in Snapshots : \A f \in Model(s).families :
       \A p \in f.needs : p.counterexamples = {} /\ p.support = p.comparable}

\* What a family takes for a prerequisite held in every journey that took
\* both steps, so no ordering rule is contradicted by its own evidence.
PrerequisitesAreUnanimous == built["families"] \in Unanimous

\* The queue asks each question once: no row of a pattern the evidence lost
\* shows, the shown rows come from one analysis, no two of a cluster show,
\* and a cluster worth showing has a row, or one that tests the same.
QueueAsksEachQuestionOnce ==
    LET shown == {n \in DOMAIN backlog : backlog[n].visible}
        Key(n) == Content(n, backlog[n]).key
        analyses == {backlog[n].drafted : n \in shown}
    IN /\ Cardinality(analyses) <= 1
       /\ \A s \in analyses : \A c \in Results[s].clusters :
             /\ Cardinality(c.members \cap shown) <= (IF c.shown THEN 1 ELSE 0)
             /\ c.shown => \E m \in shown : Key(m) = Results[s].drafts[c.representative].key

\* What a plan or a validation decided of a hypothesis outlives every
\* analysis, also one that no longer finds its pattern and a later one that
\* finds it again; while it is found, its epistemic state stays too.
DecisionsOutliveAnalyses ==
    [][at.command # "none" =>
         \A id \in DOMAIN backlog :
            /\ id \in DOMAIN backlog' /\ backlog'[id].status = backlog[id].status
            /\ id \in Found(Now) => backlog'[id].epistemic = backlog[id].epistemic]_vars

\* analysis.py refuses a mutation with the words "Fewer than two distinct
\* controlled resource lifecycles exist": the journeys of the family then
\* name one set of resources at most.
RejectionsAreTrue ==
    LET M == Model(logic.of)
        Named(j) == UNION {st.resources : st \in Range(j.steps)}
    IN \A r \in Results[logic.of].rejections :
          "fewer_than_two_lifecycles" \in r.reasons
             => Cardinality({Named(j) : j \in JourneysOf(FamilyNamed(r.family, M), M)} \ {{}}) < 2
=============================================================================
