---------------------------- MODULE CaptureSessions ----------------------------
(***************************************************************************)
(* Passive import and session captures (ingest/, workflow.py, the import   *)
(* commands of cli.py, captures/service.py).  A command imports files of   *)
(* exchanges one after the other; each becomes observations, then one      *)
(* capture; the inventory later refines what is known of every capture.    *)
(* The truth is in two files, observations.yaml and captures.yaml, written *)
(* one after the other, and in the manifest of confirmed assignments.  A   *)
(* command may be killed or fail between any two of its writes.            *)
(*                                                                         *)
(* The observations of a file are imported, labelled and associated        *)
(* together, so they are one record; their identity is the content of the  *)
(* file.  A file without exchanges stands for one the reader refuses.      *)
(***************************************************************************)
EXTENDS CaptureAnalysis, ExchangeReading, SequencesExt

CONSTANTS Files,    \* contents of capture files
          Names,    \* names under incoming/
          Actors, Modes,
          Directs,  \* assignments given to hunt ingest
          Manuals,  \* answers given in the wizard
          Entries,  \* manifest entries written by hand
          Hints,   \* what a name says: [actor, marker]
          Exchanges, \* single exchanges the readers are compared on
          Journeys, \* possible traffic: Files -> set of exchanges
          Policies, \* target.capture_policy
          MaxImports

\* The fields of an exchange, see CaptureAnalysis.
IsExchange(e) ==
    e = [id |-> e.id, position |-> e.position, method |-> e.method, status |-> e.status,
         path |-> e.path, outside |-> e.outside, endpoint |-> e.endpoint,
         domain |-> e.domain]

ASSUME CaptureAssumption ==
    /\ {"NORMAL_BEHAVIOR", "RESEARCHER_PROBE", "AUTHENTICATION", "MIXED", "UNKNOWN"}
          \subseteq Modes
    /\ Modes \cap {"no", "unset"} = {}
    /\ IsFiniteSet(Names)
    /\ \A a \in Directs \cup Manuals \cup Entries : a.mode \in Modes \cup {"unset"}
    /\ \A j \in Journeys, f \in Files :
          \A d, e \in j[f] : IsExchange(e) /\ (d.id = e.id => d = e)
    /\ "UNKNOWN" \in Actors
    /\ Policies \subseteq [mode : Modes, infer : BOOLEAN]
    /\ MaxImports \in Nat

VARIABLES journey,  \* the traffic of this behaviour
          policy,
          incoming, \* the content under each name
          manifest, \* workflow.yaml, per name
          obs,      \* observations.yaml, per file
          registry, \* captures.yaml, per file
          known,    \* files whose exchanges endpoints.yaml resolves
          cmd,
          torn,     \* history: the mode of an import that was cut short
          whole,    \* history: the command that last settled both files
          imports

vars == <<journey, policy, incoming, manifest, obs, registry, known, cmd, torn,
          whole, imports>>
settings == <<journey, policy, incoming>>

Absent == [none |-> TRUE]
NoCapture == [none |-> TRUE]
Idle == [pc |-> "idle"]
Undeclared == [none |-> TRUE]
NoEntry == [none |-> TRUE]

Ids(f) == {e.id : e \in journey[f]}

-----------------------------------------------------------------------------
(* captures/domain.py: what downstream engines make of an observation      *)

Probe(o) == o.mode \in {"RESEARCHER_PROBE", "MIXED"}

\* An observation without a capture is from before captures: a fact.
SupportsPassiveBaseline(o, e) ==
    /\ ~Probe(o) /\ e.method \notin Protocol
    /\ IF o.mode = "UNKNOWN" THEN ~o.captured
       ELSE o.relevance[e.id] \notin {"CONTEXT", "NOISE", "PROTOCOL_SUPPORT"}

SupportsNormalBehavior(o, e) ==
    /\ e.method \notin Protocol
    /\ IF o.mode = "UNKNOWN" THEN ~o.captured
       ELSE /\ o.mode = "NORMAL_BEHAVIOR"
            /\ o.relevance[e.id] \notin {"CONTEXT", "NOISE", "PROTOCOL_SUPPORT"}

SupportsOwnership(o, e) ==
    /\ e.method \notin Protocol
    /\ \/ ~o.captured /\ o.mode = "UNKNOWN"
       \/ /\ o.mode = "NORMAL_BEHAVIOR"
          /\ o.relevance[e.id] \notin {"CONTEXT", "NOISE", "PROTOCOL_SUPPORT"}

Counts(o, e) == \/ SupportsPassiveBaseline(o, e) \/ SupportsNormalBehavior(o, e)
                \/ SupportsOwnership(o, e)

-----------------------------------------------------------------------------
(* captures/service.py                                                     *)

\* _signals: without the inventory an exchange is only what it looks like,
\* and a domain rule is found through the endpoint.
Raw(e) == [e EXCEPT !.endpoint = NoEndpoint, !.domain = NoRule]
Signals(f, resolved) ==
    IF resolved THEN journey[f] ELSE {Raw(e) : e \in journey[f]}

\* _contextual_relevance: an intent nobody stands behind is no context.
ContextualRelevance(signals, intent, anchors, context) ==
    LET stated == \/ context.modeSource = "USER"
                  \/ context.declared # Undeclared /\ context.declared.source = "USER"
        usable == policy.infer \/ context.declared # Undeclared
    IN [i \in {s.id : s \in signals} |->
           Relevance(CHOOSE s \in signals : s.id = i,
                     IF stated /\ usable THEN intent ELSE NoIntent, anchors)]

\* Faulty: what an earlier import was told is not carried over.
SelectedContextAnew(existing, a) ==
    [actorSource |-> IF a.actorSource # "unset" THEN a.actorSource
                     ELSE IF a.actor # "UNKNOWN" THEN "USER" ELSE "UNKNOWN",
     mode |-> IF a.mode = "unset" THEN policy.mode ELSE a.mode,
     modeSource |-> IF a.mode = "unset" THEN "ENGINE" ELSE "USER",
     declared |-> a.intent]

\* _selected_context, after the default of associate_capture
SelectedContext(existing, a) ==
    LET old == existing # NoCapture IN
    [actorSource |-> IF a.actorSource # "unset" THEN a.actorSource
                     ELSE IF old THEN existing.actorSource
                     ELSE IF a.actor # "UNKNOWN" THEN "USER" ELSE "UNKNOWN",
     mode |-> IF a.mode # "unset" THEN a.mode
              ELSE IF old THEN existing.mode ELSE policy.mode,
     modeSource |-> IF a.mode # "unset" THEN "USER"
                    ELSE IF old THEN existing.modeSource ELSE "ENGINE",
     declared |-> IF a.intent = Undeclared /\ old THEN existing.declared ELSE a.intent]

\* What both associate_capture and refresh_capture_analysis derive.
Judged(actor, context, observed, relevance, signals, ops) ==
    [actor |-> actor, actorSource |-> context.actorSource,
     mode |-> context.mode, modeSource |-> context.modeSource,
     declared |-> context.declared, observed |-> observed, relevance |-> relevance,
     alignment |-> IF context.declared = Undeclared THEN "UNKNOWN"
                   ELSE Alignment(context.declared, observed),
     quality |-> Quality(signals, ops, relevance)
                 \cup (IF context.mode = "MIXED" THEN {"MIXED"} ELSE {})]

Analysed(actor, context, signals, ops, anchors) ==
    Judged(actor, context, Intent(ops, anchors),
           ContextualRelevance(signals, Intent(ops, anchors), anchors, context),
           signals, ops)

CaptureFrom(actor, context, signals, ops) ==
    Analysed(actor, context, signals, ops, Anchors(ops))

CaptureOf(actor, f, context, resolved) ==
    CaptureFrom(actor, context, Signals(f, resolved), Eligible(Signals(f, resolved)))

-----------------------------------------------------------------------------
(* What a command imports                                                  *)

\* captures/preview.py: the mode the wizard proposes for a file
ProposedMode(n, f) ==
    CASE Hints[n].marker = "probe" -> "RESEARCHER_PROBE"
      [] Hints[n].marker = "mixed" -> "MIXED"
      [] OTHER ->
           IF /\ journey[f] # {}
              /\ 2 * Cardinality({e \in journey[f] : e.path.auth}) >= Cardinality(journey[f])
           THEN "AUTHENTICATION" ELSE policy.mode

Proposal(n, f, intent) ==
    [actor |-> Hints[n].actor, actorSource |-> "USER", mode |-> ProposedMode(n, f),
     intent |-> [action |-> intent.action, resource |-> intent.resource,
                 source |-> "USER"]]

\* Only a proposal with an actor and an intent worth something can be accepted.
Acceptable(n, intent) ==
    Hints[n].actor \in Actors /\ policy.infer /\ intent.confidence # "LOW"

PreviewIntent(ops) == Intent(ops, Anchors(ops))

\* _capture_selection: the proposal, or what the researcher answers instead
Selections(n, f) ==
    Manuals \cup
    {Proposal(n, f, i) : i \in {j \in {PreviewIntent(Eligible(Signals(f, FALSE)))} :
                                   Acceptable(n, j)}}

Readable(f) == journey[f] # {}

Item(n, a) == [name |-> n, file |-> incoming[n], with |-> a]

Starting(by, todo) ==
    /\ cmd' = [pc |-> "import", by |-> by, todo |-> todo, done |-> {}, failed |-> FALSE]
    /\ imports' = imports + 1
    /\ UNCHANGED <<settings, manifest, obs, registry, known, torn, whole>>

\* hunt ingest, ingest-burp, ingest-caido
StartDirect ==
    /\ cmd = Idle /\ imports < MaxImports
    /\ \E n \in Names, a \in Directs :
          Starting("direct", <<Item(n, a)>>)

\* hunt ingest-wizard: files not in the manifest, or all; the preview passes
\* over the entries the import will refuse.
StartWizard ==
    /\ cmd = Idle /\ imports < MaxImports
    /\ \E chosen \in SUBSET Names, all \in BOOLEAN :
          /\ chosen # {} /\ \A n \in chosen : all \/ manifest[n] = NoEntry
          /\ \E answer \in [chosen -> UNION {Selections(n, incoming[n]) : n \in chosen}] :
                /\ \A n \in chosen : answer[n] \in Selections(n, incoming[n])
                /\ Starting("wizard", SetToSeq({Item(n, answer[n]) : n \in chosen}))

Listed == {n \in Names : manifest[n] # NoEntry}

\* hunt workflow: every file the manifest lists
StartWorkflow ==
    /\ cmd = Idle /\ imports < MaxImports /\ Listed # {}
    /\ Starting("workflow", SetToSeq({Item(n, manifest[n]) : n \in Listed}))

EditManifest ==
    /\ cmd = Idle
    /\ \E n \in Names, e \in Entries : manifest' = [manifest EXCEPT ![n] = e]
    /\ UNCHANGED <<settings, obs, registry, known, cmd, torn, whole, imports>>

-----------------------------------------------------------------------------
(* One file: append_observations, then associate_capture                   *)

Importing == cmd.pc = "import" /\ cmd.todo # <<>>
Current == Head(cmd.todo)

\* An error ends a direct import; the wizard and the workflow go on.
Refused ==
    IF cmd.by = "direct" THEN Idle
    ELSE [pc |-> "import", by |-> cmd.by, todo |-> Tail(cmd.todo), done |-> cmd.done,
          failed |-> TRUE]

RefuseFile ==
    /\ Importing /\ ~Readable(Current.file)
    /\ cmd' = Refused
    /\ UNCHANGED <<settings, manifest, obs, registry, known, torn, whole, imports>>

\* A known exchange is relabelled in place.
Relabelled(o, actor) ==
    IF o.actor = actor THEN o ELSE [o EXCEPT !.actor = actor, !.session = actor]

Appended(o, item) ==
    IF o # Absent THEN Relabelled(o, item.with.actor)
    ELSE [actor |-> item.with.actor, session |-> item.with.actor, name |-> item.name,
          captured |-> FALSE, mode |-> "UNKNOWN",
          relevance |-> [i \in Ids(item.file) |-> "UNKNOWN"]]

AppendObservations ==
    /\ Importing /\ Readable(Current.file)
    /\ obs' = [obs EXCEPT ![Current.file] = Appended(@, Current)]
    /\ torn' = [torn EXCEPT ![Current.file] = Current.with.mode]
    /\ cmd' = [cmd EXCEPT !.pc = "associate"]
    /\ UNCHANGED <<settings, manifest, registry, known, whole, imports>>

\* Observations are found by their capture, or else by the redacted copy
\* they came with, whose name is that of the file.
Associated(f, n) == obs[f].captured \/ obs[f].name = n

AssociateObservations ==
    /\ cmd.pc = "associate" /\ Associated(Current.file, Current.name)
    /\ LET f == Current.file
           c == CaptureOf(Current.with.actor, f,
                          SelectedContext(registry[f], Current.with), FALSE)
       IN /\ obs' = [obs EXCEPT ![f] =
                        [@ EXCEPT !.captured = TRUE, !.mode = c.mode,
                                  !.relevance = c.relevance,
                                  !.session = Current.with.actor]]
          /\ cmd' = [pc |-> "register", by |-> cmd.by, todo |-> cmd.todo,
                     done |-> cmd.done, failed |-> cmd.failed, capture |-> c]
          /\ whole' = [whole EXCEPT ![f] = "no"]
    /\ UNCHANGED <<settings, manifest, registry, known, torn, imports>>

\* "No observations were associated with the redacted capture."
AssociateNothing ==
    /\ cmd.pc = "associate" /\ ~Associated(Current.file, Current.name)
    /\ cmd' = Refused
    /\ UNCHANGED <<settings, manifest, obs, registry, known, torn, whole, imports>>

RegisterCapture ==
    /\ cmd.pc = "register"
    /\ registry' = [registry EXCEPT ![Current.file] = cmd.capture]
    /\ torn' = [torn EXCEPT ![Current.file] = "no"]
    /\ whole' = [whole EXCEPT ![Current.file] = "import"]
    /\ cmd' = [pc |-> "import", by |-> cmd.by, todo |-> Tail(cmd.todo),
               done |-> cmd.done \cup {Current}, failed |-> cmd.failed]
    /\ UNCHANGED <<settings, manifest, obs, known, imports>>

Finished(by) == cmd.pc = "import" /\ cmd.todo = <<>> /\ cmd.by = by

FinishDirect ==
    /\ Finished("direct") /\ cmd' = Idle
    /\ UNCHANGED <<settings, manifest, obs, registry, known, torn, whole, imports>>

\* merge_workflow_assignments: after the last import, what succeeded, by name
MergeAssignments ==
    /\ Finished("wizard")
    /\ manifest' = [n \in Names |->
                      IF \E i \in cmd.done : i.name = n
                      THEN (CHOOSE i \in cmd.done : i.name = n).with ELSE manifest[n]]
    /\ cmd' = Idle
    /\ UNCHANGED <<settings, obs, registry, known, torn, whole, imports>>

\* "Workflow stopped before analysis because HAR ingestion failed"
StopBeforeAnalysis ==
    /\ Finished("workflow") /\ cmd.failed /\ cmd' = Idle
    /\ UNCHANGED <<settings, manifest, obs, registry, known, torn, whole, imports>>

-----------------------------------------------------------------------------
(* hunt inventory and the end of hunt workflow: endpoints.yaml, then       *)
(* refresh_capture_analysis                                                *)

\* Faulty: the workflow analyses what it could import.
AnalyseAnyway ==
    /\ cmd = Idle \/ Finished("workflow")
    /\ known' = {f \in Files : obs[f] # Absent}
    /\ cmd' = [pc |-> "refresh"]
    /\ UNCHANGED <<settings, manifest, obs, registry, torn, whole, imports>>

ResolveEndpoints ==
    /\ cmd = Idle \/ (Finished("workflow") /\ ~cmd.failed)
    /\ known' = {f \in Files : obs[f] # Absent}
    /\ cmd' = [pc |-> "refresh"]
    /\ UNCHANGED <<settings, manifest, obs, registry, torn, whole, imports>>

Refreshable(f) == registry[f] # NoCapture /\ obs[f] # Absent /\ obs[f].captured

Refreshed(f) ==
    CaptureOf(registry[f].actor, f, registry[f], f \in known)

\* The two files are read once and written one after the other.
RefreshCaptures ==
    /\ cmd.pc = "refresh"
    /\ registry' = [f \in Files |-> IF Refreshable(f) THEN Refreshed(f) ELSE registry[f]]
    /\ whole' = [f \in Files |-> IF Refreshable(f) THEN "no" ELSE whole[f]]
    /\ cmd' = [pc |-> "label"]
    /\ UNCHANGED <<settings, manifest, obs, known, torn, imports>>

\* Faulty: the relevance of the observations stays as imported.
LabelModesOnly ==
    /\ cmd.pc = "label"
    /\ obs' = [f \in Files |->
                 IF Refreshable(f) THEN [obs[f] EXCEPT !.mode = registry[f].mode]
                 ELSE obs[f]]
    /\ whole' = [f \in Files |-> IF Refreshable(f) THEN "inventory" ELSE whole[f]]
    /\ cmd' = Idle
    /\ UNCHANGED <<settings, manifest, registry, known, torn, imports>>

LabelObservations ==
    /\ cmd.pc = "label"
    /\ obs' = [f \in Files |->
                 IF Refreshable(f)
                 THEN [obs[f] EXCEPT !.mode = registry[f].mode,
                                     !.relevance = registry[f].relevance]
                 ELSE obs[f]]
    /\ whole' = [f \in Files |-> IF Refreshable(f) THEN "inventory" ELSE whole[f]]
    /\ cmd' = Idle
    /\ UNCHANGED <<settings, manifest, registry, known, torn, imports>>

\* Killed, or stopped by an error; --capture-auth fails after the append.
Stop ==
    /\ cmd # Idle /\ cmd' = Idle
    /\ UNCHANGED <<settings, manifest, obs, registry, known, torn, whole, imports>>

ChangePolicy ==
    /\ policy' \in Policies \ {policy}
    /\ cmd = Idle
    /\ UNCHANGED <<journey, incoming, manifest, obs, registry, known, cmd, torn, whole,
                   imports>>

-----------------------------------------------------------------------------
Init == /\ journey \in Journeys /\ policy \in Policies
        /\ incoming \in [Names -> Files] /\ manifest = [n \in Names |-> NoEntry]
        /\ obs = [f \in Files |-> Absent]
        /\ registry = [f \in Files |-> NoCapture]
        /\ known = {} /\ cmd = Idle /\ imports = 0
        /\ torn = [f \in Files |-> "no"] /\ whole = [f \in Files |-> "no"]

Next == \/ StartDirect \/ StartWizard \/ StartWorkflow \/ EditManifest
        \/ RefuseFile \/ AppendObservations \/ AssociateObservations \/ AssociateNothing
        \/ RegisterCapture \/ FinishDirect \/ MergeAssignments \/ StopBeforeAnalysis
        \/ ResolveEndpoints \/ RefreshCaptures \/ LabelObservations
        \/ Stop \/ ChangePolicy

Spec == Init /\ [][Next]_vars

-----------------------------------------------------------------------------

\* captures.yaml and observations.yaml tell one story at rest: mode and
\* relevance wherever the last command that wrote them was whole, repaired by
\* an inventory after an import or an inventory that was killed; the actor
\* wherever the last import was whole.
FilesAgree ==
    cmd = Idle =>
        \A f \in Files : registry[f] # NoCapture =>
            /\ whole[f] # "no" => /\ obs[f].captured
                                 /\ obs[f].mode = registry[f].mode
                                 /\ obs[f].relevance = registry[f].relevance
            /\ torn[f] = "no" => /\ obs[f].session = registry[f].actor
                                /\ obs[f].actor = registry[f].actor

\* What may count as ordinary behaviour, for an endpoint, a workflow or an
\* owner: nothing of a capture settled as a probe or mixed, no protocol
\* request, nothing from outside the scope, and after an inventory nothing
\* of a suppressed endpoint.
OnlyNormalTrafficCounts ==
    \A f \in Files : obs[f] # Absent /\ obs[f].captured =>
        \A e \in journey[f] :
            \/ /\ cmd = Idle /\ torn[f] = "no"
               /\ registry[f].mode \in {"RESEARCHER_PROBE", "MIXED"}
            \/ e.method \in Protocol
            \/ e.outside
            \/ cmd = Idle /\ whole[f] = "inventory" /\ f \in known /\ Background(e)
            => ~Counts(obs[f], e)

\* Mode and intent a person has settled change only when an import of that
\* file says so: no default, no inference, no inventory, no killed command,
\* no manifest entry that leaves them open.
ResearcherContextSurvives ==
    [][\A f \in Files : registry[f] # NoCapture =>
         LET asked == cmd.pc = "register" /\ Current.file = f IN
         /\ registry[f].modeSource = "USER" /\ registry'[f].mode # registry[f].mode
              => asked /\ Current.with.mode = registry'[f].mode
         /\ registry[f].declared # Undeclared
              /\ registry'[f].declared # registry[f].declared
              => asked /\ Current.with.intent = registry'[f].declared]_vars

\* The workflow analyses only what its manifest says: each file it lists is
\* imported and under the actor and the mode listed, wherever a single name
\* stands for that content.
AnalysisFollowsManifest ==
    [][cmd.pc = "import" /\ cmd'.pc = "refresh" =>
         \A n \in Listed :
            (\A m \in Listed \ {n} : incoming[m] # incoming[n]) =>
               /\ registry[incoming[n]] # NoCapture
               /\ registry[incoming[n]].actor = manifest[n].actor
               /\ manifest[n].mode \in {"unset", registry[incoming[n]].mode}]_vars

\* A file means the same traffic whichever tool wrote it; nothing a command
\* does bears on it, so it is looked at once per start.
SourcesAgree == imports = 0 /\ known = {} => ReadersAgree(Exchanges)

\* docs/session-captures.md: RESEARCHER_PROBE is "excluded from normal
\* workflow, ownership, and passive baselines"; here also when the import
\* that said so was cut short.
ProbesNeverCount ==
    cmd = Idle => \A f \in Files : torn[f] = "RESEARCHER_PROBE" =>
        \A e \in journey[f] : ~Counts(obs[f], e)
=============================================================================
