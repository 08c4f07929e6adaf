------------------------ MODULE CaptureSessions_proofs ------------------------
(***************************************************************************)
(* Proofs about imports, the workflow and the inventory, for any files,    *)
(* names, assignments and traffic and any number of imports, wherever a    *)
(* command stops: the two files that describe a capture agree, only normal *)
(* traffic counts as normal, what a person settled stays, and the workflow *)
(* analyses what its manifest says.                                        *)
(***************************************************************************)
EXTENDS CaptureSessions, SequenceTheorems, FiniteSetTheorems, TLAPS

-----------------------------------------------------------------------------
(* Shapes                                                                  *)

IsSequence(s) == s \in Seq(Range(s))

Busy == cmd.pc \in {"import", "associate", "register"}
Midway == cmd.pc \in {"associate", "register"}

CmdShaped ==
    \/ cmd = Idle
    \/ /\ cmd.pc \in {"import", "associate"}
       /\ cmd = [pc |-> cmd.pc, by |-> cmd.by, todo |-> cmd.todo, done |-> cmd.done,
                 failed |-> cmd.failed]
    \/ /\ cmd.pc = "register"
       /\ cmd = [pc |-> cmd.pc, by |-> cmd.by, todo |-> cmd.todo, done |-> cmd.done,
                 failed |-> cmd.failed, capture |-> cmd.capture]
    \/ cmd.pc \in {"refresh", "label"} /\ cmd = [pc |-> cmd.pc]

\* What is to be imported is a file under incoming/, as a known mode if any.
ItemTyped(i, at) ==
    i.name \in Names /\ i.file = at[i.name] /\ i.with.mode \in Modes \cup {"unset"}

CmdTyped ==
    /\ CmdShaped
    /\ Busy => /\ IsSequence(cmd.todo)
               /\ \A i \in Range(cmd.todo) \cup cmd.done : ItemTyped(i, incoming)
    /\ Midway => cmd.todo # <<>>

SettingsTyped ==
    /\ journey \in Journeys /\ policy \in Policies /\ incoming \in [Names -> Files]
    /\ manifest = [n \in Names |-> manifest[n]]
    /\ \A n \in Names : manifest[n] # NoEntry => manifest[n].mode \in Modes \cup {"unset"}

IsObservation(o) ==
    o = [actor |-> o.actor, session |-> o.session, name |-> o.name,
         captured |-> o.captured, mode |-> o.mode, relevance |-> o.relevance]

StoresTyped ==
    /\ obs = [f \in Files |-> obs[f]] /\ registry = [f \in Files |-> registry[f]]
    /\ torn = [f \in Files |-> torn[f]] /\ whole = [f \in Files |-> whole[f]]
    /\ \A f \in Files : obs[f] # Absent => IsObservation(obs[f])

Typed == CmdTyped /\ SettingsTyped /\ StoresTyped

-----------------------------------------------------------------------------
(* The inductive invariant                                                 *)

\* Where both files were settled they tell the same mode and relevance, and
\* where the last import was whole the same actor and mode.
AgreeInv ==
    \A f \in Files :
        /\ whole[f] # "no" => /\ registry[f] # NoCapture /\ obs[f] # Absent
                              /\ obs[f].captured /\ obs[f].mode = registry[f].mode
                              /\ obs[f].relevance = registry[f].relevance
        /\ torn[f] = "no" /\ registry[f] # NoCapture
              => /\ obs[f] # Absent /\ obs[f].captured
                 /\ obs[f].session = registry[f].actor /\ obs[f].actor = registry[f].actor
                 /\ obs[f].mode = registry[f].mode
        /\ torn[f] = "no" /\ obs[f] # Absent => registry[f] # NoCapture

\* No protocol request and nothing from outside counts as relevant; after an
\* inventory, nothing of a suppressed endpoint does.
Excludes(traffic, relevance) ==
    \A e \in traffic : e.method \in Protocol \/ e.outside
                         => relevance[e.id] \in {"NOISE", "PROTOCOL_SUPPORT"}
Quiets(traffic, relevance) ==
    \A e \in traffic : Background(e) => relevance[e.id] \in {"NOISE", "PROTOCOL_SUPPORT"}

RelevanceInv ==
    \A f \in Files :
        /\ obs[f] # Absent /\ obs[f].captured => Excludes(journey[f], obs[f].relevance)
        /\ registry[f] # NoCapture => Excludes(journey[f], registry[f].relevance)

InventoryInv ==
    /\ \A f \in known : f \in Files /\ obs[f] # Absent
    /\ \A f \in Files :
          whole[f] = "inventory" => f \in known /\ Quiets(journey[f], obs[f].relevance)
    /\ cmd.pc = "refresh" => \A f \in Files : obs[f] # Absent => f \in known
    /\ cmd.pc = "label" =>
          \A f \in Files : Refreshable(f) => /\ f \in known
                                             /\ Quiets(journey[f], registry[f].relevance)

\* An import midway: its observations are there and say who it was for; the
\* capture to register is what they say, and carries over what was settled.
MidwayInv ==
    /\ Midway => LET f == Current.file IN
          /\ f \in Files /\ torn[f] # "no" /\ obs[f] # Absent
          /\ obs[f].actor = Current.with.actor
    /\ cmd.pc = "register" => LET f == Current.file
                                  c == cmd.capture
                                  a == Current.with IN
          /\ c # NoCapture /\ c.actor = a.actor /\ whole[f] = "no"
          /\ obs[f].captured /\ obs[f].mode = c.mode /\ obs[f].relevance = c.relevance
          /\ obs[f].session = c.actor
          /\ Excludes(journey[f], c.relevance)
          /\ a.mode \in {"unset", c.mode}
          /\ registry[f] # NoCapture =>
                /\ c.mode # registry[f].mode => c.mode = a.mode
                /\ c.declared # registry[f].declared => c.declared = a.intent

\* As long as a workflow has not failed, each file its manifest lists is
\* still to be imported or stands as listed.
AsListed(n) ==
    /\ registry[incoming[n]] # NoCapture
    /\ registry[incoming[n]].actor = manifest[n].actor
    /\ manifest[n].mode \in {"unset", registry[incoming[n]].mode}

Alone(n) == \A m \in Listed \ {n} : incoming[m] # incoming[n]

WorkflowInv ==
    Busy /\ cmd.by = "workflow" =>
        /\ \A i \in Range(cmd.todo) : \E m \in Listed : i = Item(m, manifest[m])
        /\ ~cmd.failed => \A n \in Listed :
              Alone(n) => Item(n, manifest[n]) \in Range(cmd.todo) \/ AsListed(n)

CaptureInv ==
    Typed /\ AgreeInv /\ RelevanceInv /\ InventoryInv /\ MidwayInv /\ WorkflowInv

-----------------------------------------------------------------------------
(* Sequences                                                               *)

LEMMA SequencesStay ==
    ASSUME NEW S, NEW s \in Seq(S)
    PROVE  IsSequence(s) /\ Range(s) \subseteq S
<1>1. s \in [1..Len(s) -> S] /\ Len(s) \in Nat
  BY LenProperties
<1>2. Range(s) \subseteq S
  BY <1>1 DEF Range
<1>3. s \in [1..Len(s) -> Range(s)]
  BY <1>1 DEF Range
<1> QED
  BY <1>1, <1>2, <1>3 DEF IsSequence

LEMMA OneAfterTheOther ==
    ASSUME NEW s, IsSequence(s), s # <<>>
    PROVE  /\ Head(s) \in Range(s) /\ IsSequence(Tail(s)) /\ Range(Tail(s)) \subseteq Range(s)
           /\ \A x \in Range(s) : x = Head(s) \/ x \in Range(Tail(s))
<1>1. /\ Head(s) \in Range(s) /\ Tail(s) \in Seq(Range(s)) /\ Len(Tail(s)) = Len(s) - 1
      /\ \A i \in 1..Len(Tail(s)) : Tail(s)[i] = s[i + 1]
  BY HeadTailProperties DEF IsSequence
<1>2. IsSequence(Tail(s)) /\ Range(Tail(s)) \subseteq Range(s)
  BY <1>1, SequencesStay
<1>3. ASSUME NEW x \in Range(s), x # Head(s) PROVE x \in Range(Tail(s))
  <2>1. Len(s) \in Nat /\ DOMAIN s = 1..Len(s) /\ DOMAIN Tail(s) = 1..Len(Tail(s))
    BY <1>1, LenProperties DEF IsSequence
  <2>2. PICK i \in 1..Len(s) : s[i] = x
    BY <2>1 DEF Range
  <2>3. i # 1
    BY <2>2, <1>3 DEF IsSequence
  <2>4. i - 1 \in 1..Len(Tail(s)) /\ (i - 1) + 1 = i
    BY <2>1, <2>3, <1>1
  <2>5. Tail(s)[i - 1] = x
    BY <2>2, <2>4, <1>1
  <2> QED
    BY <2>1, <2>4, <2>5 DEF Range
<1> QED
  BY <1>1, <1>2, <1>3

\* What is listed from a finite set is all of it.
LEMMA ListingIsComplete ==
    ASSUME NEW S, IsFiniteSet(S)
    PROVE  IsSequence(SetToSeq(S)) /\ Range(SetToSeq(S)) = S
<1> DEFINE n == Cardinality(S)
           q == SetToSeq(S)
<1>1. n \in Nat /\ ExistsBijection(1..n, S)
  BY FS_CardinalityType
<1>2. \E b \in [1..n -> S] : IsInjective(b)
  BY <1>1 DEF ExistsBijection, Bijection, Injection
<1>3. q \in [1..n -> S] /\ IsInjective(q)
  BY <1>2 DEF SetToSeq
<1>4. q \in Injection(1..n, S)
  BY <1>3 DEF Injection
<1>5. Cardinality(1..n) = n
  BY <1>1, FS_Interval
<1>6. q \in Surjection(1..n, S)
  BY <1>4, <1>5, FS_Injection
<1>7. Range(q) = S
  BY <1>3, <1>6 DEF Range, Surjection
<1>8. q \in Seq(S)
  BY <1>1, <1>3
<1> QED
  BY <1>7, <1>8 DEF IsSequence

-----------------------------------------------------------------------------
(* What a capture is told to be                                            *)

LEMMA ExclusionsComeFirst ==
    ASSUME NEW s, NEW intent, NEW anchors, s.method \in Protocol \/ Background(s)
    PROVE  Relevance(s, intent, anchors) \in {"NOISE", "PROTOCOL_SUPPORT"}
<1>1. CASE s.method \in Protocol
  BY <1>1 DEF Relevance
<1>2. CASE s.method \notin Protocol
  BY <1>2 DEF Relevance
<1> QED
  BY <1>1, <1>2

\* The raw reading of an exchange keeps what an exclusion is decided on.
LEMMA RawKeeps ==
    ASSUME NEW e, IsExchange(e)
    PROVE  /\ Raw(e).id = e.id /\ Raw(e).method = e.method /\ Raw(e).outside = e.outside
<1>1. DOMAIN e = {"id", "position", "method", "status", "path", "outside", "endpoint",
                  "domain"}
  BY DEF IsExchange
<1> QED
  BY <1>1 DEF Raw

LEMMA SignalsAreFound ==
    ASSUME NEW f \in Files, NEW resolved \in BOOLEAN, NEW e \in journey[f],
           journey \in Journeys
    PROVE  LET signals == Signals(f, resolved)
               s == CHOOSE s \in signals : s.id = e.id IN
           /\ e.id \in {t.id : t \in signals}
           /\ s = IF resolved THEN e ELSE Raw(e)
<1> DEFINE signals == Signals(f, resolved)
           own == IF resolved THEN e ELSE Raw(e)
<1>1. \A d \in journey[f] : IsExchange(d) /\ (d.id = e.id => d = e)
  BY CaptureAssumption
<1>2. own \in signals /\ own.id = e.id
  BY <1>1, RawKeeps DEF Signals
<1>3. ASSUME NEW s \in signals, s.id = e.id PROVE s = own
  BY <1>1, <1>3, RawKeeps DEF Signals
<1> HIDE DEF own, signals
<1>4. (CHOOSE s \in signals : s.id = e.id) = own
  BY <1>2, <1>3
<1>5. e.id \in {t.id : t \in signals}
  BY <1>2
<1> QED
  BY <1>4, <1>5 DEF own, signals

LEMMA ExcludedSignals ==
    ASSUME NEW f \in Files, NEW resolved \in BOOLEAN, NEW e \in journey[f],
           NEW intent, NEW anchors, NEW context, journey \in Journeys,
           \/ e.method \in Protocol \/ e.outside
           \/ resolved = TRUE /\ Background(e)
    PROVE  ContextualRelevance(Signals(f, resolved), intent, anchors, context)[e.id]
              \in {"NOISE", "PROTOCOL_SUPPORT"}
<1> DEFINE signals == Signals(f, resolved)
           s == CHOOSE s \in signals : s.id = e.id
<1>1. e.id \in {t.id : t \in signals} /\ s = IF resolved THEN e ELSE Raw(e)
  BY SignalsAreFound
<1>2. IsExchange(e)
  BY CaptureAssumption
<1>3. s.method \in Protocol \/ Background(s)
  BY <1>1, <1>2, RawKeeps DEF Background
<1> HIDE DEF s
<1>4. \A i, a : Relevance(s, i, a) \in {"NOISE", "PROTOCOL_SUPPORT"}
  BY <1>3, ExclusionsComeFirst
<1> USE DEF s
<1> HIDE DEF signals
<1>5. \E i : ContextualRelevance(signals, intent, anchors, context)[e.id]
                = Relevance(s, i, anchors)
  BY <1>1 DEF ContextualRelevance
<1> QED
  BY <1>4, <1>5 DEF signals

LEMMA CapturesSaySo ==
    ASSUME NEW f \in Files, NEW resolved \in BOOLEAN, NEW actor, NEW context,
           journey \in Journeys
    PROVE  LET c == CaptureOf(actor, f, context, resolved) IN
           /\ c # NoCapture /\ c.actor = actor /\ c.mode = context.mode
           /\ c.modeSource = context.modeSource /\ c.declared = context.declared
           /\ Excludes(journey[f], c.relevance)
           /\ resolved => Quiets(journey[f], c.relevance)
<1> DEFINE signals == Signals(f, resolved)
           ops == Eligible(signals)
           c == CaptureOf(actor, f, context, resolved)
<1>1. c = Judged(actor, context, Intent(ops, Anchors(ops)),
                 ContextualRelevance(signals, Intent(ops, Anchors(ops)), Anchors(ops),
                                     context), signals, ops)
  BY DEF CaptureOf, CaptureFrom, Analysed
<1> HIDE DEF c, ops, signals
<1>2. /\ c.actor = actor /\ c.mode = context.mode /\ c.modeSource = context.modeSource
      /\ c.declared = context.declared
      /\ c.relevance = ContextualRelevance(signals, Intent(ops, Anchors(ops)),
                                           Anchors(ops), context)
  BY <1>1 DEF Judged
<1>3. c # NoCapture
  <2>1. "actor" \in DOMAIN c /\ "actor" \notin DOMAIN NoCapture
    BY <1>1 DEF Judged, NoCapture
  <2> QED
    BY <2>1
<1>4. ASSUME NEW e \in journey[f], \/ e.method \in Protocol \/ e.outside
                                   \/ resolved = TRUE /\ Background(e)
      PROVE  c.relevance[e.id] \in {"NOISE", "PROTOCOL_SUPPORT"}
  <2> DEFINE intent == Intent(ops, Anchors(ops))
             anchors == Anchors(ops)
  <2>1. c.relevance = ContextualRelevance(signals, intent, anchors, context)
    BY <1>2
  <2> HIDE DEF intent, anchors
  <2>2. ContextualRelevance(signals, intent, anchors, context)[e.id]
           \in {"NOISE", "PROTOCOL_SUPPORT"}
    BY <1>4, ExcludedSignals DEF signals
  <2> QED
    BY <2>1, <2>2
<1>5. Excludes(journey[f], c.relevance)
  BY <1>4 DEF Excludes
<1>6. resolved => Quiets(journey[f], c.relevance)
  BY <1>4 DEF Quiets
<1> QED
  BY <1>2, <1>3, <1>5, <1>6 DEF c

LEMMA SelectionCarriesOver ==
    ASSUME NEW existing, NEW a
    PROVE  LET context == SelectedContext(existing, a) IN
           /\ a.mode \in {"unset", context.mode}
           /\ existing # NoCapture =>
                 /\ context.mode # existing.mode => context.mode = a.mode
                 /\ context.declared # existing.declared => context.declared = a.intent
  BY DEF SelectedContext

-----------------------------------------------------------------------------
(* What each step leaves behind                                            *)

\* Most steps change nothing of the files that describe captures.
Quiet ==
    /\ UNCHANGED <<journey, incoming, obs, registry, known, torn, whole>>
    /\ cmd'.pc \in {"idle", "import"}

LEMMA StepsByEffect ==
    ASSUME Next
    PROVE  \/ Quiet \/ AppendObservations \/ AssociateObservations \/ RegisterCapture
           \/ ResolveEndpoints \/ RefreshCaptures \/ LabelObservations
<1> USE DEF Quiet, settings
<1>1. CASE StartDirect
  BY <1>1 DEF StartDirect, Starting
<1>2. CASE StartWizard
  BY <1>2 DEF StartWizard, Starting
<1>3. CASE StartWorkflow
  BY <1>3 DEF StartWorkflow, Starting
<1>4. CASE EditManifest \/ ChangePolicy
  BY <1>4 DEF EditManifest, ChangePolicy, Idle
<1>5. CASE RefuseFile \/ AssociateNothing
  BY <1>5 DEF RefuseFile, AssociateNothing, Refused, Idle
<1>6. CASE FinishDirect \/ MergeAssignments \/ StopBeforeAnalysis \/ Stop
  BY <1>6 DEF FinishDirect, MergeAssignments, StopBeforeAnalysis, Stop, Idle
<1> QED
  BY <1>1, <1>2, <1>3, <1>4, <1>5, <1>6 DEF Next

\* No command touches the traffic, or the files it is given.
LEMMA TrafficStays ==
    ASSUME [Next]_vars
    PROVE  journey' = journey /\ incoming' = incoming
<1>1. CASE Next
  BY <1>1, StepsByEffect
     DEF Quiet, AppendObservations, AssociateObservations, RegisterCapture,
         ResolveEndpoints, RefreshCaptures, LabelObservations, settings
<1> QED
  BY <1>1 DEF vars

LEMMA CurrentIsTyped ==
    ASSUME Typed, cmd.pc \in {"import", "associate", "register"}, cmd.todo # <<>>
    PROVE  /\ Current \in Range(cmd.todo) /\ ItemTyped(Current, incoming)
           /\ Current.file \in Files /\ Current.with.mode # "no"
<1>1. Current \in Range(cmd.todo)
  BY OneAfterTheOther DEF Typed, CmdTyped, Busy, Current
<1>2. ItemTyped(Current, incoming)
  BY <1>1 DEF Typed, CmdTyped, Busy
<1> QED
  BY <1>1, <1>2, CaptureAssumption DEF ItemTyped, Typed, SettingsTyped

\* An observation as an inventory, or an import, leaves it.
AsRefreshed(o, mode, relevance) == [o EXCEPT !.mode = mode, !.relevance = relevance]
AsImported(o, yes, mode, relevance, session) ==
    [o EXCEPT !.captured = yes, !.mode = mode, !.relevance = relevance,
              !.session = session]

LEMMA ObservationFields ==
    ASSUME NEW o, IsObservation(o), NEW mode, NEW relevance, NEW session,
           NEW yes
    PROVE  /\ AsRefreshed(o, mode, relevance)
                 = [actor |-> o.actor, session |-> o.session, name |-> o.name,
                    captured |-> o.captured, mode |-> mode, relevance |-> relevance]
           /\ AsImported(o, yes, mode, relevance, session)
                 = [actor |-> o.actor, session |-> session, name |-> o.name,
                    captured |-> yes, mode |-> mode, relevance |-> relevance]
<1> DEFINE two == [o EXCEPT !.mode = mode, !.relevance = relevance]
           told == [o EXCEPT !.captured = yes]
           labelled == [told EXCEPT !.mode = mode]
           weighed == [labelled EXCEPT !.relevance = relevance]
           all == [o EXCEPT !.captured = yes, !.mode = mode, !.relevance = relevance,
                            !.session = session]
<1>1. two = [actor |-> o.actor, session |-> o.session, name |-> o.name,
             captured |-> o.captured, mode |-> mode, relevance |-> relevance]
  <2> DEFINE one == [o EXCEPT !.mode = mode]
  <2>1. one = [actor |-> o.actor, session |-> o.session, name |-> o.name,
               captured |-> o.captured, mode |-> mode, relevance |-> o.relevance]
    BY DEF IsObservation
  <2>2. two = [one EXCEPT !.relevance = relevance]
    OBVIOUS
  <2> HIDE DEF one, two
  <2> QED
    BY <2>1, <2>2
<1>2. all = [weighed EXCEPT !.session = session]
  OBVIOUS
<1>3. told = [actor |-> o.actor, session |-> o.session, name |-> o.name,
              captured |-> yes, mode |-> o.mode, relevance |-> o.relevance]
  BY DEF IsObservation
<1> HIDE DEF told
<1>4. labelled = [actor |-> o.actor, session |-> o.session, name |-> o.name,
                  captured |-> yes, mode |-> mode, relevance |-> o.relevance]
  BY <1>3
<1> HIDE DEF labelled
<1>5. weighed = [actor |-> o.actor, session |-> o.session, name |-> o.name,
                 captured |-> yes, mode |-> mode, relevance |-> relevance]
  BY <1>4
<1> HIDE DEF weighed, all
<1>6. all = [actor |-> o.actor, session |-> session, name |-> o.name,
             captured |-> yes, mode |-> mode, relevance |-> relevance]
  BY <1>2, <1>5
<1> QED
  BY <1>1, <1>6 DEF all, AsRefreshed, AsImported

LEMMA AppendEffect ==
    ASSUME Typed, AppendObservations
    PROVE  LET f == Current.file IN
           /\ f \in Files /\ torn'[f] # "no" /\ obs'[f] # Absent
           /\ obs'[f].actor = Current.with.actor /\ IsObservation(obs'[f])
           /\ obs[f] # Absent => /\ obs'[f].captured = obs[f].captured
                                 /\ obs'[f].mode = obs[f].mode
                                 /\ obs'[f].relevance = obs[f].relevance
           /\ obs[f] = Absent => obs'[f].captured = FALSE
           /\ \A g \in Files \ {f} : obs'[g] = obs[g] /\ torn'[g] = torn[g]
           /\ obs' = [g \in Files |-> obs'[g]] /\ torn' = [g \in Files |-> torn'[g]]
           /\ cmd' = [pc |-> "associate", by |-> cmd.by, todo |-> cmd.todo,
                      done |-> cmd.done, failed |-> cmd.failed]
           /\ cmd.pc = "import" /\ cmd.todo # <<>>
           /\ UNCHANGED <<journey, policy, incoming, manifest, registry, known, whole>>
<1> DEFINE f == Current.file
           new == Appended(obs[f], Current)
<1>1. /\ cmd.pc = "import" /\ cmd.todo # <<>>
      /\ UNCHANGED <<journey, policy, incoming, manifest, registry, known, whole>>
  BY DEF AppendObservations, Importing, settings
<1>2. f \in Files /\ Current.with.mode # "no"
  BY <1>1, CurrentIsTyped
<1>3. new # Absent /\ new.actor = Current.with.actor /\ IsObservation(new)
  <2>1. CASE obs[f] = Absent
    BY <2>1 DEF Appended, IsObservation, Absent
  <2>2. CASE obs[f] # Absent
    <3>1. IsObservation(obs[f])
      BY <1>2, <2>2 DEF Typed, StoresTyped
    <3>2. /\ IsObservation(Relabelled(obs[f], Current.with.actor))
          /\ Relabelled(obs[f], Current.with.actor).actor = Current.with.actor
      BY <3>1 DEF Relabelled, IsObservation
    <3>3. new = Relabelled(obs[f], Current.with.actor)
      BY <2>2 DEF Appended
    <3>4. ASSUME NEW o, IsObservation(o) PROVE o # Absent
      <4>1. "actor" \in DOMAIN o /\ "actor" \notin DOMAIN Absent
        BY <3>4 DEF IsObservation, Absent
      <4> QED
        BY <4>1
    <3> QED
      BY <3>2, <3>3, <3>4
  <2> QED
    BY <2>1, <2>2
<1>4. obs[f] # Absent => /\ new.captured = obs[f].captured /\ new.mode = obs[f].mode
                         /\ new.relevance = obs[f].relevance
  <2> SUFFICES ASSUME obs[f] # Absent
               PROVE  /\ new.captured = obs[f].captured /\ new.mode = obs[f].mode
                      /\ new.relevance = obs[f].relevance
    OBVIOUS
  <2>1. IsObservation(obs[f])
    BY <1>2 DEF Typed, StoresTyped
  <2> QED
    BY <2>1 DEF Appended, Relabelled, IsObservation
<1>5. obs[f] = Absent => new.captured = FALSE
  BY DEF Appended
<1> HIDE DEF new
<1>6. obs' = [obs EXCEPT ![f] = new] /\ torn' = [torn EXCEPT ![f] = Current.with.mode]
  BY DEF AppendObservations, new
<1>7. obs = [g \in Files |-> obs[g]] /\ torn = [g \in Files |-> torn[g]]
  BY DEF Typed, StoresTyped
<1>8. /\ obs'[f] = new /\ torn'[f] = Current.with.mode
      /\ \A g \in Files \ {f} : obs'[g] = obs[g] /\ torn'[g] = torn[g]
      /\ obs' = [g \in Files |-> obs'[g]] /\ torn' = [g \in Files |-> torn'[g]]
  BY <1>2, <1>6, <1>7
<1>9. cmd' = [pc |-> "associate", by |-> cmd.by, todo |-> cmd.todo,
              done |-> cmd.done, failed |-> cmd.failed]
  <2>1. cmd = [pc |-> cmd.pc, by |-> cmd.by, todo |-> cmd.todo, done |-> cmd.done,
               failed |-> cmd.failed]
    BY <1>1 DEF Typed, CmdTyped, CmdShaped, Idle
  <2>2. cmd' = [cmd EXCEPT !.pc = "associate"]
    BY DEF AppendObservations
  <2> QED
    BY <2>1, <2>2
<1> QED
  BY <1>1, <1>2, <1>3, <1>4, <1>5, <1>8, <1>9 DEF f

LEMMA AssociateEffect ==
    ASSUME Typed, MidwayInv, AssociateObservations
    PROVE  LET f == Current.file
               c == cmd'.capture
               x == SelectedContext(registry[f], Current.with) IN
           /\ f \in Files /\ obs'[f] # Absent /\ IsObservation(obs'[f])
           /\ c # NoCapture /\ c.actor = Current.with.actor /\ c.mode = x.mode
           /\ c.declared = x.declared /\ Excludes(journey[f], c.relevance)
           /\ obs'[f].captured = TRUE /\ obs'[f].mode = c.mode
           /\ obs'[f].relevance = c.relevance /\ obs'[f].session = Current.with.actor
           /\ obs'[f].actor = obs[f].actor /\ whole'[f] = "no"
           /\ \A g \in Files \ {f} : obs'[g] = obs[g] /\ whole'[g] = whole[g]
           /\ obs' = [g \in Files |-> obs'[g]] /\ whole' = [g \in Files |-> whole'[g]]
           /\ cmd' = [pc |-> "register", by |-> cmd.by, todo |-> cmd.todo,
                      done |-> cmd.done, failed |-> cmd.failed, capture |-> c]
           /\ cmd.pc = "associate" /\ cmd.todo # <<>>
           /\ UNCHANGED <<journey, policy, incoming, manifest, registry, known, torn>>
<1> DEFINE f == Current.file
           x == SelectedContext(registry[f], Current.with)
           c == CaptureOf(Current.with.actor, f, x, FALSE)
           yes == TRUE
           new == AsImported(obs[f], yes, c.mode, c.relevance, Current.with.actor)
<1>1. /\ cmd.pc = "associate"
      /\ UNCHANGED <<journey, policy, incoming, manifest, registry, known, torn>>
  BY DEF AssociateObservations, settings
<1>2. cmd.todo # <<>> /\ f \in Files /\ obs[f] # Absent
  BY <1>1 DEF Typed, CmdTyped, MidwayInv, Midway
<1>3. IsObservation(obs[f])
  BY <1>2 DEF Typed, StoresTyped
<1>4. journey \in Journeys
  BY DEF Typed, SettingsTyped
<1> HIDE DEF f, x
<1>5. /\ c # NoCapture /\ c.actor = Current.with.actor /\ c.mode = x.mode
      /\ c.declared = x.declared /\ Excludes(journey[f], c.relevance)
  <2> DEFINE resolved == FALSE
  <2>1. resolved \in BOOLEAN
    OBVIOUS
  <2> HIDE DEF resolved
  <2>2. LET d == CaptureOf(Current.with.actor, f, x, resolved) IN
        /\ d # NoCapture /\ d.actor = Current.with.actor /\ d.mode = x.mode
        /\ d.declared = x.declared /\ Excludes(journey[f], d.relevance)
    BY <1>2, <1>4, <2>1, CapturesSaySo
  <2> QED
    BY <2>2 DEF resolved
<1> HIDE DEF c, yes
<1>6. new = [actor |-> obs[f].actor, session |-> Current.with.actor,
             name |-> obs[f].name, captured |-> yes, mode |-> c.mode,
             relevance |-> c.relevance]
  BY <1>3, ObservationFields
<1> HIDE DEF new
<1>7. new # Absent
  <2>1. "actor" \in DOMAIN new /\ "actor" \notin DOMAIN Absent
    BY <1>6 DEF Absent
  <2> QED
    BY <2>1
<1>8. IsObservation(new)
  BY <1>6 DEF IsObservation
<1>9. /\ obs' = [obs EXCEPT ![f] = new] /\ whole' = [whole EXCEPT ![f] = "no"]
      /\ cmd' = [pc |-> "register", by |-> cmd.by, todo |-> cmd.todo,
                 done |-> cmd.done, failed |-> cmd.failed, capture |-> c]
  BY DEF AssociateObservations, AsImported, new, c, x, f, yes
<1>10. obs = [g \in Files |-> obs[g]] /\ whole = [g \in Files |-> whole[g]]
  BY DEF Typed, StoresTyped
<1>11. /\ obs'[f] = new /\ whole'[f] = "no"
       /\ \A g \in Files \ {f} : obs'[g] = obs[g] /\ whole'[g] = whole[g]
       /\ obs' = [g \in Files |-> obs'[g]] /\ whole' = [g \in Files |-> whole'[g]]
  BY <1>2, <1>9, <1>10
<1>12. cmd'.capture = c
  BY <1>9
<1> QED
  BY <1>1, <1>2, <1>5, <1>6, <1>7, <1>8, <1>9, <1>11, <1>12 DEF f, x, yes

LEMMA RegisterEffect ==
    ASSUME Typed, MidwayInv, RegisterCapture
    PROVE  LET f == Current.file IN
           /\ f \in Files /\ registry'[f] = cmd.capture /\ torn'[f] = "no"
           /\ whole'[f] = "import"
           /\ \A g \in Files \ {f} : /\ registry'[g] = registry[g] /\ torn'[g] = torn[g]
                                     /\ whole'[g] = whole[g]
           /\ registry' = [g \in Files |-> registry'[g]]
           /\ torn' = [g \in Files |-> torn'[g]] /\ whole' = [g \in Files |-> whole'[g]]
           /\ cmd' = [pc |-> "import", by |-> cmd.by, todo |-> Tail(cmd.todo),
                      done |-> cmd.done \cup {Current}, failed |-> cmd.failed]
           /\ cmd.pc = "register" /\ cmd.todo # <<>>
           /\ UNCHANGED <<journey, policy, incoming, manifest, obs, known>>
<1>1. cmd.pc = "register" /\ cmd.todo # <<>> /\ Current.file \in Files
  BY DEF RegisterCapture, Typed, CmdTyped, MidwayInv, Midway
<1>2. /\ registry = [g \in Files |-> registry[g]] /\ torn = [g \in Files |-> torn[g]]
      /\ whole = [g \in Files |-> whole[g]]
  BY DEF Typed, StoresTyped
<1>3. /\ registry' = [registry EXCEPT ![Current.file] = cmd.capture]
      /\ torn' = [torn EXCEPT ![Current.file] = "no"]
      /\ whole' = [whole EXCEPT ![Current.file] = "import"]
      /\ cmd' = [pc |-> "import", by |-> cmd.by, todo |-> Tail(cmd.todo),
                 done |-> cmd.done \cup {Current}, failed |-> cmd.failed]
      /\ UNCHANGED <<journey, policy, incoming, manifest, obs, known>>
  BY DEF RegisterCapture, settings
<1> QED
  BY <1>1, <1>2, <1>3

LEMMA RefreshEffect ==
    ASSUME Typed, RefreshCaptures
    PROVE  /\ \A f \in Files :
                 IF Refreshable(f)
                 THEN /\ registry'[f] # NoCapture /\ whole'[f] = "no"
                      /\ registry'[f].actor = registry[f].actor
                      /\ registry'[f].mode = registry[f].mode
                      /\ registry'[f].modeSource = registry[f].modeSource
                      /\ registry'[f].declared = registry[f].declared
                      /\ Excludes(journey[f], registry'[f].relevance)
                      /\ f \in known => Quiets(journey[f], registry'[f].relevance)
                 ELSE registry'[f] = registry[f] /\ whole'[f] = whole[f]
           /\ registry' = [f \in Files |-> registry'[f]]
           /\ whole' = [f \in Files |-> whole'[f]]
           /\ cmd.pc = "refresh" /\ cmd' = [pc |-> "label"]
           /\ UNCHANGED <<journey, policy, incoming, manifest, obs, known, torn>>
<1>1. /\ registry' = [f \in Files |-> IF Refreshable(f) THEN Refreshed(f) ELSE registry[f]]
      /\ whole' = [f \in Files |-> IF Refreshable(f) THEN "no" ELSE whole[f]]
      /\ cmd.pc = "refresh" /\ cmd' = [pc |-> "label"]
      /\ UNCHANGED <<journey, policy, incoming, manifest, obs, known, torn>>
  BY DEF RefreshCaptures, settings
<1>2. ASSUME NEW f \in Files
      PROVE  /\ Refreshed(f) # NoCapture /\ Refreshed(f).actor = registry[f].actor
             /\ Refreshed(f).mode = registry[f].mode
             /\ Refreshed(f).modeSource = registry[f].modeSource
             /\ Refreshed(f).declared = registry[f].declared
             /\ Excludes(journey[f], Refreshed(f).relevance)
             /\ f \in known => Quiets(journey[f], Refreshed(f).relevance)
  <2> DEFINE resolved == f \in known
  <2>1. Refreshed(f) = CaptureOf(registry[f].actor, f, registry[f], resolved)
    BY DEF Refreshed
  <2>2. resolved \in BOOLEAN
    OBVIOUS
  <2>3. journey \in Journeys
    BY DEF Typed, SettingsTyped
  <2> HIDE DEF resolved
  <2>4. LET c == CaptureOf(registry[f].actor, f, registry[f], resolved) IN
        /\ c # NoCapture /\ c.actor = registry[f].actor /\ c.mode = registry[f].mode
        /\ c.modeSource = registry[f].modeSource /\ c.declared = registry[f].declared
        /\ Excludes(journey[f], c.relevance)
        /\ resolved => Quiets(journey[f], c.relevance)
    BY <2>2, <2>3, CapturesSaySo
  <2> QED
    BY <2>1, <2>4 DEF resolved
<1> QED
  BY <1>1, <1>2

LEMMA LabelEffect ==
    ASSUME Typed, LabelObservations
    PROVE  /\ \A f \in Files :
                 IF Refreshable(f)
                 THEN /\ obs'[f] # Absent /\ IsObservation(obs'[f])
                      /\ obs'[f].actor = obs[f].actor /\ obs'[f].session = obs[f].session
                      /\ obs'[f].captured = obs[f].captured
                      /\ obs'[f].mode = registry[f].mode
                      /\ obs'[f].relevance = registry[f].relevance
                      /\ whole'[f] = "inventory"
                 ELSE obs'[f] = obs[f] /\ whole'[f] = whole[f]
           /\ obs' = [f \in Files |-> obs'[f]] /\ whole' = [f \in Files |-> whole'[f]]
           /\ cmd.pc = "label" /\ cmd' = Idle
           /\ UNCHANGED <<journey, policy, incoming, manifest, registry, known, torn>>
<1> DEFINE new(f) == AsRefreshed(obs[f], registry[f].mode, registry[f].relevance)
<1>1. ASSUME NEW f \in Files, Refreshable(f)
      PROVE  /\ new(f) # Absent /\ IsObservation(new(f))
             /\ new(f).actor = obs[f].actor /\ new(f).session = obs[f].session
             /\ new(f).captured = obs[f].captured /\ new(f).mode = registry[f].mode
             /\ new(f).relevance = registry[f].relevance
  <2>1. IsObservation(obs[f])
    BY <1>1 DEF Typed, StoresTyped, Refreshable
  <2>2. new(f) = [actor |-> obs[f].actor, session |-> obs[f].session,
                  name |-> obs[f].name, captured |-> obs[f].captured,
                  mode |-> registry[f].mode, relevance |-> registry[f].relevance]
    BY <2>1, ObservationFields
  <2> HIDE DEF new
  <2>3. new(f) # Absent
    <3>1. "actor" \in DOMAIN new(f) /\ "actor" \notin DOMAIN Absent
      BY <2>2 DEF Absent
    <3> QED
      BY <3>1
  <2> QED
    BY <2>2, <2>3 DEF IsObservation
<1>2. /\ obs' = [f \in Files |-> IF Refreshable(f) THEN new(f) ELSE obs[f]]
      /\ whole' = [f \in Files |-> IF Refreshable(f) THEN "inventory" ELSE whole[f]]
      /\ cmd.pc = "label" /\ cmd' = Idle
      /\ UNCHANGED <<journey, policy, incoming, manifest, registry, known, torn>>
  BY DEF LabelObservations, AsRefreshed, settings
<1> HIDE DEF new
<1> QED
  BY <1>1, <1>2

-----------------------------------------------------------------------------
(* Types                                                                   *)

\* The wizard proposes a mode that is known, or takes an answer.
LEMMA SelectionsTyped ==
    ASSUME policy \in Policies, NEW n, NEW f, NEW a \in Selections(n, f)
    PROVE  a.mode \in Modes \cup {"unset"}
<1>1. CASE a \in Manuals
  BY <1>1, CaptureAssumption
<1>2. CASE \E i : a = Proposal(n, f, i)
  <2>1. ProposedMode(n, f) \in Modes
    BY CaptureAssumption DEF ProposedMode
  <2> QED
    BY <1>2, <2>1 DEF Proposal
<1> QED
  BY <1>1, <1>2 DEF Selections

\* What the wizard or the workflow imports is all it set out to.
LEMMA ItemsAreListed ==
    ASSUME NEW chosen \in SUBSET Names, NEW answer
    PROVE  LET q == SetToSeq({Item(n, answer[n]) : n \in chosen}) IN
           IsSequence(q) /\ Range(q) = {Item(n, answer[n]) : n \in chosen}
<1> DEFINE items == {Item(n, answer[n]) : n \in chosen}
           h == [n \in chosen |-> Item(n, answer[n])]
<1>1. IsFiniteSet(chosen)
  BY CaptureAssumption, FS_Subset
<1>2. h \in Surjection(chosen, items)
  BY DEF Surjection
<1>3. IsFiniteSet(items)
  BY <1>1, <1>2, FS_Surjection
<1> QED
  BY <1>3, ListingIsComplete

\* A command under way, as the steps that leave one build it.
LEMMA CommandStarts ==
    ASSUME NEW c, NEW pc, NEW by, NEW todo, NEW done, NEW failed,
           pc \in {"import", "associate"},
           c = [pc |-> pc, by |-> by, todo |-> todo, done |-> done, failed |-> failed]
    PROVE  /\ c.pc = pc /\ c.by = by /\ c.todo = todo /\ c.done = done
           /\ c.failed = failed
           /\ c = [pc |-> c.pc, by |-> c.by, todo |-> c.todo, done |-> c.done,
                   failed |-> c.failed]
  OBVIOUS

LEMMA CmdStaysTyped ==
    ASSUME Typed, MidwayInv, [Next]_vars
    PROVE  CmdTyped'
<1> USE DEF Busy, Midway
<1>t. incoming' = incoming
  BY TrafficStays
<1>i. cmd' = Idle => CmdTyped'
  BY DEF CmdTyped, CmdShaped, Idle
<1>c. ASSUME NEW by, NEW todo, NEW done, NEW failed, NEW pc \in {"import", "associate"},
             cmd' = [pc |-> pc, by |-> by, todo |-> todo, done |-> done, failed |-> failed],
             IsSequence(todo), \A i \in Range(todo) \cup done : ItemTyped(i, incoming),
             pc = "associate" => todo # <<>>
      PROVE  CmdTyped'
  <2>1. /\ cmd'.pc = pc /\ cmd'.todo = todo /\ cmd'.done = done
        /\ cmd' = [pc |-> cmd'.pc, by |-> cmd'.by, todo |-> cmd'.todo,
                   done |-> cmd'.done, failed |-> cmd'.failed]
    BY <1>c, CommandStarts
  <2>2. CmdShaped'
    BY <2>1 DEF CmdShaped
  <2> QED
    BY <1>c, <1>t, <2>1, <2>2 DEF CmdTyped
<1>1. CASE StartDirect
  <2>1. PICK n \in Names, a \in Directs : Starting("direct", <<Item(n, a)>>)
    BY <1>1 DEF StartDirect
  <2>2. /\ <<Item(n, a)>> \in Seq({Item(n, a)}) /\ ItemTyped(Item(n, a), incoming)
    BY CaptureAssumption DEF Item, ItemTyped
  <2> DEFINE todo == <<Item(n, a)>>
  <2>3. IsSequence(todo) /\ Range(todo) \subseteq {Item(n, a)}
    BY <2>2, SequencesStay
  <2>4. cmd' = [pc |-> "import", by |-> "direct", todo |-> todo, done |-> {},
                failed |-> FALSE]
    BY <2>1 DEF Starting
  <2> HIDE DEF todo
  <2>5. \A i \in Range(todo) \cup {} : ItemTyped(i, incoming)
    BY <2>2, <2>3
  <2> DEFINE done == {}
             no == FALSE
             pc == "import"
  <2>6. /\ cmd' = [pc |-> pc, by |-> "direct", todo |-> todo, done |-> done, failed |-> no]
        /\ pc \in {"import", "associate"} /\ pc # "associate"
        /\ \A i \in Range(todo) \cup done : ItemTyped(i, incoming)
    BY <2>4, <2>5
  <2> HIDE DEF done, no, pc
  <2> QED
    BY <1>c, <2>3, <2>6
<1>2. CASE StartWizard
  <2>1. PICK chosen \in SUBSET Names :
           \E answer \in [chosen -> UNION {Selections(n, incoming[n]) : n \in chosen}] :
              /\ \A n \in chosen : answer[n] \in Selections(n, incoming[n])
              /\ Starting("wizard", SetToSeq({Item(n, answer[n]) : n \in chosen}))
    BY <1>2 DEF StartWizard
  <2>2. PICK answer :
              /\ \A n \in chosen : answer[n] \in Selections(n, incoming[n])
              /\ Starting("wizard", SetToSeq({Item(n, answer[n]) : n \in chosen}))
    BY <2>1
  <2> DEFINE todo == SetToSeq({Item(n, answer[n]) : n \in chosen})
             done == {}
             no == FALSE
             pc == "import"
  <2>3. IsSequence(todo) /\ Range(todo) = {Item(n, answer[n]) : n \in chosen}
    BY ItemsAreListed
  <2>4. ASSUME NEW n \in chosen PROVE ItemTyped(Item(n, answer[n]), incoming)
    <3>1. answer[n].mode \in Modes \cup {"unset"}
      BY <2>2, SelectionsTyped DEF Typed, SettingsTyped
    <3> QED
      BY <3>1 DEF Item, ItemTyped
  <2>5. \A i \in Range(todo) : ItemTyped(i, incoming)
    BY <2>3, <2>4
  <2>6. /\ cmd' = [pc |-> pc, by |-> "wizard", todo |-> todo, done |-> done, failed |-> no]
    BY <2>2 DEF Starting
  <2> HIDE DEF todo
  <2>7. /\ pc \in {"import", "associate"} /\ pc # "associate"
        /\ \A i \in Range(todo) \cup done : ItemTyped(i, incoming)
    BY <2>5
  <2> HIDE DEF done, no, pc
  <2> QED
    BY <1>c, <2>3, <2>6, <2>7
<1>3. CASE StartWorkflow
  <2> DEFINE todo == SetToSeq({Item(n, manifest[n]) : n \in Listed})
             done == {}
             no == FALSE
             pc == "import"
  <2>1. Listed \in SUBSET Names
    BY DEF Listed
  <2>2. IsSequence(todo) /\ Range(todo) = {Item(n, manifest[n]) : n \in Listed}
    BY <2>1, ItemsAreListed
  <2>3. ASSUME NEW n \in Listed PROVE ItemTyped(Item(n, manifest[n]), incoming)
    BY DEF Item, ItemTyped, Listed, Typed, SettingsTyped
  <2>4. \A i \in Range(todo) : ItemTyped(i, incoming)
    BY <2>2, <2>3
  <2>5. /\ cmd' = [pc |-> pc, by |-> "workflow", todo |-> todo, done |-> done, failed |-> no]
    BY <1>3 DEF StartWorkflow, Starting
  <2> HIDE DEF todo
  <2>6. /\ pc \in {"import", "associate"} /\ pc # "associate"
        /\ \A i \in Range(todo) \cup done : ItemTyped(i, incoming)
    BY <2>4
  <2> HIDE DEF done, no, pc
  <2> QED
    BY <1>c, <2>2, <2>5, <2>6
<1>r. ASSUME cmd.pc \in {"import", "associate"}, cmd.todo # <<>>, cmd' = Refused
      PROVE  CmdTyped'
  <2>1. CASE cmd.by = "direct"
    BY <1>r, <1>i, <2>1 DEF Refused
  <2>2. CASE cmd.by # "direct"
    <3> DEFINE todo == Tail(cmd.todo)
               yes == TRUE
               pc == "import"
    <3>1. cmd' = [pc |-> pc, by |-> cmd.by, todo |-> todo, done |-> cmd.done,
                  failed |-> yes]
      BY <1>r, <2>2 DEF Refused
    <3>2. /\ IsSequence(todo) /\ \A i \in Range(todo) \cup cmd.done : ItemTyped(i, incoming)
      BY <1>r, OneAfterTheOther DEF Typed, CmdTyped
    <3>3. pc \in {"import", "associate"} /\ pc # "associate"
      OBVIOUS
    <3> HIDE DEF todo, yes, pc
    <3> QED
      BY <1>c, <3>1, <3>2, <3>3
  <2> QED
    BY <2>1, <2>2
<1>4. CASE RefuseFile
  BY <1>4, <1>r DEF RefuseFile, Importing
<1>5. CASE AssociateNothing
  BY <1>5, <1>r DEF AssociateNothing, Typed, CmdTyped
<1>6. CASE EditManifest \/ ChangePolicy
  BY <1>6, <1>i DEF EditManifest, ChangePolicy
<1>7. CASE FinishDirect \/ MergeAssignments \/ StopBeforeAnalysis \/ Stop
  BY <1>7, <1>i DEF FinishDirect, MergeAssignments, StopBeforeAnalysis, Stop
<1>8. CASE AppendObservations
  <2> DEFINE pc == "associate"
  <2>1. /\ cmd' = [pc |-> pc, by |-> cmd.by, todo |-> cmd.todo, done |-> cmd.done,
                   failed |-> cmd.failed]
        /\ cmd.pc = "import" /\ cmd.todo # <<>>
    BY <1>8, AppendEffect
  <2>2. /\ IsSequence(cmd.todo)
        /\ \A i \in Range(cmd.todo) \cup cmd.done : ItemTyped(i, incoming)
    BY <2>1 DEF Typed, CmdTyped
  <2>3. pc \in {"import", "associate"}
    OBVIOUS
  <2> HIDE DEF pc
  <2> QED
    BY <1>c, <2>1, <2>2, <2>3
<1>9. CASE AssociateObservations
  <2>1. /\ cmd' = [pc |-> "register", by |-> cmd.by, todo |-> cmd.todo,
                   done |-> cmd.done, failed |-> cmd.failed, capture |-> cmd'.capture]
        /\ cmd.pc = "associate" /\ cmd.todo # <<>>
    BY <1>9, AssociateEffect
  <2> DEFINE c == cmd'
  <2>2. /\ c.pc = "register" /\ c.todo = cmd.todo /\ c.done = cmd.done
        /\ c.by = cmd.by /\ c.failed = cmd.failed
    BY <2>1
  <2>3. c = [pc |-> c.pc, by |-> c.by, todo |-> c.todo,
             done |-> c.done, failed |-> c.failed, capture |-> c.capture]
    BY <2>1, <2>2
  <2>4. CmdShaped'
    BY <2>2, <2>3 DEF CmdShaped
  <2> QED
    BY <1>t, <2>1, <2>2, <2>4 DEF CmdTyped, Typed
<1>10. CASE RegisterCapture
  <2> DEFINE todo == Tail(cmd.todo)
             done == cmd.done \cup {Current}
             pc == "import"
  <2>1. /\ cmd' = [pc |-> pc, by |-> cmd.by, todo |-> todo, done |-> done,
                   failed |-> cmd.failed]
        /\ cmd.pc = "register" /\ cmd.todo # <<>>
    BY <1>10, RegisterEffect
  <2>2. /\ IsSequence(cmd.todo)
        /\ \A i \in Range(cmd.todo) \cup cmd.done : ItemTyped(i, incoming)
    BY <2>1 DEF Typed, CmdTyped
  <2>3. IsSequence(todo) /\ Range(todo) \subseteq Range(cmd.todo)
        /\ Current \in Range(cmd.todo)
    BY <2>1, <2>2, OneAfterTheOther DEF Current
  <2>4. \A i \in Range(todo) \cup done : ItemTyped(i, incoming)
    BY <2>2, <2>3
  <2>5. pc \in {"import", "associate"} /\ pc # "associate"
    OBVIOUS
  <2> HIDE DEF pc, todo, done
  <2> QED
    BY <1>c, <2>1, <2>3, <2>4, <2>5
<1>11. CASE ResolveEndpoints \/ RefreshCaptures
  <2>1. cmd' = [pc |-> "refresh"] \/ cmd' = [pc |-> "label"]
    BY <1>11 DEF ResolveEndpoints, RefreshCaptures
  <2> QED
    BY <2>1 DEF CmdTyped, CmdShaped
<1>12. CASE LabelObservations
  BY <1>12, <1>i DEF LabelObservations
<1>13. CASE UNCHANGED vars
  BY <1>13 DEF vars, Typed, CmdTyped, CmdShaped
<1> QED
  BY <1>1, <1>2, <1>3, <1>4, <1>5, <1>6, <1>7, <1>8, <1>9, <1>10, <1>11, <1>12, <1>13
     DEF Next

LEMMA SettingsStayTyped ==
    ASSUME Typed, [Next]_vars
    PROVE  SettingsTyped'
<1>1. journey' = journey /\ incoming' = incoming
  BY TrafficStays
<1>2. CASE EditManifest
  <2>1. PICK n \in Names, e \in Entries : manifest' = [manifest EXCEPT ![n] = e]
    BY <1>2 DEF EditManifest
  <2>2. manifest = [m \in Names |-> manifest[m]] /\ e.mode \in Modes \cup {"unset"}
    BY CaptureAssumption DEF Typed, SettingsTyped
  <2>3. /\ manifest' = [m \in Names |-> manifest'[m]]
        /\ \A m \in Names : manifest'[m] = IF m = n THEN e ELSE manifest[m]
    BY <2>1, <2>2
  <2>4. policy' = policy
    BY <1>2 DEF EditManifest, settings
  <2> QED
    BY <1>1, <2>2, <2>3, <2>4 DEF Typed, SettingsTyped
<1>3. CASE MergeAssignments
  <2> DEFINE merged(n) == \E i \in cmd.done : i.name = n
             item(n) == CHOOSE i \in cmd.done : i.name = n
  <2>1. manifest' = [n \in Names |-> IF merged(n) THEN item(n).with ELSE manifest[n]]
    BY <1>3 DEF MergeAssignments
  <2>2. ASSUME NEW n \in Names, merged(n) PROVE item(n).with.mode \in Modes \cup {"unset"}
    <3>1. item(n) \in cmd.done
      BY <2>2
    <3> QED
      BY <1>3, <3>1 DEF MergeAssignments, Finished, Typed, CmdTyped, Busy, ItemTyped
  <2> HIDE DEF merged, item
  <2>3. /\ manifest' = [n \in Names |-> manifest'[n]]
        /\ \A n \in Names : manifest'[n] = IF merged(n) THEN item(n).with ELSE manifest[n]
    BY <2>1
  <2>4. policy' = policy
    BY <1>3 DEF MergeAssignments, settings
  <2> QED
    BY <1>1, <2>2, <2>3, <2>4 DEF Typed, SettingsTyped
<1>4. CASE ChangePolicy
  BY <1>1, <1>4 DEF ChangePolicy, Typed, SettingsTyped
<1>5. CASE manifest' = manifest /\ policy' = policy
  BY <1>1, <1>5 DEF Typed, SettingsTyped
<1>6. StartDirect \/ StartWizard \/ StartWorkflow => manifest' = manifest /\ policy' = policy
  BY DEF StartDirect, StartWizard, StartWorkflow, Starting, settings
<1>7. RefuseFile \/ AssociateNothing \/ AppendObservations \/ AssociateObservations
        \/ RegisterCapture => manifest' = manifest /\ policy' = policy
  BY DEF RefuseFile, AssociateNothing, AppendObservations, AssociateObservations,
         RegisterCapture, settings
<1>8. FinishDirect \/ StopBeforeAnalysis \/ Stop \/ ResolveEndpoints \/ RefreshCaptures
        \/ LabelObservations => manifest' = manifest /\ policy' = policy
  BY DEF FinishDirect, StopBeforeAnalysis, Stop, ResolveEndpoints, RefreshCaptures,
         LabelObservations, settings
<1> QED
  BY <1>2, <1>3, <1>4, <1>5, <1>6, <1>7, <1>8 DEF Next, vars

LEMMA StoresStayTyped ==
    ASSUME Typed, MidwayInv, [Next]_vars
    PROVE  StoresTyped'
<1>1. CASE Quiet \/ ResolveEndpoints \/ UNCHANGED vars
  <2>1. UNCHANGED <<obs, registry, torn, whole>>
    BY <1>1 DEF Quiet, ResolveEndpoints, vars
  <2> QED
    BY <2>1 DEF Typed, StoresTyped
<1>2. CASE AppendObservations
  <2>1. Typed /\ StoresTyped
    BY DEF Typed
  <2> QED
    BY <1>2, <2>1, AppendEffect DEF StoresTyped
<1>3. CASE AssociateObservations
  <2>1. Typed /\ StoresTyped
    BY DEF Typed
  <2> QED
    BY <1>3, <2>1, AssociateEffect DEF StoresTyped
<1>4. CASE RegisterCapture
  <2>1. Typed /\ StoresTyped
    BY DEF Typed
  <2> QED
    BY <1>4, <2>1, RegisterEffect DEF StoresTyped
<1>5. CASE RefreshCaptures
  <2>1. Typed /\ StoresTyped
    BY DEF Typed
  <2> QED
    BY <1>5, <2>1, RefreshEffect DEF StoresTyped
<1>6. CASE LabelObservations
  <2>1. Typed /\ StoresTyped
    BY DEF Typed
  <2> QED
    BY <1>6, <2>1, LabelEffect DEF StoresTyped
<1> QED
  BY <1>1, <1>2, <1>3, <1>4, <1>5, <1>6, StepsByEffect

-----------------------------------------------------------------------------
(* Every step keeps each part of the invariant                             *)

LEMMA AgreeStep ==
    ASSUME CaptureInv, [Next]_vars
    PROVE  AgreeInv'
<1> USE DEF CaptureInv
<1>1. CASE Quiet \/ ResolveEndpoints \/ UNCHANGED vars
  <2>1. UNCHANGED <<obs, registry, torn, whole>>
    BY <1>1 DEF Quiet, ResolveEndpoints, vars
  <2> QED
    BY <2>1 DEF AgreeInv
<1>2. CASE AppendObservations
  <2> SUFFICES ASSUME NEW f \in Files
               PROVE  AgreeInv!(f)'
    BY DEF AgreeInv
  <2>1. AgreeInv!(f)
    BY DEF AgreeInv
  <2>2. CASE f = Current.file
    BY <1>2, <2>1, <2>2, AppendEffect
  <2>3. CASE f # Current.file
    BY <1>2, <2>1, <2>3, AppendEffect
  <2> QED
    BY <2>2, <2>3
<1>3. CASE AssociateObservations
  <2> SUFFICES ASSUME NEW f \in Files
               PROVE  AgreeInv!(f)'
    BY DEF AgreeInv
  <2>1. AgreeInv!(f)
    BY DEF AgreeInv
  <2>2. CASE f = Current.file
    <3>1. torn[f] # "no"
      BY <1>3, <2>2 DEF MidwayInv, Midway, AssociateObservations
    <3> QED
      BY <1>3, <2>1, <2>2, <3>1, AssociateEffect
  <2>3. CASE f # Current.file
    BY <1>3, <2>1, <2>3, AssociateEffect
  <2> QED
    BY <2>2, <2>3
<1>4. CASE RegisterCapture
  <2> SUFFICES ASSUME NEW f \in Files
               PROVE  AgreeInv!(f)'
    BY DEF AgreeInv
  <2>1. AgreeInv!(f)
    BY DEF AgreeInv
  <2>2. CASE f = Current.file
    <3>1. cmd.pc = "register"
      BY <1>4, RegisterEffect
    <3>2. /\ obs[f] # Absent /\ obs[f].actor = Current.with.actor
          /\ cmd.capture # NoCapture /\ cmd.capture.actor = Current.with.actor
          /\ obs[f].captured /\ obs[f].mode = cmd.capture.mode
          /\ obs[f].relevance = cmd.capture.relevance
          /\ obs[f].session = cmd.capture.actor
      BY <2>2, <3>1 DEF MidwayInv, Midway
    <3>3. registry'[f] = cmd.capture /\ obs' = obs
      BY <1>4, <2>2, RegisterEffect
    <3> QED
      BY <3>2, <3>3
  <2>3. CASE f # Current.file
    BY <1>4, <2>1, <2>3, RegisterEffect
  <2> QED
    BY <2>2, <2>3
<1>5. CASE RefreshCaptures
  <2> SUFFICES ASSUME NEW f \in Files
               PROVE  AgreeInv!(f)'
    BY DEF AgreeInv
  <2>1. AgreeInv!(f)
    BY DEF AgreeInv
  <2> QED
    BY <1>5, <2>1, RefreshEffect DEF Refreshable
<1>6. CASE LabelObservations
  <2> SUFFICES ASSUME NEW f \in Files
               PROVE  AgreeInv!(f)'
    BY DEF AgreeInv
  <2>1. AgreeInv!(f)
    BY DEF AgreeInv
  <2> QED
    BY <1>6, <2>1, LabelEffect DEF Refreshable
<1> QED
  BY <1>1, <1>2, <1>3, <1>4, <1>5, <1>6, StepsByEffect

LEMMA RelevanceStep ==
    ASSUME CaptureInv, [Next]_vars
    PROVE  RelevanceInv'
<1> USE DEF CaptureInv
<1>j. journey' = journey
  BY TrafficStays
<1> SUFFICES ASSUME NEW f \in Files
             PROVE  /\ obs'[f] # Absent /\ obs'[f].captured
                          => Excludes(journey[f], obs'[f].relevance)
                    /\ registry'[f] # NoCapture
                          => Excludes(journey[f], registry'[f].relevance)
  BY <1>j DEF RelevanceInv, Excludes
<1>0. /\ obs[f] # Absent /\ obs[f].captured => Excludes(journey[f], obs[f].relevance)
      /\ registry[f] # NoCapture => Excludes(journey[f], registry[f].relevance)
  BY DEF RelevanceInv
<1>1. CASE Quiet \/ ResolveEndpoints \/ UNCHANGED vars
  <2>1. UNCHANGED <<obs, registry>>
    BY <1>1 DEF Quiet, ResolveEndpoints, vars
  <2> QED
    BY <1>0, <2>1
<1>2. CASE AppendObservations
  BY <1>0, <1>2, AppendEffect
<1>3. CASE AssociateObservations
  BY <1>0, <1>3, AssociateEffect
<1>4. CASE RegisterCapture
  <2>1. cmd.pc = "register"
    BY <1>4, RegisterEffect
  <2>2. CASE f = Current.file
    BY <1>0, <1>4, <2>1, <2>2, RegisterEffect DEF MidwayInv
  <2>3. CASE f # Current.file
    BY <1>0, <1>4, <2>3, RegisterEffect
  <2> QED
    BY <2>2, <2>3
<1>5. CASE RefreshCaptures
  BY <1>0, <1>5, RefreshEffect
<1>6. CASE LabelObservations
  BY <1>0, <1>6, LabelEffect DEF Refreshable
<1> QED
  BY <1>1, <1>2, <1>3, <1>4, <1>5, <1>6, StepsByEffect

LEMMA InventoryStep ==
    ASSUME CaptureInv, [Next]_vars
    PROVE  InventoryInv'
<1> USE DEF CaptureInv
<1>j. journey' = journey
  BY TrafficStays
<1> DEFINE Quieted(f) == whole'[f] = "inventory"
                            => f \in known' /\ Quiets(journey[f], obs'[f].relevance)
           Labelled == cmd'.pc = "label" =>
              \A f \in Files : registry'[f] # NoCapture /\ obs'[f] # Absent /\ obs'[f].captured
                 => f \in known' /\ Quiets(journey[f], registry'[f].relevance)
<1>p. ASSUME \A f \in known' : f \in Files /\ obs'[f] # Absent,
             \A f \in Files : Quieted(f),
             cmd'.pc = "refresh" => \A f \in Files : obs'[f] # Absent => f \in known',
             Labelled
      PROVE  InventoryInv'
  BY <1>j, <1>p DEF InventoryInv, Refreshable
<1>0. /\ \A f \in known : f \in Files /\ obs[f] # Absent
      /\ \A f \in Files :
            whole[f] = "inventory" => f \in known /\ Quiets(journey[f], obs[f].relevance)
  BY DEF InventoryInv
<1>1. CASE Quiet
  BY <1>0, <1>1, <1>p DEF Quiet
<1>2. CASE AppendObservations
  <2> DEFINE g == Current.file
  <2>1. /\ cmd'.pc = "associate" /\ known' = known /\ whole' = whole
        /\ obs'[g] # Absent /\ \A f \in Files \ {g} : obs'[f] = obs[f]
        /\ obs[g] # Absent => obs'[g].relevance = obs[g].relevance
    BY <1>2, AppendEffect
  <2>2. \A f \in Files : Quieted(f)
    <3> SUFFICES ASSUME NEW f \in Files, whole[f] = "inventory"
                 PROVE  f \in known /\ Quiets(journey[f], obs'[f].relevance)
      BY <2>1
    <3>1. f \in known /\ Quiets(journey[f], obs[f].relevance) /\ obs[f] # Absent
      BY <1>0
    <3>2. obs'[f].relevance = obs[f].relevance
      BY <2>1, <3>1
    <3> QED
      BY <3>1, <3>2
  <2> QED
    BY <1>0, <1>p, <2>1, <2>2
<1>3. CASE AssociateObservations
  <2> DEFINE g == Current.file
  <2>1. /\ cmd'.pc = "register" /\ known' = known /\ whole'[g] = "no" /\ obs'[g] # Absent
        /\ \A f \in Files \ {g} : obs'[f] = obs[f] /\ whole'[f] = whole[f]
    BY <1>3, AssociateEffect
  <2>2. \A f \in Files : Quieted(f)
    BY <1>0, <2>1
  <2> QED
    BY <1>0, <1>p, <2>1, <2>2
<1>4. CASE RegisterCapture
  <2> DEFINE g == Current.file
  <2>1. /\ cmd'.pc = "import" /\ UNCHANGED <<known, obs>> /\ whole'[g] = "import"
        /\ \A f \in Files \ {g} : whole'[f] = whole[f]
    BY <1>4, RegisterEffect
  <2>2. \A f \in Files : Quieted(f)
    BY <1>0, <2>1
  <2> QED
    BY <1>0, <1>p, <2>1, <2>2
<1>5. CASE ResolveEndpoints
  <2>1. /\ known' = {f \in Files : obs[f] # Absent} /\ cmd'.pc = "refresh"
        /\ UNCHANGED <<obs, whole>>
    BY <1>5 DEF ResolveEndpoints
  <2> QED
    BY <1>0, <1>p, <2>1
<1>6. CASE RefreshCaptures
  <2>1. /\ UNCHANGED <<obs, known>> /\ cmd'.pc = "label" /\ cmd.pc = "refresh"
        /\ \A f \in Files : whole'[f] = "inventory" => whole[f] = "inventory"
    BY <1>6, RefreshEffect
  <2>2. Labelled
    <3> SUFFICES ASSUME NEW f \in Files, registry'[f] # NoCapture, obs[f] # Absent,
                        obs[f].captured
                 PROVE  f \in known /\ Quiets(journey[f], registry'[f].relevance)
      BY <2>1
    <3>1. f \in known
      BY <2>1 DEF InventoryInv
    <3>2. Refreshable(f)
      BY <1>6, RefreshEffect DEF Refreshable
    <3> QED
      BY <1>6, <3>1, <3>2, RefreshEffect
  <2>3. \A f \in Files : Quieted(f)
    BY <1>0, <2>1
  <2> QED
    BY <1>0, <1>p, <2>1, <2>2, <2>3
<1>7. CASE LabelObservations
  <2>1. /\ known' = known /\ cmd.pc = "label" /\ cmd' = Idle
        /\ \A f \in Files : obs[f] # Absent => obs'[f] # Absent
    BY <1>7, LabelEffect DEF Refreshable
  <2>2. ASSUME NEW f \in Files PROVE Quieted(f)
    <3>1. CASE Refreshable(f)
      <4>1. f \in known /\ Quiets(journey[f], registry[f].relevance)
        BY <2>1, <3>1 DEF InventoryInv
      <4> QED
        BY <1>7, <2>1, <3>1, <4>1, LabelEffect
    <3>2. CASE ~Refreshable(f)
      BY <1>0, <1>7, <2>1, <3>2, LabelEffect
    <3> QED
      BY <3>1, <3>2
  <2>3. cmd'.pc = "idle"
    BY <2>1 DEF Idle
  <2> QED
    BY <1>0, <1>p, <2>1, <2>2, <2>3
<1>8. CASE UNCHANGED vars
  BY <1>8, <1>p DEF vars, InventoryInv, Refreshable
<1> QED
  BY <1>1, <1>2, <1>3, <1>4, <1>5, <1>6, <1>7, <1>8, StepsByEffect

LEMMA MidwayStep ==
    ASSUME CaptureInv, [Next]_vars
    PROVE  MidwayInv'
<1> USE DEF CaptureInv, Midway
<1>1. CASE Quiet
  BY <1>1 DEF Quiet, MidwayInv
<1>2. CASE AppendObservations
  <2> DEFINE f == Current.file
  <2>1. Typed
    OBVIOUS
  <2>2. /\ cmd' = [pc |-> "associate", by |-> cmd.by, todo |-> cmd.todo,
                   done |-> cmd.done, failed |-> cmd.failed]
        /\ f \in Files /\ torn'[f] # "no" /\ obs'[f] # Absent
        /\ obs'[f].actor = Current.with.actor
    BY <1>2, <2>1, AppendEffect
  <2>3. cmd'.pc = "associate" /\ cmd'.todo = cmd.todo
    BY <2>2
  <2>4. Current' = Current
    BY <2>3 DEF Current
  <2> QED
    BY <2>2, <2>3, <2>4 DEF MidwayInv
<1>3. CASE AssociateObservations
  <2> DEFINE f == Current.file
             a == Current.with
             c == cmd'.capture
             x == SelectedContext(registry[f], a)
  <2>1. cmd'.pc = "register" /\ Current' = Current /\ cmd.pc = "associate"
    <3>1. Typed /\ MidwayInv
      OBVIOUS
    <3>2. /\ cmd.pc = "associate"
          /\ cmd' = [pc |-> "register", by |-> cmd.by, todo |-> cmd.todo,
                     done |-> cmd.done, failed |-> cmd.failed, capture |-> cmd'.capture]
      BY <1>3, <3>1, AssociateEffect
    <3>3. cmd'.pc = "register" /\ cmd'.todo = cmd.todo
      BY <3>2
    <3> QED
      BY <3>2, <3>3 DEF Current
  <2>2. f \in Files /\ torn[f] # "no" /\ obs[f].actor = a.actor
    <3>1. MidwayInv /\ Midway
      BY <2>1
    <3> QED
      BY <3>1 DEF MidwayInv
  <2>3. /\ obs'[f] # Absent /\ torn' = torn /\ obs'[f].actor = a.actor
        /\ c # NoCapture /\ c.actor = a.actor /\ whole'[f] = "no"
        /\ obs'[f].captured /\ obs'[f].mode = c.mode /\ obs'[f].relevance = c.relevance
        /\ obs'[f].session = c.actor /\ Excludes(journey[f], c.relevance)
        /\ c.mode = x.mode /\ c.declared = x.declared
        /\ registry' = registry /\ journey' = journey
    <3>1. Typed /\ MidwayInv
      OBVIOUS
    <3> QED
      BY <1>3, <2>2, <3>1, AssociateEffect
  <2>4. /\ a.mode \in {"unset", x.mode}
        /\ registry[f] # NoCapture =>
              /\ x.mode # registry[f].mode => x.mode = a.mode
              /\ x.declared # registry[f].declared => x.declared = a.intent
    BY SelectionCarriesOver
  <2> HIDE DEF x
  <2> QED
    BY <2>1, <2>2, <2>3, <2>4 DEF MidwayInv, Excludes
<1>4. CASE RegisterCapture \/ ResolveEndpoints \/ RefreshCaptures \/ LabelObservations
  <2>1. CASE RegisterCapture
    BY <2>1, RegisterEffect DEF MidwayInv
  <2>2. CASE ResolveEndpoints
    BY <2>2 DEF ResolveEndpoints, MidwayInv
  <2>3. CASE RefreshCaptures
    BY <2>3 DEF RefreshCaptures, MidwayInv
  <2>4. CASE LabelObservations
    BY <2>4 DEF LabelObservations, Idle, MidwayInv
  <2> QED
    BY <1>4, <2>1, <2>2, <2>3, <2>4
<1>5. CASE UNCHANGED vars
  BY <1>5 DEF vars, MidwayInv, Current, Excludes
<1> QED
  BY <1>1, <1>2, <1>3, <1>4, <1>5, StepsByEffect

\* The entries of the manifest stay as they are while a workflow imports.
LEMMA WorkflowKeeps ==
    ASSUME WorkflowInv, cmd.by = "workflow", Busy, Busy', cmd'.by = "workflow",
           UNCHANGED <<incoming, manifest>>,
           Range(cmd'.todo) \subseteq Range(cmd.todo),
           ~cmd'.failed =>
              /\ ~cmd.failed
              /\ \A n \in Listed : Alone(n) =>
                    /\ Item(n, manifest[n]) \in Range(cmd.todo)
                          => Item(n, manifest[n]) \in Range(cmd'.todo) \/ AsListed(n)'
                    /\ AsListed(n) => AsListed(n)'
    PROVE  WorkflowInv'
<1>1. Listed' = Listed
  BY DEF Listed
<1>2. \A n : Item(n, manifest[n])' = Item(n, manifest[n]) /\ (Alone(n)' <=> Alone(n))
  BY <1>1 DEF Item, Alone
<1> QED
  BY <1>1, <1>2 DEF WorkflowInv

LEMMA WorkflowStep ==
    ASSUME CaptureInv, [Next]_vars
    PROVE  WorkflowInv'
<1> USE DEF CaptureInv
<1>i. ~Busy' => WorkflowInv'
  BY DEF WorkflowInv
<1>d. cmd'.by # "workflow" => WorkflowInv'
  BY DEF WorkflowInv
<1>1. CASE StartDirect \/ StartWizard
  <2>1. \A by, todo : Starting(by, todo) => cmd'.by = by
    BY DEF Starting
  <2>2. (\E todo : Starting("direct", todo)) \/ (\E todo : Starting("wizard", todo))
    BY <1>1 DEF StartDirect, StartWizard
  <2> QED
    BY <2>1, <2>2, <1>d
<1>2. CASE StartWorkflow
  <2> DEFINE todo == SetToSeq({Item(n, manifest[n]) : n \in Listed})
  <2>1. Listed \in SUBSET Names
    BY DEF Listed
  <2>2. Range(todo) = {Item(n, manifest[n]) : n \in Listed}
    BY <2>1, ItemsAreListed
  <2>3. /\ cmd' = [pc |-> "import", by |-> "workflow", todo |-> todo, done |-> {},
                   failed |-> FALSE]
        /\ UNCHANGED <<incoming, manifest>>
    BY <1>2 DEF StartWorkflow, Starting, settings
  <2> HIDE DEF todo
  <2>4. cmd'.todo = todo
    BY <2>3
  <2>5. Listed' = Listed /\ \A n : Item(n, manifest[n])' = Item(n, manifest[n])
    BY <2>3 DEF Listed, Item
  <2> QED
    BY <2>2, <2>4, <2>5 DEF WorkflowInv
<1>r. ASSUME cmd.pc \in {"import", "associate"}, cmd.todo # <<>>, cmd' = Refused,
             UNCHANGED <<incoming, manifest>>
      PROVE  WorkflowInv'
  <2>1. CASE cmd.by = "direct"
    BY <1>r, <1>i, <2>1 DEF Refused, Idle, Busy
  <2>2. CASE cmd.by # "direct"
    <3>1. /\ cmd'.by = cmd.by /\ cmd'.todo = Tail(cmd.todo) /\ cmd'.failed
          /\ cmd'.pc = "import"
      BY <1>r, <2>2 DEF Refused
    <3>2. Range(cmd'.todo) \subseteq Range(cmd.todo)
      BY <1>r, <3>1, OneAfterTheOther DEF Typed, CmdTyped, Busy
    <3>3. Busy /\ Busy'
      BY <1>r, <3>1 DEF Busy
    <3>4. CASE cmd.by = "workflow"
      BY <1>r, <3>1, <3>2, <3>3, <3>4, WorkflowKeeps
    <3> QED
      BY <3>1, <3>4, <1>d
  <2> QED
    BY <2>1, <2>2
<1>3. CASE RefuseFile \/ AssociateNothing
  BY <1>3, <1>r DEF RefuseFile, Importing, AssociateNothing, Typed, CmdTyped, Busy, Midway,
                    settings
<1>4. CASE EditManifest \/ ChangePolicy \/ FinishDirect \/ MergeAssignments
             \/ StopBeforeAnalysis \/ Stop \/ LabelObservations
  <2>1. cmd' = Idle
    BY <1>4 DEF EditManifest, ChangePolicy, FinishDirect, MergeAssignments,
                StopBeforeAnalysis, Stop, LabelObservations
  <2> QED
    BY <2>1, <1>i DEF Idle, Busy
<1>5. CASE ResolveEndpoints \/ RefreshCaptures
  <2>1. cmd' = [pc |-> "refresh"] \/ cmd' = [pc |-> "label"]
    BY <1>5 DEF ResolveEndpoints, RefreshCaptures
  <2> QED
    BY <2>1, <1>i DEF Busy
<1>6. CASE AppendObservations \/ AssociateObservations
  <2>1. /\ cmd'.by = cmd.by /\ cmd'.todo = cmd.todo /\ cmd'.failed = cmd.failed
        /\ cmd.pc \in {"import", "associate"} /\ cmd'.pc \in {"associate", "register"}
        /\ UNCHANGED <<incoming, manifest, registry>>
    <3>1. CASE AppendObservations
      BY <3>1, AppendEffect
    <3>2. CASE AssociateObservations
      <4>1. /\ cmd' = [pc |-> "register", by |-> cmd.by, todo |-> cmd.todo,
                       done |-> cmd.done, failed |-> cmd.failed, capture |-> cmd'.capture]
            /\ cmd.pc = "associate" /\ UNCHANGED <<incoming, manifest, registry>>
        BY <3>2, AssociateEffect
      <4> DEFINE c == cmd'.capture
      <4>2. cmd' = [pc |-> "register", by |-> cmd.by, todo |-> cmd.todo,
                    done |-> cmd.done, failed |-> cmd.failed, capture |-> c]
        BY <4>1
      <4> HIDE DEF c
      <4> QED
        BY <4>1, <4>2
    <3> QED
      BY <1>6, <3>1, <3>2
  <2>2. Busy /\ Busy'
    BY <2>1 DEF Busy
  <2>3. \A n : AsListed(n)' <=> AsListed(n)
    BY <2>1 DEF AsListed
  <2>4. CASE cmd.by = "workflow"
    BY <2>1, <2>2, <2>3, <2>4, WorkflowKeeps
  <2> QED
    BY <2>1, <2>4, <1>d
<1>7. CASE RegisterCapture
  <2> DEFINE f == Current.file
  <2>1. /\ cmd'.by = cmd.by /\ cmd'.todo = Tail(cmd.todo) /\ cmd'.failed = cmd.failed
        /\ cmd.pc = "register" /\ cmd'.pc = "import" /\ cmd.todo # <<>>
        /\ UNCHANGED <<incoming, manifest>>
        /\ registry'[f] = cmd.capture
        /\ \A g \in Files \ {f} : registry'[g] = registry[g]
    BY <1>7, RegisterEffect
  <2>2. Busy /\ Busy'
    BY <2>1 DEF Busy
  <2>3. /\ Current \in Range(cmd.todo) /\ Range(cmd'.todo) \subseteq Range(cmd.todo)
        /\ \A i \in Range(cmd.todo) : i = Current \/ i \in Range(cmd'.todo)
    BY <2>1, <2>2, OneAfterTheOther DEF Typed, CmdTyped, Current
  <2>4. /\ cmd.capture # NoCapture /\ cmd.capture.actor = Current.with.actor
        /\ Current.with.mode \in {"unset", cmd.capture.mode}
    BY <2>1 DEF MidwayInv
  <2>5. CASE cmd.by = "workflow"
    <3>1. PICK m \in Listed : Current = Item(m, manifest[m])
      BY <2>2, <2>3, <2>5 DEF WorkflowInv
    <3>2. f = incoming[m] /\ Current.with = manifest[m]
      BY <3>1 DEF Item
    <3>3. AsListed(m)'
      BY <2>1, <2>4, <3>2 DEF AsListed
    <3>4. ASSUME NEW n \in Listed, Alone(n), Item(n, manifest[n]) \in Range(cmd.todo)
          PROVE  Item(n, manifest[n]) \in Range(cmd'.todo) \/ AsListed(n)'
      <4>1. CASE Item(n, manifest[n]) = Current
        <5>1. incoming[n] = incoming[m]
          BY <3>2, <4>1 DEF Item
        <5>2. n = m
          BY <3>4, <5>1 DEF Alone
        <5> QED
          BY <3>3, <5>2
      <4> QED
        BY <2>3, <3>4, <4>1
    <3>5. ASSUME NEW n \in Listed, Alone(n), AsListed(n)
          PROVE  AsListed(n)'
      <4>1. CASE n = m
        BY <3>3, <4>1
      <4>2. CASE n # m
        <5>1. incoming[n] # f
          BY <3>2, <3>5, <4>2 DEF Alone
        <5>2. incoming[n] \in Files
          BY DEF Listed, Typed, SettingsTyped
        <5> QED
          BY <2>1, <3>5, <5>1, <5>2 DEF AsListed
      <4> QED
        BY <4>1, <4>2
    <3> QED
      BY <2>1, <2>2, <2>3, <2>5, <3>4, <3>5, WorkflowKeeps
  <2> QED
    BY <2>1, <2>5, <1>d
<1>8. CASE UNCHANGED vars
  <2>1. UNCHANGED <<cmd, incoming, manifest, registry>>
    BY <1>8 DEF vars
  <2>2. \A n : AsListed(n)' <=> AsListed(n)
    BY <2>1 DEF AsListed
  <2>3. CASE cmd.by = "workflow" /\ Busy
    <3>1. Busy'
      BY <2>1, <2>3 DEF Busy
    <3> QED
      BY <2>1, <2>2, <2>3, <3>1, WorkflowKeeps
  <2> QED
    BY <2>1, <2>3 DEF WorkflowInv, Busy
<1> QED
  BY <1>1, <1>2, <1>3, <1>4, <1>5, <1>6, <1>7, <1>8 DEF Next

-----------------------------------------------------------------------------

LEMMA InitCapture ==
    ASSUME Init
    PROVE  CaptureInv
<1> USE DEF Init
<1>1. cmd.pc = "idle"
  BY DEF Idle
<1>2. Typed
  BY <1>1, CaptureAssumption
     DEF Typed, CmdTyped, CmdShaped, Busy, Midway, SettingsTyped, StoresTyped, NoEntry
<1>3. AgreeInv /\ RelevanceInv
  BY DEF AgreeInv, RelevanceInv
<1>4. InventoryInv /\ MidwayInv /\ WorkflowInv
  BY <1>1 DEF InventoryInv, MidwayInv, WorkflowInv, Busy, Midway
<1> QED
  BY <1>2, <1>3, <1>4 DEF CaptureInv

LEMMA CaptureStep ==
    ASSUME CaptureInv, [Next]_vars
    PROVE  CaptureInv'
<1>1. Typed /\ MidwayInv
  BY DEF CaptureInv
<1>2. Typed'
  BY <1>1, CmdStaysTyped, SettingsStayTyped, StoresStayTyped DEF Typed
<1> QED
  BY <1>2, AgreeStep, RelevanceStep, InventoryStep, MidwayStep, WorkflowStep DEF CaptureInv

\* The invariant the rest follows from: wherever a command is stopped between
\* append_observations, associate_capture and add_capture, and wherever an
\* inventory is between the two files, what they hold is accounted for.
THEOREM CaptureInvariant == Spec => []CaptureInv
<1>1. Init => CaptureInv
  BY InitCapture
<1>2. CaptureInv /\ [Next]_vars => CaptureInv'
  BY CaptureStep
<1> QED
  BY <1>1, <1>2, PTL DEF Spec

\* captures.yaml and observations.yaml, written one after the other by
\* ingest_capture and by refresh_capture_analysis, tell the same mode and
\* relevance at rest wherever a command that wrote both was the last to touch
\* them, and the same actor wherever the last import was whole.
THEOREM SettledFilesAgree == Spec => []FilesAgree
<1>1. CaptureInv => FilesAgree
  BY DEF CaptureInv, AgreeInv, FilesAgree
<1> QED
  BY <1>1, CaptureInvariant, PTL

\* A probe or mixed capture, a protocol request, traffic out of scope and a
\* suppressed endpoint never count as ordinary behaviour (captures/domain.py).
LEMMA ExcludedNeverCounts ==
    ASSUME NEW o, NEW e, o.captured = TRUE,
           \/ e.method \in Protocol \/ Probe(o)
           \/ o.relevance[e.id] \in {"NOISE", "PROTOCOL_SUPPORT"}
    PROVE  ~Counts(o, e)
  BY DEF Counts, SupportsPassiveBaseline, SupportsNormalBehavior, SupportsOwnership, Probe

\* Nothing that was excluded counts as normal, for an endpoint, a workflow or
\* an owner, whatever imports and inventories ran and wherever they stopped.
THEOREM ExcludedTrafficStaysOut == Spec => []OnlyNormalTrafficCounts
<1>1. ASSUME CaptureInv PROVE OnlyNormalTrafficCounts
  <2> USE <1>1 DEF CaptureInv
  <2> SUFFICES ASSUME NEW f \in Files, obs[f] # Absent, obs[f].captured,
                      NEW e \in journey[f],
                      \/ /\ cmd = Idle /\ torn[f] = "no"
                         /\ registry[f].mode \in {"RESEARCHER_PROBE", "MIXED"}
                      \/ e.method \in Protocol \/ e.outside
                      \/ cmd = Idle /\ whole[f] = "inventory" /\ f \in known /\ Background(e)
               PROVE  ~Counts(obs[f], e)
    BY DEF OnlyNormalTrafficCounts
  <2>1. CASE torn[f] = "no" /\ registry[f].mode \in {"RESEARCHER_PROBE", "MIXED"}
    <3>1. obs[f].mode = registry[f].mode
      BY <2>1 DEF AgreeInv
    <3> QED
      BY <2>1, <3>1, ExcludedNeverCounts DEF Probe
  <2>2. CASE e.method \in Protocol \/ e.outside
    <3>1. obs[f].relevance[e.id] \in {"NOISE", "PROTOCOL_SUPPORT"}
      BY <2>2 DEF RelevanceInv, Excludes
    <3> QED
      BY <3>1, ExcludedNeverCounts
  <2>3. CASE whole[f] = "inventory" /\ Background(e)
    <3>1. obs[f].relevance[e.id] \in {"NOISE", "PROTOCOL_SUPPORT"}
      BY <2>3 DEF InventoryInv, Quiets
    <3> QED
      BY <3>1, ExcludedNeverCounts
  <2> QED
    BY <2>1, <2>2, <2>3
<1> QED
  BY <1>1, CaptureInvariant, PTL

\* _selected_context keeps what the researcher settled: a mode or an intent of
\* a registered capture changes only in the import of that file that asks for
\* the new one, never by a default, an inventory or a command cut short.
THEOREM SettledContextStays == Spec => ResearcherContextSurvives
<1> DEFINE Asked(f) == cmd.pc = "register" /\ Current.file = f
           Survives(f) == registry[f] # NoCapture =>
              /\ registry[f].modeSource = "USER" /\ registry'[f].mode # registry[f].mode
                   => Asked(f) /\ Current.with.mode = registry'[f].mode
              /\ registry[f].declared # Undeclared
                   /\ registry'[f].declared # registry[f].declared
                   => Asked(f) /\ Current.with.intent = registry'[f].declared
<1>1. ASSUME CaptureInv, [Next]_vars, NEW f \in Files PROVE Survives(f)
  <2> USE <1>1 DEF CaptureInv
  <2>1. CASE registry'[f] = registry[f]
    BY <2>1
  <2>2. CASE RegisterCapture
    <3>1. CASE f = Current.file
      <4>1. cmd.pc = "register" /\ registry'[f] = cmd.capture
        BY <2>2, <3>1, RegisterEffect
      <4>2. registry[f] # NoCapture =>
               /\ cmd.capture.mode # registry[f].mode
                     => cmd.capture.mode = Current.with.mode
               /\ cmd.capture.declared # registry[f].declared
                     => cmd.capture.declared = Current.with.intent
        BY <3>1, <4>1 DEF MidwayInv
      <4> QED
        BY <3>1, <4>1, <4>2
    <3>2. CASE f # Current.file
      BY <2>1, <2>2, <3>2, RegisterEffect
    <3> QED
      BY <3>1, <3>2
  <2>3. CASE RefreshCaptures
    <3>1. \/ registry'[f] = registry[f]
          \/ registry'[f].mode = registry[f].mode /\ registry'[f].declared = registry[f].declared
      BY <2>3, RefreshEffect
    <3> QED
      BY <2>1, <3>1
  <2>4. CASE Quiet \/ AppendObservations \/ AssociateObservations \/ ResolveEndpoints
                \/ LabelObservations \/ UNCHANGED vars
    <3>1. registry' = registry
      BY <2>4 DEF Quiet, AppendObservations, AssociateObservations, ResolveEndpoints,
                  LabelObservations, vars
    <3> QED
      BY <2>1, <3>1
  <2> QED
    BY <2>2, <2>3, <2>4, StepsByEffect
<1>2. CaptureInv /\ [Next]_vars => [\A f \in Files : Survives(f)]_vars
  BY <1>1
<1> QED
  BY <1>2, CaptureInvariant, PTL DEF Spec, ResearcherContextSurvives

\* hunt workflow goes on to the analysis only when every file its manifest
\* lists was imported, under the actor and the mode listed.
THEOREM WorkflowFollowsManifest == Spec => AnalysisFollowsManifest
<1> DEFINE Follows ==
              cmd.pc = "import" /\ cmd'.pc = "refresh" =>
                 \A n \in Listed :
                    (\A m \in Listed \ {n} : incoming[m] # incoming[n]) =>
                       /\ registry[incoming[n]] # NoCapture
                       /\ registry[incoming[n]].actor = manifest[n].actor
                       /\ manifest[n].mode \in {"unset", registry[incoming[n]].mode}
<1>1. ASSUME CaptureInv, [Next]_vars, cmd.pc = "import", cmd'.pc = "refresh"
      PROVE  \A n \in Listed : Alone(n) => AsListed(n)
  <2>1. ResolveEndpoints
    <3>1. ~Quiet /\ ~UNCHANGED vars
      BY <1>1 DEF Quiet, vars
    <3>2. ~AppendObservations /\ ~AssociateObservations /\ ~RegisterCapture
      <4>1. ~AssociateObservations
        BY <1>1 DEF AssociateObservations
      <4>2. ~RegisterCapture
        BY <1>1 DEF RegisterCapture
      <4>3. AppendObservations => cmd'.pc = "associate"
        BY <1>1, AppendEffect DEF CaptureInv
      <4> QED
        BY <1>1, <4>1, <4>2, <4>3
    <3>3. ~RefreshCaptures /\ ~LabelObservations
      BY <1>1 DEF RefreshCaptures, LabelObservations
    <3> QED
      BY <1>1, <3>1, <3>2, <3>3, StepsByEffect
  <2>2. cmd.by = "workflow" /\ ~cmd.failed /\ cmd.todo = <<>>
    BY <1>1, <2>1 DEF ResolveEndpoints, Finished, Idle
  <2>3. Range(cmd.todo) = {}
    <3> DEFINE s == cmd.todo
    <3>1. s \in Seq({}) /\ Len(s) = 0
      BY <2>2, EmptySeq
    <3>2. DOMAIN s = {}
      BY <3>1, LenProperties
    <3> QED
      BY <3>2 DEF Range
  <2> QED
    BY <1>1, <2>2, <2>3 DEF CaptureInv, WorkflowInv, Busy
<1>2. CaptureInv /\ [Next]_vars => [Follows]_vars
  BY <1>1 DEF Alone, AsListed
<1> QED
  BY <1>2, CaptureInvariant, PTL DEF Spec, AnalysisFollowsManifest

-----------------------------------------------------------------------------
(* Three formats, one exchange                                             *)

\* A HAR entry gives its URL, its method and its status itself.
LEMMA HarReads ==
    ASSUME NEW x, NEW h \in HarExports(x)
    PROVE  HarRead(h) = Fact(x.url, Otherwise(x.method, "GET"), x.status,
                             HeaderAuthentication(x.creds), x.sensitive)
<1>1. /\ h.url = x.url /\ h.method = x.method /\ h.status = x.status
      /\ h.creds = x.creds /\ h.listed = x.creds.cookie /\ h.sensitive = x.sensitive
  BY DEF HarExports
<1>2. HarAuthentication(h.creds, h.listed) = HeaderAuthentication(x.creds)
  BY <1>1 DEF HarAuthentication, HeaderAuthentication, Mechanisms
<1> QED
  BY <1>1, <1>2 DEF HarRead

\* Whatever Burp leaves out, its item reads as the HAR entry does.
LEMMA BurpReadsAsHar ==
    ASSUME NEW x, NEW h \in HarExports(x), NEW b \in BurpExports(x)
    PROVE  BurpRead(b) = HarRead(h) /\ b.creds = x.creds
<1> DEFINE Target == Otherwise(x.url.path, "/")
<1> DEFINE Meant == Fact([host |-> x.url.host, path |-> Target],
                         Otherwise(x.method, "GET"), x.status,
                         HeaderAuthentication(x.creds), x.sensitive)
<1>1. PICK url \in {x.url, NoUrl}, m \in {x.method, None}, s \in {x.status, None} :
        b = [url |-> url, host |-> x.url.host, method |-> m, status |-> s,
             request |-> LineOf(x), response |-> LineOf(x), creds |-> x.creds,
             sensitive |-> x.sensitive]
  BY DEF BurpExports
<1>2. /\ b.url = url /\ b.host = x.url.host /\ b.method = m /\ b.status = s
      /\ b.request.method = x.method /\ b.request.target = x.url.path
      /\ b.response.status = x.status /\ b.creds = x.creds /\ b.sensitive = x.sensitive
  BY <1>1 DEF LineOf
<1>3. /\ Otherwise(b.method, Otherwise(b.request.method, "GET")) = Otherwise(x.method, "GET")
      /\ Otherwise(b.status, b.response.status) = x.status
  BY <1>2 DEF Otherwise
<1>4. HeaderAuthentication(b.creds) = HeaderAuthentication(x.creds)
  BY <1>2
<1>5. BurpRead(b) = Meant
  <2> DEFINE read == IF b.url.host # None THEN b.url
                     ELSE [host |-> b.host, path |-> Otherwise(b.request.target, "/")]
  <2>1. BurpRead(b) = Fact(read, Otherwise(x.method, "GET"), x.status,
                           HeaderAuthentication(x.creds), x.sensitive)
    BY <1>2, <1>3, <1>4 DEF BurpRead
  <2>2. \/ read = x.url
        \/ read = [host |-> x.url.host, path |-> Target]
    BY <1>1, <1>2 DEF NoUrl
  <2> HIDE DEF read
  <2> QED
    BY <2>1, <2>2 DEF Fact, Otherwise, None
<1>6. HarRead(h) = Meant
  BY HarReads DEF Fact, Otherwise, None
<1> QED
  BY <1>2, <1>5, <1>6

\* Nor does what Caido leaves out change what its entry reads as.
LEMMA CaidoReadsAsHar ==
    ASSUME NEW x, NEW h \in HarExports(x), NEW b \in CaidoExports(x)
    PROVE  CaidoRead(b) = HarRead(h)
<1> DEFINE Path == Otherwise(x.url.path, "/")
<1> DEFINE Meant == Fact([host |-> x.url.host, path |-> Path],
                         Otherwise(x.method, "GET"), x.status,
                         HeaderAuthentication(x.creds), x.sensitive)
<1>1. PICK url \in {x.url, NoUrl}, m \in {x.method, None}, s \in {x.status, None} :
        b = [url |-> url, host |-> x.url.host, path |-> x.url.path, method |-> m,
             status |-> s, request |-> LineOf(x), response |-> LineOf(x),
             creds |-> x.creds, sensitive |-> x.sensitive]
  BY DEF CaidoExports
<1>2. /\ b.url = url /\ b.host = x.url.host /\ b.path = x.url.path /\ b.method = m
      /\ b.status = s /\ b.request.method = x.method /\ b.response.status = x.status
      /\ b.creds = x.creds /\ b.sensitive = x.sensitive
  BY <1>1 DEF LineOf
<1>3. /\ Otherwise(b.method, Otherwise(b.request.method, "GET")) = Otherwise(x.method, "GET")
      /\ Otherwise(b.status, b.response.status) = x.status
  BY <1>2 DEF Otherwise
<1>4. HeaderAuthentication(b.creds) = HeaderAuthentication(x.creds)
  BY <1>2
<1>5. CaidoRead(b) = Meant
  <2> DEFINE read == IF b.url.host # None THEN b.url
                     ELSE [host |-> b.host, path |-> Otherwise(b.path, "/")]
  <2>1. CaidoRead(b) = Fact(read, Otherwise(x.method, "GET"), x.status,
                            HeaderAuthentication(x.creds), x.sensitive)
    BY <1>2, <1>3, <1>4 DEF CaidoRead
  <2>2. \/ read = x.url
        \/ read = [host |-> x.url.host, path |-> Path]
    BY <1>1, <1>2 DEF NoUrl
  <2> HIDE DEF read
  <2> QED
    BY <2>1, <2>2 DEF Fact, Otherwise, None
<1>6. HarRead(h) = Meant
  BY HarReads DEF Fact, Otherwise, None
<1> QED
  BY <1>5, <1>6

\* A request without listed cookies and the entry that lists them offer the
\* same credential: the list repeats the header.
LEMMA SameCandidate ==
    ASSUME NEW x, NEW h \in HarExports(x), NEW b \in BurpExports(x)
    PROVE  CandidateOf(HarRead(h), h.creds, h.listed) = CandidateOf(BurpRead(b), b.creds, FALSE)
<1>1. BurpRead(b) = HarRead(h) /\ b.creds = x.creds
  BY BurpReadsAsHar
<1>2. h.creds = x.creds /\ h.listed = x.creds.cookie
  BY DEF HarExports
<1>3. Components(h.creds, h.listed) = Components(b.creds, FALSE)
  BY <1>1, <1>2 DEF Components
<1> QED
  BY <1>1, <1>2, <1>3 DEF CandidateOf

\* The three readers make one fact of an exchange, and HAR and Burp one replay
\* candidate, whatever the exchange and whatever the tool leaves out of it.
LEMMA ReadersAgreeOnAll == \A exchanges : ReadersAgree(exchanges)
<1> SUFFICES ASSUME NEW exchanges, NEW x \in exchanges
             PROVE  LET facts == {HarRead(e) : e \in HarExports(x)}
                                 \cup {BurpRead(e) : e \in BurpExports(x)}
                                 \cup {CaidoRead(e) : e \in CaidoExports(x)}
                        har == {CandidateOf(HarRead(e), e.creds, e.listed) : e \in HarExports(x)}
                        burp == {CandidateOf(BurpRead(e), e.creds, FALSE) : e \in BurpExports(x)}
                    IN Cardinality(facts) = 1 /\ har = burp
  BY DEF ReadersAgree
<1> DEFINE h == [url |-> x.url, method |-> x.method, status |-> x.status, creds |-> x.creds,
                 listed |-> x.creds.cookie, sensitive |-> x.sensitive]
<1> DEFINE facts == {HarRead(e) : e \in HarExports(x)}
                    \cup {BurpRead(e) : e \in BurpExports(x)}
                    \cup {CaidoRead(e) : e \in CaidoExports(x)}
<1>1. HarExports(x) = {h}
  BY DEF HarExports
<1>2. PICK b : b \in BurpExports(x)
  <2>1. [url |-> x.url, host |-> x.url.host, method |-> x.method, status |-> x.status,
         request |-> LineOf(x), response |-> LineOf(x), creds |-> x.creds,
         sensitive |-> x.sensitive] \in BurpExports(x)
    BY DEF BurpExports
  <2> QED
    BY <2>1
<1> HIDE DEF h
<1>3. facts = {HarRead(h)}
  BY <1>1, BurpReadsAsHar, CaidoReadsAsHar
<1>4. Cardinality(facts) = 1
  BY <1>3, FS_Singleton
<1>5. {CandidateOf(HarRead(e), e.creds, e.listed) : e \in HarExports(x)}
         = {CandidateOf(BurpRead(e), e.creds, FALSE) : e \in BurpExports(x)}
  <2>1. \A e \in BurpExports(x) :
           CandidateOf(BurpRead(e), e.creds, FALSE) = CandidateOf(HarRead(h), h.creds, h.listed)
    BY <1>1, SameCandidate
  <2> HIDE DEF facts
  <2> QED
    BY <1>1, <1>2, <2>1
<1> QED
  BY <1>4, <1>5

\* Whichever of the three formats an exchange was exported in, and whatever the
\* export leaves out, the readers take the same fact and the same replay
\* candidate from it.
THEOREM ReadersMeanTheSame == Spec => []SourcesAgree
<1>1. SourcesAgree
  BY ReadersAgreeOnAll DEF SourcesAgree
<1> QED
  BY <1>1, PTL
=============================================================================
