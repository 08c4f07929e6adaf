------------------------- MODULE ObjectReadiness_proofs -------------------------
(***************************************************************************)
(* Proofs of what a plan says about objects, for any accounts, captures    *)
(* and traffic: an inventory taken for current was finished, the objects a *)
(* plan swaps belong to the accounts it names and are still there, and a   *)
(* reviewed cleanup names an object of an account in the review.           *)
(***************************************************************************)
EXTENDS ObjectReadiness, FiniteSetTheorems, SequenceTheorems, TLAPS

-----------------------------------------------------------------------------
(* What happened, and what the files make of it                            *)

Actors == Accounts \cup {Anonymous}
AimedObjects == {o \in Objects : o.parent = Aim}

Deletes(x) == x.op = "DELETE" /\ x.ok

\* The log is in order and true: no object is made twice, none answers after
\* its deletion, and the next object under the parent is a new one.
LogInv ==
    /\ log \in Seq(Range(log))
    /\ \A i \in 1..Len(log) :
          /\ log[i].id = i
          /\ log[i].time \in {NoTime, Stamp(i)}
          /\ log[i].actor \in Actors
          /\ Deletes(log[i]) => log[i].object \notin alive
    /\ \A i, j \in 1..Len(log) :
          /\ (i # j /\ log[i].op = "CREATE" /\ log[j].op = "CREATE")
                => log[i].object # log[j].object
          /\ (i < j /\ Deletes(log[i]) /\ log[j].ok)
                => log[i].object # log[j].object
    /\ alive \subseteq Objects
    /\ \A o \in AimedObjects : o.value \in 1..Cardinality(AimedObjects)

EndpointsOf(Y) == {EndpointOf(x) : x \in Y}
AfterOf(Y) == [e \in EndpointsOf(Y) |-> Projected(Y, e)]

\* The inventory and the backlog are of what was imported, now or before.
FilesInv ==
    /\ DOMAIN endpoints \subseteq EndpointsOf(X)
    /\ provenance.output = AfterOf(provenance.input)
    /\ \A key \in Keys : records[key] # NoRecord =>
          /\ TargetOf(key) \in EndpointsOf(X)
          /\ records[key].endpoint = TargetOf(key)
          /\ key # "login" => /\ records[key].category = "authorization"
                              /\ records[key].rule = "AUTH_OBJECT_ACCESS"

\* A plan on file is one the evaluator may come to now.
PlanInv ==
    plan.status # "NONE" =>
        /\ plan.key \in Keys
        /\ records[plan.key].kind = "SECURITY_HYPOTHESIS"
        /\ \E v \in Assessments(records[plan.key], X, endpoints, policy) :
              plan = [key |-> plan.key, blockers |-> v.blockers, witness |-> v.witness,
                      status |-> IF v.blockers = {} THEN "READY_FOR_REVIEW" ELSE "BLOCKED"]

ReadinessInv == LogInv /\ FilesInv /\ PlanInv

-----------------------------------------------------------------------------
(* The log                                                                 *)

LEMMA StampIs == \A i \in Nat : Stamp(i) \in Nat /\ Stamp(i) # NoTime
BY DEF Stamp, NoTime

\* Later in the log is never earlier by the clock.
LEMMA StampsGrow == \A i, j \in Nat : i <= j => Stamp(i) <= Stamp(j)
BY DEF Stamp

LEMMA LogShape ==
    ASSUME log \in Seq(Range(log))
    PROVE  Len(log) \in Nat /\ DOMAIN log = 1..Len(log)
BY LenProperties

LEMMA ObjectsFinite ==
    ASSUME log \in Seq(Range(log))
    PROVE  IsFiniteSet(Objects) /\ IsFiniteSet(AimedObjects)
<1> DEFINE f == [i \in 1..Len(log) |-> log[i].object]
<1>1. f \in Surjection(1..Len(log), Objects)
  BY DEF Surjection, Objects
<1>2. IsFiniteSet(1..Len(log))
  BY LogShape, FS_Interval
<1>3. IsFiniteSet(Objects)
  BY <1>1, <1>2, FS_Surjection
<1>4. AimedObjects \in SUBSET Objects
  BY DEF AimedObjects
<1> QED
  BY <1>3, <1>4, FS_Subset

\* Any part of the imported exchanges is finite.
LEMMA ExchangesFinite ==
    ASSUME log \in Seq(Range(log)), NEW Y \in SUBSET X
    PROVE  IsFiniteSet(Y)
<1> DEFINE all == {log[i] : i \in 1..Len(log)}
<1> DEFINE f == [i \in 1..Len(log) |-> log[i]]
<1>1. f \in Surjection(1..Len(log), all)
  BY DEF Surjection
<1>2. IsFiniteSet(1..Len(log))
  BY LogShape, FS_Interval
<1>3. IsFiniteSet(all)
  BY <1>1, <1>2, FS_Surjection
<1>4. Y \in SUBSET all
  BY DEF X, From
<1> HIDE DEF all
<1> QED
  BY <1>3, <1>4, FS_Subset

\* The next object under the parent has not been used before.
LEMMA FreshIsNew == LogInv => Fresh(Aim) \notin Objects
<1> SUFFICES ASSUME LogInv PROVE Fresh(Aim) \notin Objects
  OBVIOUS
<1>1. Cardinality(AimedObjects) \in Nat
  BY ObjectsFinite, FS_CardinalityType DEF LogInv
<1>2. Fresh(Aim).parent = Aim /\ Fresh(Aim).value = 1 + Cardinality(AimedObjects)
  BY DEF Fresh, AimedObjects
<1>3. Fresh(Aim) \notin AimedObjects
  BY <1>1, <1>2 DEF LogInv
<1> QED
  BY <1>2, <1>3 DEF AimedObjects

-----------------------------------------------------------------------------
(* Browsing keeps the log true                                             *)

LEMMA InitLog == Init => LogInv
<1> SUFFICES ASSUME Init PROVE LogInv
  OBVIOUS
<1>1. log = History /\ alive = {x.object : x \in {History[i] : i \in Places}}
  BY DEF Init, Places
<1>2. /\ log \in Seq(Range(log))
      /\ \A i \in 1..Len(log) :
          /\ log[i].id = i
          /\ log[i].time \in {NoTime, Stamp(i)}
          /\ log[i].actor \in Actors
          /\ ~Deletes(log[i])
  BY <1>1, HistoryAssumption DEF Places, Actors, Deletes
<1>3. \A i, j \in 1..Len(log) :
          (i # j /\ log[i].op = "CREATE" /\ log[j].op = "CREATE")
             => log[i].object # log[j].object
  BY <1>1, HistoryAssumption DEF Places
<1>4. alive \subseteq Objects
  BY <1>1 DEF Objects, Places
<1>5. AimedObjects = Aimed
  BY <1>1 DEF AimedObjects, Aimed, Objects, Places
<1>6. \A o \in AimedObjects : o.value \in 1..Cardinality(AimedObjects)
  BY <1>5, HistoryAssumption
<1> QED
  BY <1>2, <1>3, <1>4, <1>6 DEF LogInv

\* What browsing appends.
Browsed(c, op, object, ok) ==
    /\ log' = Append(log, Exchange(c, op, object, ok))
    /\ op = "CREATE" => object = Fresh(Aim)
    /\ op # "CREATE" => object \in AimedObjects /\ (ok => object \in alive)
    /\ alive' = CASE op = "CREATE" -> alive \cup {object}
                  [] op = "DELETE" /\ ok -> alive \ {object}
                  [] OTHER -> alive

LEMMA BrowseEffect ==
    ASSUME NEW c \in Captures, NEW op, Browse(c, op)
    PROVE  \E object, ok : Browsed(c, op, object, ok)
<1>1. PICK object \in IF op = "CREATE" THEN {Fresh(Aim)} ELSE AimedObjects :
        \E ok \in Answers(c, op, object) :
             /\ log' = Append(log, Exchange(c, op, object, ok))
             /\ alive' = CASE op = "CREATE" -> alive \cup {object}
                           [] op = "DELETE" /\ ok -> alive \ {object}
                           [] OTHER -> alive
  BY DEF Browse, AimedObjects
<1>2. PICK ok \in Answers(c, op, object) :
             /\ log' = Append(log, Exchange(c, op, object, ok))
             /\ alive' = CASE op = "CREATE" -> alive \cup {object}
                           [] op = "DELETE" /\ ok -> alive \ {object}
                           [] OTHER -> alive
  BY <1>1
<1>3. op # "CREATE" /\ ok => object \in alive
  BY <1>2 DEF Answers
<1>4. /\ op = "CREATE" => object = Fresh(Aim)
      /\ op # "CREATE" => object \in AimedObjects /\ (ok => object \in alive)
  BY <1>1, <1>3
<1>5. Browsed(c, op, object, ok)
  BY <1>2, <1>4 DEF Browsed
<1> QED
  BY <1>5

LEMMA ExchangeFields ==
    ASSUME log \in Seq(Range(log)), NEW c \in Captures, NEW op, NEW object, NEW ok,
           NEW e, e = Exchange(c, op, object, ok)
    PROVE  /\ e.id = Len(log) + 1 /\ e.time \in {NoTime, Stamp(Len(log) + 1)}
           /\ e.actor \in Actors /\ e.op = op /\ e.object = object /\ e.ok = ok
           /\ e.capture = c
BY HistoryAssumption DEF Exchange, Actors

LEMMA LogGrows ==
    ASSUME log \in Seq(Range(log)), NEW e, log' = Append(log, e)
    PROVE  /\ log' \in Seq(Range(log'))
           /\ Len(log') = Len(log) + 1
           /\ \A i \in 1..Len(log) : log'[i] = log[i]
           /\ log'[Len(log) + 1] = e
           /\ Objects' = Objects \cup {e.object}
<1> DEFINE S == Range(log) \cup {e}
<1>1. log \in Seq(S) /\ e \in S
  BY SeqMonotonic
<1>2. /\ log' \in Seq(S) /\ Len(log') = Len(log) + 1
      /\ \A i \in 1..Len(log) : log'[i] = log[i]
      /\ log'[Len(log) + 1] = e
  BY <1>1, AppendProperties
<1>3. Len(log) \in Nat /\ DOMAIN log' = 1..Len(log')
  BY <1>2, LogShape, LenProperties
<1>4. Range(log') = S
  BY <1>2, <1>3, LogShape DEF Range
<1>5. Objects' = Objects \cup {e.object}
  BY <1>2, <1>3 DEF Objects
<1> QED
  BY <1>2, <1>4, <1>5

LEMMA BrowseKeepsLog ==
    ASSUME LogInv, NEW c \in Captures, NEW op, Browse(c, op)
    PROVE  LogInv'
<1> DEFINE n == Len(log)
<1>0. PICK object, ok : Browsed(c, op, object, ok)
  BY BrowseEffect
<1>1. /\ log' = Append(log, Exchange(c, op, object, ok))
      /\ op = "CREATE" => object = Fresh(Aim)
      /\ op # "CREATE" => object \in AimedObjects /\ (ok => object \in alive)
      /\ alive' = CASE op = "CREATE" -> alive \cup {object}
                    [] op = "DELETE" /\ ok -> alive \ {object}
                    [] OTHER -> alive
  BY <1>0 DEF Browsed
<1> DEFINE e == Exchange(c, op, object, ok)
<1>2. /\ e.id = n + 1 /\ e.time \in {NoTime, Stamp(n + 1)}
      /\ e.actor \in Actors /\ e.op = op /\ e.object = object /\ e.ok = ok
  BY ExchangeFields DEF LogInv
<1> HIDE DEF e
<1>3. /\ log' \in Seq(Range(log')) /\ Len(log') = n + 1
      /\ \A i \in 1..n : log'[i] = log[i]
      /\ log'[n + 1] = e
      /\ Objects' = Objects \cup {e.object}
  <2>1. log' = Append(log, e)
    BY <1>1 DEF e
  <2> QED
    BY <2>1, LogGrows DEF LogInv
<1>4. n \in Nat
  BY LogShape DEF LogInv
<1> HIDE DEF n
<1>5. \A i \in 1..n : log[i].object \in Objects
  BY DEF Objects, n
<1>6. op = "CREATE" => object \notin Objects
  BY <1>1, FreshIsNew
<1>7. \A i \in 1..n : Deletes(log[i]) => log[i].object \notin alive
  BY DEF LogInv, n
<1>8. /\ \A o \in alive' : o \in alive \/ (op = "CREATE" /\ o = object)
      /\ op = "DELETE" /\ ok => object \notin alive'
  BY <1>1
<1>9. \A i \in 1..(n + 1) :
         /\ log'[i].id = i
         /\ log'[i].time \in {NoTime, Stamp(i)}
         /\ log'[i].actor \in Actors
         /\ Deletes(log'[i]) => log'[i].object \notin alive'
  <2> SUFFICES ASSUME NEW i \in 1..(n + 1)
               PROVE  /\ log'[i].id = i
                      /\ log'[i].time \in {NoTime, Stamp(i)}
                      /\ log'[i].actor \in Actors
                      /\ Deletes(log'[i]) => log'[i].object \notin alive'
    OBVIOUS
  <2>1. CASE i = n + 1
    BY <2>1, <1>2, <1>3, <1>8 DEF Deletes
  <2>2. CASE i \in 1..n
    <3>1. log'[i] = log[i]
      BY <2>2, <1>3
    <3>2. log[i].id = i /\ log[i].time \in {NoTime, Stamp(i)} /\ log[i].actor \in Actors
      BY <2>2 DEF LogInv, n
    <3>3. Deletes(log[i]) => log[i].object \notin alive'
      BY <2>2, <1>5, <1>6, <1>7, <1>8
    <3> QED
      BY <3>1, <3>2, <3>3
  <2> QED
    BY <2>1, <2>2, <1>4
<1>10. \A i, j \in 1..(n + 1) :
          /\ (i # j /\ log'[i].op = "CREATE" /\ log'[j].op = "CREATE")
                => log'[i].object # log'[j].object
          /\ (i < j /\ Deletes(log'[i]) /\ log'[j].ok)
                => log'[i].object # log'[j].object
  <2> SUFFICES ASSUME NEW i \in 1..(n + 1), NEW j \in 1..(n + 1)
               PROVE  /\ (i # j /\ log'[i].op = "CREATE" /\ log'[j].op = "CREATE")
                            => log'[i].object # log'[j].object
                      /\ (i < j /\ Deletes(log'[i]) /\ log'[j].ok)
                            => log'[i].object # log'[j].object
    OBVIOUS
  <2>1. CASE i \in 1..n /\ j \in 1..n
    <3>1. log'[i] = log[i] /\ log'[j] = log[j]
      BY <2>1, <1>3
    <3> QED
      BY <2>1, <3>1 DEF LogInv, n
  <2>2. CASE i \in 1..n /\ j = n + 1
    <3>1. log'[i] = log[i] /\ log'[j] = e
      BY <2>2, <1>3
    <3>2. op = "CREATE" => log[i].object # object
      BY <2>2, <1>5, <1>6
    <3>3. Deletes(log[i]) /\ ok => log[i].object # object
      BY <2>2, <1>1, <1>5, <1>6, <1>7
    <3> QED
      BY <3>1, <3>2, <3>3, <1>2
  <2>3. CASE i = n + 1 /\ j \in 1..n
    <3>1. log'[j] = log[j] /\ log'[i] = e
      BY <2>3, <1>3
    <3>2. op = "CREATE" => log[j].object # object
      BY <2>3, <1>5, <1>6
    <3>3. ~(i < j)
      BY <2>3, <1>4
    <3> QED
      BY <3>1, <3>2, <3>3, <1>2
  <2>4. CASE i = n + 1 /\ j = n + 1
    BY <2>4, <1>4
  <2> QED
    BY <2>1, <2>2, <2>3, <2>4, <1>4
<1>11. alive' \subseteq Objects'
  BY <1>2, <1>3, <1>8 DEF LogInv
<1>12. \A o \in AimedObjects' : o.value \in 1..Cardinality(AimedObjects')
  <2>1. CASE op = "CREATE"
    <3>1. object.parent = Aim /\ object.value = 1 + Cardinality(AimedObjects)
      BY <1>1, <2>1 DEF Fresh, AimedObjects
    <3>2. AimedObjects' = AimedObjects \cup {object}
      BY <1>2, <1>3, <3>1 DEF AimedObjects
    <3>3. object \notin AimedObjects
      BY <2>1, <1>6 DEF AimedObjects
    <3>4. IsFiniteSet(AimedObjects) /\ Cardinality(AimedObjects) \in Nat
      BY ObjectsFinite, FS_CardinalityType DEF LogInv
    <3>5. Cardinality(AimedObjects') = Cardinality(AimedObjects) + 1
      BY <3>2, <3>3, <3>4, FS_AddElement
    <3>6. \A o \in AimedObjects : o.value \in 1..Cardinality(AimedObjects)
      BY DEF LogInv
    <3> QED
      BY <3>1, <3>2, <3>4, <3>5, <3>6
  <2>2. CASE op # "CREATE"
    <3>1. Objects' = Objects
      BY <2>2, <1>1, <1>2, <1>3 DEF AimedObjects
    <3>2. AimedObjects' = AimedObjects
      BY <3>1 DEF AimedObjects
    <3> QED
      BY <3>2 DEF LogInv
  <2> QED
    BY <2>1, <2>2
<1> QED
  BY <1>3, <1>9, <1>10, <1>11, <1>12 DEF LogInv

LEMMA NextLog == LogInv /\ [Next]_vars => LogInv'
<1> SUFFICES ASSUME LogInv, [Next]_vars PROVE LogInv'
  OBVIOUS
<1>1. CASE \E c \in Captures, op \in Ops : Browse(c, op)
  BY <1>1, BrowseKeepsLog
<1>2. CASE UNCHANGED <<log, alive>>
  <2>1. Objects' = Objects /\ AimedObjects' = AimedObjects
    BY <1>2 DEF Objects, AimedObjects
  <2>2. log' = log /\ alive' = alive
    BY <1>2
  <2> QED
    BY <2>1, <2>2 DEF LogInv
<1>3. \/ \E c \in Captures, op \in Ops : Browse(c, op)
      \/ UNCHANGED <<log, alive>>
  BY DEF Next, vars, Import, Survey, Project, Killed, GenerateHypotheses, EditPolicy,
         ReviewCleanup, PlanHypothesis
<1> QED
  BY <1>1, <1>2, <1>3

-----------------------------------------------------------------------------
(* The files follow what was imported                                      *)

\* Browsing adds to captures that are not imported yet.
LEMMA BrowseAddsNothing ==
    ASSUME LogInv, NEW c \in Captures, NEW op, Browse(c, op)
    PROVE  X' = X
<1>1. PICK object, ok : Browsed(c, op, object, ok)
  BY BrowseEffect
<1> DEFINE e == Exchange(c, op, object, ok)
<1>2. e.capture = c
  BY ExchangeFields DEF LogInv
<1> HIDE DEF e
<1>3. /\ Len(log') = Len(log) + 1
      /\ \A i \in 1..Len(log) : log'[i] = log[i]
      /\ log'[Len(log) + 1] = e
  <2>1. log' = Append(log, e)
    BY <1>1 DEF Browsed, e
  <2> QED
    BY <2>1, LogGrows DEF LogInv
<1>4. imported' = imported /\ c \notin imported
  BY HistoryAssumption DEF Browse, Recorded, Places
<1>5. Len(log) \in Nat
  BY LogShape DEF LogInv
<1> QED
  BY <1>2, <1>3, <1>4, <1>5 DEF X, From

LEMMA ImportAdds == \A c : Import(c) => X \subseteq X'
BY DEF Import, X, From

LEMMA EndpointsGrow ==
    ASSUME NEW Y, NEW Z, Y \subseteq Z
    PROVE  EndpointsOf(Y) \subseteq EndpointsOf(Z)
BY DEF EndpointsOf

LEMMA FinalizedKeeps ==
    ASSUME NEW key \in Keys, NEW h, h = Finalized(Draft(key))
    PROVE  /\ h.endpoint = TargetOf(key)
           /\ key # "login" => h.category = "authorization" /\ h.rule = "AUTH_OBJECT_ACCESS"
<1> DEFINE d == Draft(key)
<1>1. /\ d.endpoint = TargetOf(key)
      /\ key # "login" => d.category = "authorization" /\ d.rule = "AUTH_OBJECT_ACCESS"
  BY DEF Draft
<1>2. {"endpoint", "category", "rule"} \subseteq DOMAIN d
  BY DEF Draft
<1>3. h = d \/ h = [d EXCEPT !.kind = "RESEARCH_TASK"]
  BY DEF Finalized
<1> HIDE DEF d
<1> QED
  BY <1>1, <1>2, <1>3

\* Nothing but the inventory and the backlog touch their files.
Touched ==
    /\ UNCHANGED <<endpoints, provenance, records>>
    /\ X \subseteq X'

LEMMA TouchedKeeps == FilesInv /\ Touched => FilesInv'
<1> SUFFICES ASSUME FilesInv, Touched PROVE FilesInv'
  OBVIOUS
<1>1. EndpointsOf(X) \subseteq EndpointsOf(X')
  BY EndpointsGrow DEF Touched
<1>2. EndpointsOf(X)' = EndpointsOf(X')
  BY DEF EndpointsOf
<1> QED
  BY <1>1, <1>2 DEF FilesInv, Touched, TargetOf, AfterOf

LEMMA BeforeOf == DOMAIN Before = EndpointsOf(X) /\ After = AfterOf(X)
BY DEF Before, After, AfterOf, EndpointsOf

LEMMA InitFiles == Init => FilesInv
<1> SUFFICES ASSUME Init PROVE FilesInv
  OBVIOUS
<1>1. DOMAIN endpoints = {}
  BY DEF Init
<1>2. provenance.input = {} /\ provenance.output = <<>>
  BY DEF Init
<1>3. AfterOf({}) = <<>>
  <2>1. EndpointsOf({}) = {}
    BY DEF EndpointsOf
  <2>2. AfterOf({}) = [e \in {} |-> Projected({}, e)]
    BY <2>1 DEF AfterOf
  <2> QED
    BY <2>2
<1>4. \A key \in Keys : records[key] = NoRecord
  BY DEF Init
<1> QED
  BY <1>1, <1>2, <1>3, <1>4 DEF FilesInv

LEMMA NextFiles == LogInv /\ FilesInv /\ [Next]_vars => FilesInv'
<1> SUFFICES ASSUME LogInv, FilesInv, [Next]_vars PROVE FilesInv'
  OBVIOUS
<1>1. ASSUME NEW c \in Captures, NEW op, Browse(c, op) PROVE Touched
  BY <1>1, BrowseAddsNothing DEF Browse, Touched
<1>2. ASSUME NEW c \in Captures, Import(c) PROVE Touched
  BY <1>2, ImportAdds DEF Import, Touched
<1>3. CASE Survey
  <2>1. X' = X /\ endpoints' = Before /\ UNCHANGED <<provenance, records>>
    BY <1>3 DEF Survey, X, From
  <2>2. DOMAIN endpoints' = EndpointsOf(X')
    BY <2>1, BeforeOf
  <2> QED
    BY <2>1, <2>2 DEF FilesInv, EndpointsOf, AfterOf, TargetOf
<1>4. CASE Project
  <2>1. /\ X' = X /\ endpoints' = After /\ UNCHANGED records
        /\ provenance' = [input |-> X, output |-> After]
    BY <1>4 DEF Project, X, From
  <2>2. DOMAIN endpoints' = EndpointsOf(X') /\ endpoints' = AfterOf(X)
    BY <2>1, BeforeOf DEF AfterOf
  <2>3. provenance'.output = AfterOf(provenance'.input)
    BY <2>1, <2>2
  <2> QED
    BY <2>1, <2>2, <2>3 DEF FilesInv, EndpointsOf, AfterOf, TargetOf
<1>5. CASE GenerateHypotheses
  <2>1. /\ X' = X /\ UNCHANGED <<endpoints, provenance>>
        /\ records' = [key \in Keys |-> IF Emitted(key) THEN Finalized(Draft(key)) ELSE NoRecord]
    BY <1>5 DEF GenerateHypotheses, X, From
  <2>2. ASSUME NEW key \in Keys, records'[key] # NoRecord
        PROVE  /\ TargetOf(key) \in EndpointsOf(X)
               /\ records'[key].endpoint = TargetOf(key)
               /\ key # "login" => /\ records'[key].category = "authorization"
                                   /\ records'[key].rule = "AUTH_OBJECT_ACCESS"
    <3>1. Emitted(key) /\ records'[key] = Finalized(Draft(key))
      BY <2>1, <2>2
    <3>2. TargetOf(key) \in EndpointsOf(X)
      BY <3>1 DEF Emitted, FilesInv
    <3> QED
      BY <3>1, <3>2, FinalizedKeeps
  <2> QED
    BY <2>1, <2>2 DEF FilesInv, EndpointsOf, AfterOf, TargetOf
<1>6. ASSUME Killed \/ EditPolicy \/ ReviewCleanup \/ (\E key \in Keys : PlanHypothesis(key))
      PROVE  Touched
  BY <1>6 DEF Killed, EditPolicy, ReviewCleanup, PlanHypothesis, Touched, X, From
<1>7. CASE UNCHANGED vars
  BY <1>7, TouchedKeeps DEF Touched, vars, X, From
<1> QED
  BY <1>1, <1>2, <1>3, <1>4, <1>5, <1>6, <1>7, TouchedKeeps DEF Next

-----------------------------------------------------------------------------
(* A plan is forgotten with what it was made from                          *)

LEMMA NextPlan == LogInv /\ PlanInv /\ [Next]_vars => PlanInv'
<1> SUFFICES ASSUME LogInv, PlanInv, [Next]_vars PROVE PlanInv'
  OBVIOUS
<1>1. CASE plan' = NoPlan
  BY <1>1 DEF PlanInv, NoPlan
<1>2. CASE UNCHANGED <<records, endpoints, policy, plan>> /\ X' = X
  BY <1>2 DEF PlanInv
<1>3. ASSUME NEW key \in Keys, PlanHypothesis(key) PROVE PlanInv'
  <2>1. PICK v \in Assessments(records[key], X, endpoints, policy) :
          plan' = [key |-> key, blockers |-> v.blockers, witness |-> v.witness,
                   status |-> IF v.blockers = {} THEN "READY_FOR_REVIEW" ELSE "BLOCKED"]
    BY <1>3 DEF PlanHypothesis
  <2>2. /\ X' = X /\ UNCHANGED <<records, endpoints, policy>>
        /\ records[key].kind = "SECURITY_HYPOTHESIS"
    BY <1>3 DEF PlanHypothesis, X, From
  <2>3. plan'.key = key
    BY <2>1
  <2> QED
    BY <2>1, <2>2, <2>3 DEF PlanInv
<1>4. ASSUME NEW c \in Captures, NEW op, Browse(c, op)
      PROVE  UNCHANGED <<records, endpoints, policy, plan>> /\ X' = X
  BY <1>4, BrowseAddsNothing DEF Browse
<1>5. ASSUME Killed \/ UNCHANGED vars
      PROVE  UNCHANGED <<records, endpoints, policy, plan>> /\ X' = X
  BY <1>5 DEF Killed, vars, X, From
<1>6. ASSUME \/ \E c \in Captures : Import(c)
             \/ Survey \/ Project \/ GenerateHypotheses \/ EditPolicy \/ ReviewCleanup
      PROVE  plan' = NoPlan
  BY <1>6 DEF Import, Survey, Project, GenerateHypotheses, EditPolicy, ReviewCleanup
<1> QED
  BY <1>1, <1>2, <1>3, <1>4, <1>5, <1>6 DEF Next

\* The log is true, the files are of what was imported, and a plan on file is
\* one the evaluator may come to now.
THEOREM ReadinessInvariant == Spec => []ReadinessInv
<1>1. Init => ReadinessInv
  <2>1. Init => PlanInv
    BY DEF Init, PlanInv, NoPlan
  <2> QED
    BY <2>1, InitLog, InitFiles DEF ReadinessInv
<1>2. ReadinessInv /\ [Next]_vars => ReadinessInv'
  BY NextLog, NextFiles, NextPlan DEF ReadinessInv
<1> QED
  BY <1>1, <1>2, PTL DEF Spec

\* An inventory whose provenance is current has been through the ownership
\* pass, whatever killed the command before.
THEOREM CurrentInventoriesAreProjected == Spec => []CurrentInventoryIsProjected
<1>1. ReadinessInv => CurrentInventoryIsProjected
  BY BeforeOf DEF ReadinessInv, FilesInv, CurrentInventoryIsProjected, InventoryIsCurrent
<1> QED
  BY <1>1, ReadinessInvariant, PTL

-----------------------------------------------------------------------------
(* Whose an object is                                                      *)

LEMMA ImportedIsLogged ==
    ASSUME LogInv, NEW x \in X
    PROVE  x.id \in 1..Len(log) /\ x = log[x.id]
BY DEF LogInv, X, From

\* An object is made once, so its owner is whoever made it.
LEMMA MakerOwns ==
    ASSUME LogInv, NEW x \in X, x.op = "CREATE"
    PROVE  OwnerOf(x.object) = x.actor
<1> DEFINE all == {log[i] : i \in 1..Len(log)}
<1> DEFINE Made(y) == y.op = "CREATE" /\ y.object = x.object
<1>1. x \in all /\ Made(x)
  BY DEF X, From
<1>2. \A y \in all : Made(y) => y = x
  BY <1>1 DEF LogInv
<1>3. (CHOOSE y \in all : Made(y)) = x
  <2> HIDE DEF all, Made
  <2> QED
    BY <1>1, <1>2
<1> QED
  BY <1>3 DEF OwnerOf

\* Two accounts that reached one object share it.
LEMMA ReachedByOne ==
    ASSUME NEW Y, NEW object, IsFiniteSet(ReachedBy(Y, object)), ~Shared(Y, object),
           NEW a \in ReachedBy(Y, object) \cap Accounts,
           NEW b \in ReachedBy(Y, object) \cap Accounts
    PROVE  a = b
<1> DEFINE both == ReachedBy(Y, object) \cap Accounts
<1>1. IsFiniteSet(both)
  BY FS_Subset
<1>2. Cardinality(both) \in Nat /\ ~(Cardinality(both) >= 2)
  BY <1>1, FS_CardinalityType DEF Shared
<1> SUFFICES ASSUME a # b PROVE FALSE
  OBVIOUS
<1>3. {a, b} \in SUBSET both
  OBVIOUS
<1>4. Cardinality({a, b}) = 2
  <2>1. IsFiniteSet({a}) /\ Cardinality({a}) = 1
    BY FS_Singleton
  <2>2. Cardinality({a} \cup {b}) = 2
    <3> DEFINE one == {a}
    <3>1. IsFiniteSet(one) /\ Cardinality(one) = 1 /\ b \notin one
      BY <2>1
    <3> HIDE DEF one
    <3>2. Cardinality(one \cup {b}) = 1 + 1
      BY <3>1, FS_AddElement
    <3> QED
      BY <3>2 DEF one
  <2>3. {a} \cup {b} = {a, b}
    OBVIOUS
  <2> QED
    BY <2>2, <2>3
<1> HIDE DEF both
<1>5. Cardinality({a, b}) <= Cardinality(both)
  BY <1>1, <1>3, FS_Subset
<1> QED
  BY <1>2, <1>4, <1>5

LEMMA ReachedFinite ==
    ASSUME LogInv, NEW object
    PROVE  IsFiniteSet(ReachedBy(X, object))
<1> DEFINE Y == {y \in Ordinary(X) : y.ok /\ y.object = object}
<1> DEFINE f == [y \in Y |-> y.actor]
<1>1. IsFiniteSet(Y)
  BY ExchangesFinite DEF Ordinary, LogInv
<1>2. f \in Surjection(Y, ReachedBy(X, object))
  BY DEF Surjection, ReachedBy
<1> QED
  BY <1>1, <1>2, FS_Surjection

\* What the projection says of an endpoint.
LEMMA ProjectedFields ==
    ASSUME NEW Y, NEW e
    PROVE  /\ Projected(Y, e).binding = Binding(Y, e)
           /\ Projected(Y, e).sources = {x.id : x \in Sources(Y, e)}
<1> DEFINE before == Surveyed(Y, e)
<1> DEFINE bound == [before EXCEPT !.binding = Binding(Y, e)]
<1>1. /\ {"binding", "semantics", "sources"} \subseteq DOMAIN before
      /\ before.sources = {x.id : x \in Sources(Y, e)}
  BY DEF Surveyed
<1>2. Projected(Y, e) = [bound EXCEPT !.semantics = Semantics(Y, e)]
  BY DEF Projected
<1> HIDE DEF before
<1>3. /\ {"binding", "semantics", "sources"} \subseteq DOMAIN bound
      /\ bound.sources = before.sources /\ bound.binding = Binding(Y, e)
  BY <1>1
<1> HIDE DEF bound
<1> QED
  BY <1>1, <1>2, <1>3

\* An access binding comes from a use that continues a creation: both are of
\* the account it names, and imported traffic shows nobody else on the object.
Attests(b, made, use) ==
    /\ made \in Creations(X) /\ use \in ControlledUses(X) /\ Continues(use, made)
    /\ b = Baseline(ControlledUses(X), use)
    /\ Exclusive(X, use.object)

OwnedBy(object, a) ==
    /\ OwnerOf(object) = a
    /\ \A x \in Said(object) : x.ok => x.actor = a /\ x.auth # "none"

LEMMA BindingIsAttested ==
    ASSUME NEW e, NEW b \in Binding(X, e)
    PROVE  \E made, use : Attests(b, made, use) /\ use.op = e.op
<1>1. PICK use \in ControlledUses(X) :
         /\ use.op = e.op /\ Exclusive(X, use.object)
         /\ b = Baseline(ControlledUses(X), use)
  BY DEF Binding
<1>2. PICK made \in Creations(X) : Continues(use, made)
  BY <1>1 DEF ControlledUses
<1> QED
  BY <1>1, <1>2 DEF Attests

LEMMA AttestedIsOwned ==
    ASSUME LogInv, NEW b, NEW made, NEW use, Attests(b, made, use)
    PROVE  /\ b.actor = use.actor /\ b.object = use.object
           /\ use \in Said(b.object) /\ use.ok
           /\ OwnedBy(b.object, b.actor)
<1>1. /\ b.actor = use.actor /\ b.object = use.object
      /\ use.object = made.object /\ use.actor = made.actor /\ use.ok
  BY DEF Attests, Baseline, Continues
<1>2. /\ made \in X /\ made.op = "CREATE" /\ made.actor \in Accounts
      /\ use \in Ordinary(X)
  BY DEF Attests, Creations, ControlledUses, Ordinary, Produces
<1>3. OwnerOf(b.object) = b.actor
  BY <1>1, <1>2, MakerOwns
<1>4. ASSUME NEW x \in Said(b.object), x.ok
      PROVE  x.actor = b.actor /\ x.auth # "none"
  <2>1. x \in Ordinary(X) /\ x.object = use.object
    BY <1>1 DEF Said
  <2>2. ~Shared(X, use.object) /\ ~Public(X, use.object)
    BY DEF Attests, Exclusive
  <2>3. x.actor # Anonymous /\ x.auth # "none"
    BY <1>4, <2>1, <2>2 DEF Public
  <2>4. x.actor \in Accounts
    BY <2>1, <2>3, ImportedIsLogged DEF LogInv, Actors, Ordinary
  <2>5. {x.actor, use.actor} \subseteq ReachedBy(X, use.object) \cap Accounts
    BY <1>1, <1>2, <1>4, <2>1, <2>4 DEF ReachedBy
  <2> QED
    BY <1>1, <2>2, <2>3, <2>5, ReachedByOne, ReachedFinite
<1> QED
  BY <1>1, <1>2, <1>3, <1>4 DEF OwnedBy, Said

-----------------------------------------------------------------------------
(* What a current plan was decided on                                      *)


\* The comparison behind a plan.
Decided(c) ==
    LET h == records[plan.key]
    IN /\ c \in Comparisons(Candidates(h, X, endpoints, policy),
                            TargetParents(h, X, endpoints), RequiredActors(h))
       /\ plan.witness = c.witness
       /\ plan.blockers = Unmet(h, X, endpoints, policy, c)
                             \cup Blocked(h, X, endpoints, policy, c)
       /\ plan.status = "READY_FOR_REVIEW" => plan.blockers = {}

LEMMA PlanIsDecided ==
    ASSUME PlanInv, plan.status # "NONE"
    PROVE  \E c : Decided(c)
<1> DEFINE h == records[plan.key]
<1>1. PICK v \in Assessments(h, X, endpoints, policy) :
         plan = [key |-> plan.key, blockers |-> v.blockers, witness |-> v.witness,
                 status |-> IF v.blockers = {} THEN "READY_FOR_REVIEW" ELSE "BLOCKED"]
  BY DEF PlanInv
<1>2. PICK c \in Comparisons(Candidates(h, X, endpoints, policy),
                             TargetParents(h, X, endpoints), RequiredActors(h)) :
         v = Verdict(h, X, endpoints, policy, c)
  BY <1>1 DEF Assessments
<1>3. /\ v.witness = c.witness
      /\ v.blockers = Unmet(h, X, endpoints, policy, c) \cup Blocked(h, X, endpoints, policy, c)
  BY <1>2 DEF Verdict
<1>4. /\ plan.witness = v.witness /\ plan.blockers = v.blockers
      /\ plan.status = "READY_FOR_REVIEW" => v.blockers = {}
  BY <1>1
<1>5. Decided(c)
  BY <1>2, <1>3, <1>4 DEF Decided
<1> QED
  BY <1>5

\* The record a current plan is about, and the endpoint it aims at.
LEMMA PlanAims ==
    ASSUME FilesInv, PlanInv, PlanIsCurrent, plan.key # "login",
           NEW h, h = records[plan.key]
    PROVE  /\ h.endpoint = TargetOf(plan.key) /\ h.category = "authorization"
           /\ h.rule = "AUTH_OBJECT_ACCESS"
           /\ plan.key \in {"read", "delete"}
           /\ endpoints = AfterOf(X)
           /\ h.endpoint \in EndpointsOf(X)
           /\ Access(h, endpoints) = Binding(X, h.endpoint)
           /\ endpoints[h.endpoint].sources = {x.id : x \in Sources(X, h.endpoint)}
<1>1. plan.key \in Keys /\ h # NoRecord /\ endpoints = AfterOf(X)
  <2>1. plan.status # "NONE" /\ endpoints = After
    BY DEF PlanIsCurrent
  <2>2. plan.key \in Keys /\ h.kind = "SECURITY_HYPOTHESIS"
    BY <2>1 DEF PlanInv
  <2> QED
    BY <2>1, <2>2, BeforeOf DEF NoRecord
<1>2. /\ h.endpoint = TargetOf(plan.key) /\ h.endpoint \in EndpointsOf(X)
      /\ h.category = "authorization" /\ h.rule = "AUTH_OBJECT_ACCESS"
  BY <1>1 DEF FilesInv
<1>3. endpoints[h.endpoint] = Projected(X, h.endpoint)
  BY <1>1, <1>2 DEF AfterOf
<1> QED
  BY <1>1, <1>2, <1>3, ProjectedFields DEF Access, Keys

\* A witness is chosen among the baselines of one credential.
LEMMA WitnessFromContext ==
    ASSUME NEW candidates, NEW parents, NEW required,
           NEW c \in Comparisons(candidates, parents, required), c.witness # {}
    PROVE  \E context :
              c.witness \in Witnesses(InContext(candidates, context), parents, required)
<1> DEFINE groups == Groups(candidates, parents, required)
<1> DEFINE Choices(d) == Witnesses(InContext(candidates, d), parents, required)
<1> DEFINE Open(d) == {[witness |-> w, actors |-> {b.actor : b \in InContext(candidates, d)}]
                          : w \in IF Choices(d) = {} THEN {{}} ELSE Choices(d)}
<1>1. groups # {}
  BY DEF Comparisons
<1>2. Comparisons(candidates, parents, required) = UNION {Open(d) : d \in groups}
  BY <1>1 DEF Comparisons
<1> HIDE DEF groups
<1>3. PICK d \in groups : c \in Open(d)
  BY <1>2
<1>4. PICK w \in IF Choices(d) = {} THEN {{}} ELSE Choices(d) :
         c = [witness |-> w, actors |-> {b.actor : b \in InContext(candidates, d)}]
  BY <1>3
<1>5. c.witness = w
  BY <1>4
<1> QED
  BY <1>4, <1>5

\* A member of a witness merges candidates, and carries the word of each.
LEMMA WitnessMember ==
    ASSUME NEW candidates, NEW context, NEW b \in InContext(candidates, context)
    PROVE  \E d \in candidates :
              /\ d.actor = b.actor /\ d.object = b.object
              /\ b.liveness \in {"UNKNOWN", d.liveness}
<1> DEFINE same == {d \in candidates : d.auth = context}
<1>1. PICK d \in same : b = Merged(same, d)
  BY DEF InContext, Canonical
<1>2. /\ b.actor = d.actor /\ b.object = d.object
      /\ b.liveness \in {"UNKNOWN", d.liveness}
  BY <1>1 DEF Merged
<1> QED
  BY <1>2

\* The traffic a plan rests on is all under the parent the hypotheses aim at,
\* and there is some as soon as there is a candidate.
LEMMA ParentsAreAimed ==
    ASSUME LogInv, FilesInv, PlanInv, PlanIsCurrent, plan.key # "login",
           NEW h, h = records[plan.key],
           Candidates(h, X, endpoints, policy) # {}
    PROVE  TargetParents(h, X, endpoints) = {Aim}
<1>1. /\ h.endpoint = TargetOf(plan.key)
      /\ endpoints[h.endpoint].sources = {x.id : x \in Sources(X, h.endpoint)}
  BY PlanAims
<1>2. ASSUME NEW y \in X, Context(endpoints[h.endpoint], y) # NoContext
      PROVE  y.object.parent = Aim
  <2>1. y.id \in {x.id : x \in Sources(X, h.endpoint)}
    BY <1>1, <1>2 DEF Context
  <2>2. PICK x \in Sources(X, h.endpoint) : x.id = y.id
    BY <2>1
  <2>3. x = y
    BY <2>2, ImportedIsLogged DEF Sources
  <2> QED
    BY <1>1, <2>2, <2>3 DEF Sources, EndpointOf, TargetOf
<1>3. SourceContexts(h, X, endpoints) # {}
  BY DEF Candidates, IsCandidate
<1>4. PICK y \in {x \in X : x.id \in h.observations} :
         Context(endpoints[h.endpoint], y) # NoContext
  BY <1>3 DEF SourceContexts
<1>5. y.object.parent \in TargetParents(h, X, endpoints)
  BY <1>4 DEF TargetParents
<1>6. TargetParents(h, X, endpoints) \subseteq {Aim}
  BY <1>2 DEF TargetParents
<1> QED
  BY <1>5, <1>6

\* A plan ready for review swaps the objects of two accounts, and each is
\* attested by imported traffic.
LEMMA ReadyWitness ==
    ASSUME LogInv, FilesInv, PlanInv, PlanIsCurrent, plan.key # "login",
           plan.status = "READY_FOR_REVIEW"
    PROVE  /\ Cardinality({b.actor : b \in plan.witness}) = 2
           /\ \E b \in plan.witness : b.object.parent = Aim
           /\ \A b \in plan.witness :
                 /\ b.liveness \notin {"DELETED", "HISTORICAL_ONLY", "UNKNOWN"}
                 /\ \E d, made, use :
                       /\ Attests(d, made, use) /\ use.op = "READ"
                       /\ d.actor = b.actor /\ d.object = b.object
                       /\ b.liveness \in {"UNKNOWN", d.liveness}
<1> DEFINE h == records[plan.key]
<1> DEFINE candidates == Candidates(h, X, endpoints, policy)
<1> DEFINE parents == TargetParents(h, X, endpoints)
<1>1. PICK c : Decided(c)
  BY PlanIsDecided DEF PlanIsCurrent
<1>2. /\ c \in Comparisons(candidates, parents, RequiredActors(h))
      /\ plan.witness = c.witness
      /\ Unmet(h, X, endpoints, policy, c) = {} /\ Blocked(h, X, endpoints, policy, c) = {}
  BY <1>1 DEF Decided
<1>3. /\ h.endpoint = TargetOf(plan.key) /\ h.category = "authorization"
      /\ Access(h, endpoints) = Binding(X, h.endpoint)
  BY PlanAims
<1> HIDE DEF h
<1>4. /\ c.witness # {} /\ h.endpoint.op = "READ"
      /\ \A b \in c.witness : b.liveness \notin {"DELETED", "HISTORICAL_ONLY", "UNKNOWN"}
  <2>1. BaselineKnown(h, X, endpoints, c)
    BY <1>2 DEF Unmet
  <2>2. Read(h)
    BY <1>2 DEF Blocked
  <2>3. ~\E b \in c.witness : b.liveness \in {"DELETED", "HISTORICAL_ONLY"}
    BY <1>2 DEF Blocked
  <2>4. ~\E b \in c.witness : b.liveness = "UNKNOWN"
    BY <1>2 DEF Blocked
  <2> QED
    BY <1>3, <2>1, <2>2, <2>3, <2>4 DEF BaselineKnown, Read
<1>5. RequiredActors(h) = 2
  BY <1>3 DEF RequiredActors
<1> HIDE DEF candidates, parents
<1>6. PICK context : c.witness \in Witnesses(InContext(candidates, context), parents, 2)
  BY <1>2, <1>4, <1>5, WitnessFromContext
<1>7. /\ c.witness \subseteq InContext(candidates, context)
      /\ Cardinality({b.actor : b \in c.witness}) = 2
      /\ parents # {} => \E b \in c.witness : b.object.parent \in parents
  BY <1>6 DEF Witnesses
<1>8. \A b \in c.witness : \E d \in candidates :
         /\ d.actor = b.actor /\ d.object = b.object
         /\ b.liveness \in {"UNKNOWN", d.liveness}
  BY <1>7, WitnessMember
<1>9. candidates # {} /\ candidates \subseteq Binding(X, h.endpoint)
  BY <1>3, <1>4, <1>8 DEF candidates, Candidates
<1>10. parents = {Aim}
  BY <1>9, ParentsAreAimed DEF candidates, parents, h
<1>11. ASSUME NEW b \in c.witness
       PROVE  \E d, made, use :
                 /\ Attests(d, made, use) /\ use.op = "READ"
                 /\ d.actor = b.actor /\ d.object = b.object
                 /\ b.liveness \in {"UNKNOWN", d.liveness}
  <2>1. PICK d \in candidates :
           /\ d.actor = b.actor /\ d.object = b.object
           /\ b.liveness \in {"UNKNOWN", d.liveness}
    BY <1>8
  <2>2. PICK made, use : Attests(d, made, use) /\ use.op = h.endpoint.op
    BY <1>9, BindingIsAttested
  <2> QED
    BY <1>4, <2>1, <2>2
<1> QED
  BY <1>2, <1>4, <1>7, <1>10, <1>11

\* A plan that is ready for review swaps objects of two accounts, each made and
\* then used by the account it is attributed to and shown to nobody else.
THEOREM WitnessesAreOwned == Spec => []WitnessesOwnTheirObjects
<1>1. ASSUME ReadinessInv, PlanIsCurrent, plan.status = "READY_FOR_REVIEW",
             plan.key # "login"
      PROVE  /\ Cardinality({b.actor : b \in plan.witness}) = 2
             /\ \E b \in plan.witness : b.object.parent = Aim
             /\ \A b \in plan.witness :
                   /\ OwnerOf(b.object) = b.actor
                   /\ \E use \in Said(b.object) : use.actor = b.actor /\ use.op = "READ" /\ use.ok
                   /\ \A x \in Said(b.object) : x.ok => x.actor = b.actor /\ x.auth # "none"
  <2>1. LogInv /\ FilesInv /\ PlanInv
    BY <1>1 DEF ReadinessInv
  <2>2. ASSUME NEW b \in plan.witness
        PROVE  /\ OwnerOf(b.object) = b.actor
               /\ \E use \in Said(b.object) : use.actor = b.actor /\ use.op = "READ" /\ use.ok
               /\ \A x \in Said(b.object) : x.ok => x.actor = b.actor /\ x.auth # "none"
    <3>1. PICK d, made, use :
             /\ Attests(d, made, use) /\ use.op = "READ"
             /\ d.actor = b.actor /\ d.object = b.object
      BY <1>1, <2>1, ReadyWitness
    <3>2. /\ d.actor = use.actor /\ use \in Said(d.object) /\ use.ok
          /\ OwnedBy(d.object, d.actor)
      BY <2>1, <3>1, AttestedIsOwned
    <3> QED
      BY <3>1, <3>2 DEF OwnedBy
  <2> QED
    BY <1>1, <2>1, <2>2, ReadyWitness
<1>2. ReadinessInv => WitnessesOwnTheirObjects
  BY <1>1 DEF WitnessesOwnTheirObjects
<1> QED
  BY <1>2, ReadinessInvariant, PTL

\* As long as a reviewed cleanup control is accepted for a plan, its object is
\* one an account in the review made itself and nobody else was seen on, and
\* the oracle read has been observed.
THEOREM CleanupsAreReviewed == Spec => []ReviewedCleanupHolds
<1>1. ASSUME ReadinessInv, PlanIsCurrent, plan.key = "delete", "CLEANUP" \notin plan.blockers
      PROVE  /\ OwnerOf(policy.control.object) \in policy.control.actors
             /\ \A x \in Said(policy.control.object) :
                   x.ok => x.actor = OwnerOf(policy.control.object)
             /\ \E x \in X : EndpointOf(x) = policy.control.oracle
  <2> DEFINE h == records[plan.key]
  <2> DEFINE object == policy.control.object
  <2>1. LogInv /\ FilesInv /\ PlanInv
    BY <1>1 DEF ReadinessInv
  <2>2. /\ h.endpoint = TargetOf("delete") /\ endpoints = AfterOf(X)
        /\ Access(h, endpoints) = Binding(X, h.endpoint)
    BY <1>1, <2>1, PlanAims
  <2>3. PICK c : Decided(c)
    BY <1>1, <2>1, PlanIsDecided DEF PlanIsCurrent
  <2>4. "CLEANUP" \notin Unmet(h, X, endpoints, policy, c)
    BY <1>1, <2>3 DEF Decided
  <2> HIDE DEF h
  <2>5. CleanupKnown(h, X, endpoints, policy, c)
    BY <2>4 DEF Unmet
  <2>6. CleanupStands(h, X, endpoints, policy, c.actors)
    BY <2>2, <2>5 DEF CleanupKnown, Read, TargetOf
  <2>7. /\ IsCleanupResource(object, h, X, endpoints, policy)
        /\ policy.control.oracle \in DOMAIN endpoints
    BY <2>6 DEF CleanupStands, Oracles
  <2>8. PICK b \in Binding(X, h.endpoint) : b.object = object /\ b.actor \in policy.control.actors
    BY <2>2, <2>7 DEF IsCleanupResource
  <2>9. OwnedBy(b.object, b.actor)
    <3>1. PICK made, use : Attests(b, made, use)
      BY BindingIsAttested
    <3> QED
      BY <2>1, <3>1, AttestedIsOwned
  <2>10. \E x \in X : EndpointOf(x) = policy.control.oracle
    BY <2>2, <2>7 DEF AfterOf, EndpointsOf
  <2> QED
    BY <2>8, <2>9, <2>10 DEF OwnedBy
<1>2. ReadinessInv => ReviewedCleanupHolds
  BY <1>1 DEF ReviewedCleanupHolds
<1> QED
  BY <1>2, ReadinessInvariant, PTL

-----------------------------------------------------------------------------
(* Whether an object is still there                                        *)

LEMMA OneValue ==
    ASSUME NEW S, Cardinality(S) = 1, IsFiniteSet(S), NEW s \in S
    PROVE  S = {s} /\ (CHOOSE t \in S : TRUE) = s
<1>1. PICK t : S = {t}
  BY FS_Singleton
<1>2. S = {s}
  BY <1>1
<1> QED
  BY <1>2

LEMMA ImageFinite ==
    ASSUME NEW uses, IsFiniteSet(uses)
    PROVE  IsFiniteSet({SaysOf(u) : u \in uses})
<1> DEFINE f == [u \in uses |-> SaysOf(u)]
<1> DEFINE says == {SaysOf(u) : u \in uses}
<1>1. f \in Surjection(uses, says)
  BY DEF Surjection
<1> HIDE DEF f, says
<1>2. IsFiniteSet(says)
  BY <1>1, FS_Surjection
<1> QED
  BY <1>2 DEF says

\* A deletion comes after the creation, by the clock too: an object that is
\* made is new.
LEMMA DeletionFollows ==
    ASSUME LogInv, NEW made \in X, made.op = "CREATE", NEW d \in X, Deletes(d),
           d.object = made.object, made.ok, d.time # NoTime, made.time # NoTime
    PROVE  d.time >= made.time
<1>1. /\ d.id \in 1..Len(log) /\ d = log[d.id]
      /\ made.id \in 1..Len(log) /\ made = log[made.id]
  BY ImportedIsLogged
<1>2. ~(d.id < made.id)
  BY <1>1 DEF LogInv
<1>3. d.time = Stamp(d.id) /\ made.time = Stamp(made.id)
  BY <1>1 DEF LogInv
<1>4. Len(log) \in Nat
  BY LogShape DEF LogInv
<1>5. Stamp(made.id) <= Stamp(d.id)
  BY <1>1, <1>2, <1>4, StampsGrow
<1>6. Stamp(made.id) \in Nat /\ Stamp(d.id) \in Nat
  <2>1. made.id \in Nat /\ d.id \in Nat
    BY <1>1, <1>4
  <2> QED
    BY <2>1, StampIs
<1> QED
  BY <1>3, <1>5, <1>6

LEMMA LivenessType ==
    ASSUME NEW uses, IsFiniteSet(uses)
    PROVE  Liveness(uses) \in {"DELETED", "LIVE", "HISTORICAL_ONLY"}
<1> DEFINE deciding == IF Cardinality(LastOf(uses)) = 1 THEN LastOf(uses) ELSE uses
<1> DEFINE says == {SaysOf(u) : u \in deciding}
<1>1. Liveness(uses) = IF Cardinality(says) = 1 THEN CHOOSE s \in says : TRUE ELSE "HISTORICAL_ONLY"
  BY DEF Liveness
<1>2. says \subseteq {"DELETED", "LIVE", "HISTORICAL_ONLY"}
  BY DEF SaysOf
<1>3. IsFiniteSet(says)
  <2>1. says \in SUBSET {SaysOf(u) : u \in uses}
    BY DEF LastOf
  <2> HIDE DEF says
  <2> QED
    BY <2>1, ImageFinite, FS_Subset
<1> HIDE DEF says
<1>4. CASE Cardinality(says) = 1
  <2>1. PICK s : says = {s}
    BY <1>3, <1>4, FS_Singleton
  <2>2. (CHOOSE t \in says : TRUE) = s
    BY <2>1
  <2> QED
    BY <1>1, <1>2, <1>4, <2>1, <2>2
<1>5. CASE Cardinality(says) # 1
  BY <1>1, <1>5
<1> QED
  BY <1>4, <1>5

\* LIVE is the last word of all the uses, or what every one of them says.
LEMMA LiveMeans ==
    ASSUME NEW uses, IsFiniteSet(uses), Liveness(uses) = "LIVE"
    PROVE  \/ \E u \in uses : LastOf(uses) = {u} /\ SaysOf(u) = "LIVE"
           \/ \A u \in uses : SaysOf(u) = "LIVE"
<1> DEFINE deciding == IF Cardinality(LastOf(uses)) = 1 THEN LastOf(uses) ELSE uses
<1> DEFINE says == {SaysOf(u) : u \in deciding}
<1>1. Liveness(uses) = IF Cardinality(says) = 1 THEN CHOOSE s \in says : TRUE ELSE "HISTORICAL_ONLY"
  BY DEF Liveness
<1>2. LastOf(uses) \in SUBSET uses /\ IsFiniteSet(LastOf(uses))
  <2>1. LastOf(uses) \in SUBSET uses
    BY DEF LastOf
  <2> QED
    BY <2>1, FS_Subset
<1>3. deciding \in SUBSET uses /\ IsFiniteSet(deciding)
  BY <1>2
<1> HIDE DEF deciding
<1>4. Cardinality(says) = 1 /\ (CHOOSE s \in says : TRUE) = "LIVE"
  BY <1>1
<1>5. \A u \in deciding : SaysOf(u) = "LIVE"
  <2>1. IsFiniteSet(says)
    BY <1>3, ImageFinite
  <2> SUFFICES ASSUME NEW u \in deciding PROVE SaysOf(u) = "LIVE"
    OBVIOUS
  <2>2. SaysOf(u) \in says
    OBVIOUS
  <2> HIDE DEF says
  <2> QED
    BY <1>4, <2>1, <2>2, OneValue
<1>6. CASE Cardinality(LastOf(uses)) = 1
  <2>1. PICK u : LastOf(uses) = {u}
    BY <1>2, <1>6, FS_Singleton
  <2> QED
    BY <1>2, <1>5, <1>6, <2>1 DEF deciding
<1>7. CASE Cardinality(LastOf(uses)) # 1
  BY <1>5, <1>7 DEF deciding
<1> QED
  BY <1>6, <1>7

\* By the clock, what came after a deletion was not answered.
LEMMA NothingAfterDeletion ==
    ASSUME LogInv, NEW d \in X, Deletes(d), NEW u \in X, u.ok, u.object = d.object,
           d.time # NoTime, u.time # NoTime
    PROVE  ~(d.time < u.time)
<1>1. /\ d.id \in 1..Len(log) /\ d = log[d.id]
      /\ u.id \in 1..Len(log) /\ u = log[u.id]
  BY ImportedIsLogged
<1>2. ~(d.id < u.id)
  BY <1>1 DEF LogInv
<1>3. d.time = Stamp(d.id) /\ u.time = Stamp(u.id)
  BY <1>1 DEF LogInv
<1>4. Len(log) \in Nat
  BY LogShape DEF LogInv
<1>5. Stamp(u.id) <= Stamp(d.id)
  BY <1>1, <1>2, <1>4, StampsGrow
<1>6. Stamp(u.id) \in Nat /\ Stamp(d.id) \in Nat
  <2>1. u.id \in Nat /\ d.id \in Nat
    BY <1>1, <1>4
  <2> QED
    BY <2>1, StampIs
<1> QED
  BY <1>3, <1>5, <1>6

\* A witness of a current plan is not one imported traffic has deleted, when
\* its exchanges can be ordered and were answered under one kind of credential.
THEOREM WitnessesStillExist == Spec => []WitnessesAreAlive
<1>1. ASSUME ReadinessInv, PlanIsCurrent, plan.status = "READY_FOR_REVIEW",
             plan.key # "login", NEW b \in plan.witness,
             \A x, y \in Said(b.object) :
                x.time # NoTime /\ (x.ok /\ y.ok => SameCredential(x, y)),
             NEW gone \in Said(b.object), gone.op = "DELETE", gone.ok
      PROVE  FALSE
  <2>1. LogInv /\ FilesInv /\ PlanInv
    BY <1>1 DEF ReadinessInv
  <2>2. PICK d, made, use :
           /\ Attests(d, made, use)
           /\ d.actor = b.actor /\ d.object = b.object
           /\ b.liveness \in {"UNKNOWN", d.liveness}
    BY <1>1, <2>1, ReadyWitness
  <2>3. b.liveness \notin {"DELETED", "HISTORICAL_ONLY", "UNKNOWN"}
    BY <1>1, <2>1, ReadyWitness
  <2> DEFINE uses == {u \in ControlledUses(X) : u.object = b.object}
  <2>4. /\ d.object = use.object /\ OwnedBy(d.object, d.actor)
        /\ d.actor = use.actor
    BY <2>1, <2>2, AttestedIsOwned
  <2>5. d.liveness = Liveness(uses)
    BY <2>2, <2>4 DEF Attests, Baseline
  <2>6. /\ made \in Said(b.object) /\ made.ok /\ made.op = "CREATE"
        /\ made \in Creations(X) /\ made.object = b.object /\ made.actor = b.actor
    BY <2>2, <2>4 DEF Attests, Creations, Continues, Produces, Said
  <2>7. gone.actor = made.actor
    BY <1>1, <2>2, <2>4, <2>6 DEF OwnedBy
  <2>8. gone.time >= made.time
    <3>1. gone \in X /\ made \in X /\ gone.object = made.object
      BY <1>1, <2>6 DEF Said, Ordinary
    <3>2. gone.time # NoTime /\ made.time # NoTime
      BY <1>1, <2>6
    <3> QED
      BY <1>1, <2>1, <2>6, <3>1, <3>2, DeletionFollows DEF Deletes
  <2>9. gone \in uses /\ SaysOf(gone) = "DELETED"
    <3>1. Follows(gone, made) /\ SameCredential(made, gone)
      BY <1>1, <2>6, <2>8 DEF Follows
    <3>2. Continues(gone, made)
      BY <1>1, <2>6, <2>7, <3>1 DEF Continues, Said
    <3> QED
      BY <1>1, <2>6, <3>2 DEF ControlledUses, Said, SaysOf
  <2>10. IsFiniteSet(uses) /\ uses \subseteq Ordinary(X)
    <3>1. uses \in SUBSET X /\ uses \subseteq Ordinary(X)
      BY DEF ControlledUses, Ordinary
    <3> QED
      BY <2>1, <3>1, ExchangesFinite DEF LogInv
  <2>11. Liveness(uses) \in {"DELETED", "LIVE", "HISTORICAL_ONLY"}
    BY <2>10, LivenessType
  <2> HIDE DEF uses
  <2>12. Liveness(uses) = "LIVE"
    BY <2>2, <2>3, <2>5, <2>11
  <2>13. PICK u \in uses : LastOf(uses) = {u} /\ SaysOf(u) = "LIVE"
    BY <2>9, <2>10, <2>12, LiveMeans
  <2>14. Precedes(gone, u)
    BY <2>9, <2>13 DEF LastOf
  <2>15. /\ u \in X /\ u \in Said(b.object) /\ u.ok /\ u.object = gone.object
         /\ gone \in X
    BY <1>1, <2>10, <2>13 DEF uses, ControlledUses, Continues, Said, Ordinary
  <2>16. gone.time # NoTime /\ u.time # NoTime
    BY <1>1, <2>15
  <2>17. gone.time < u.time
    BY <2>14, <2>16 DEF Precedes
  <2> QED
    BY <1>1, <2>1, <2>15, <2>16, <2>17, NothingAfterDeletion DEF Deletes
<1>2. ReadinessInv => WitnessesAreAlive
  BY <1>1 DEF WitnessesAreAlive
<1> QED
  BY <1>2, ReadinessInvariant, PTL
=============================================================================
