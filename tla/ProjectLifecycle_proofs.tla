------------------------ MODULE ProjectLifecycle_proofs ------------------------
(***************************************************************************)
(* Proofs about the life of a project on disk, for any number of commands  *)
(* at once, any accounts and any bound on the writes: a workspace set up   *)
(* is whole until a deletion starts on it, the console's snapshot is the   *)
(* content of the files, a rollback spares what others made, and an update *)
(* keeps every label its credential.                                       *)
(***************************************************************************)
EXTENDS ProjectLifecycle, SequenceTheorems, TLAPS

-----------------------------------------------------------------------------
(* Types                                                                   *)

FileNames == {"directories", "target", "stores", "imports"}
FileTables == UNION {[S -> Nat] : S \in SUBSET FileNames}
Roots == [there : BOOLEAN, id : Nat, published : BOOLEAN, retired : BOOLEAN,
          file : FileTables]
Layouts == [there : BOOLEAN, id : Nat, has : SUBSET {"incoming", "workflow", "har"}]
Accounts == [label : Labels, role : {"user"}, auth : {"MISSING", "READY"}]
Places == {"idle", "publish", "captures", "confirm", "rollback", "directories", "target",
           "stores", "write", "workflow", "store", "ask", "secrets", "root", "rmtree",
           "finish", "over", "cancelled"}
Processes == [kind : Kinds \cup {"none"}, pc : Places, roster : Seq(Labels),
              seen : Seq(Accounts), staged : BOOLEAN, root : Nat, captures : Nat,
              doomed : SUBSET FileNames, touched : BOOLEAN]
Caches == [sig : Seq(Nat), snap : Seq(Nat)]
Readers == [pc : {"idle", "stat", "load"}, sig : Seq(Nat), snap : Seq(Nat),
            cache : Caches \cup {None}]

RootTyped == root \in Roots
DocTyped == doc \in Seq(Accounts)
LaidTyped == captures \in Layouts /\ secrets \subseteq Labels
ClockTyped == clock \in Nat /\ made \in Nat
ProcTyped == proc \in [Procs -> Processes]
WebTyped == web \in Readers /\ known \in BOOLEAN

Typed == RootTyped /\ DocTyped /\ LaidTyped /\ ClockTyped /\ ProcTyped /\ WebTyped

-----------------------------------------------------------------------------
(* The inductive invariant                                                 *)

\* Directories are numbered as they are made, files stamped as they are
\* written.
NumbersInv ==
    /\ root.id <= made
    /\ root.there => root.id # 0
    /\ root.id = 0 => DOMAIN root.file = {}
    /\ \A p \in Procs : proc[p].root <= made
    /\ \A f \in DOMAIN root.file : root.file[f] \in 1..clock

\* Whoever is to remove the entries of a directory has retired it before.
RetiredInv ==
    \A p \in Procs :
        (proc[p].kind \in Deleting /\ proc[p].root # 0 /\ proc[p].root = root.id)
            => root.retired

StampIn(r, f) == IF f \in DOMAIN r.file THEN r.file[f] ELSE 0

\* The target has stayed as it was when a reading that found it began, and
\* nobody has started to delete: the files have only been added to.
Held(sig, r) ==
    ~r.retired /\ Len(sig) > 0 /\ sig[1] # 0 /\ sig[1] = StampIn(r, "target")

\* What a reading has stamped and loaded is then in the order of time.
Ordered(sig, snap, r, c) ==
    /\ Len(sig) <= 3 /\ Len(snap) <= Len(sig)
    /\ \A i \in DOMAIN sig : sig[i] <= c
    /\ Held(sig, r) => /\ \A i \in DOMAIN sig : sig[i] <= StampIn(r, Snapshot[i])
                       /\ \A i \in DOMAIN snap : sig[i] <= snap[i]
                                                 /\ snap[i] <= StampIn(r, Snapshot[i])

ReadingInv ==
    /\ Ordered(web.sig, web.snap, root, clock)
    /\ web.pc = "idle" => web.sig = <<>> /\ web.snap = <<>>
    /\ web.pc = "stat" => Len(web.sig) < 3 /\ web.snap = <<>>
    /\ web.pc = "load" => Len(web.sig) = 3 /\ Len(web.snap) < 3
    /\ web.cache # None => /\ Ordered(web.cache.sig, web.cache.snap, root, clock)
                           /\ Len(web.cache.snap) = 3

Distinct(accounts) ==
    \A i, j \in DOMAIN accounts : accounts[i].label = accounts[j].label => i = j

\* No two accounts of a target bear one label, nor of one read from it.
LabelsInv ==
    /\ Distinct(doc)
    /\ \A p \in Procs : IsInjective(proc[p].roster) /\ Distinct(proc[p].seen)

LifecycleInv ==
    Typed /\ SetupIsAllOrNothing /\ NumbersInv /\ RetiredInv /\ ReadingInv /\ LabelsInv

-----------------------------------------------------------------------------
(* What a step does to the workspace directory                             *)

Still == UNCHANGED <<root, clock>> /\ made' \in Nat /\ made <= made'
Erected ==
    /\ root' = [there |-> TRUE, id |-> made + 1, published |-> TRUE, retired |-> FALSE,
                file |-> [f \in Scaffold |-> clock + 1]]
    /\ made' = made + 1 /\ clock' = clock + 1
Begun ==
    /\ root' = [Gone EXCEPT !.there = TRUE, !.id = made + 1]
    /\ made' = made + 1 /\ UNCHANGED clock
Wrote == \E f \in FileNames : Write(f)
Dropped == root' = Gone /\ UNCHANGED <<clock, made>>
Retiring == root' = [root EXCEPT !.retired = TRUE] /\ UNCHANGED <<clock, made>>
Removing ==
    /\ \E p \in Procs, f \in DOMAIN root.file :
          /\ proc[p].kind \in Deleting /\ proc[p].root = root.id
          /\ root' = [root EXCEPT !.file = [g \in DOMAIN root.file \ {f} |-> root.file[g]]]
    /\ UNCHANGED <<clock, made>>

RootChange == Still \/ Erected \/ Begun \/ Wrote \/ Dropped \/ Retiring \/ Removing

LEMMA StartRoot ==
    ASSUME Typed, NEW p \in Procs, Start(p)
    PROVE  RootChange
<1> USE DEF Typed, ClockTyped
<1>1. CASE InitBegin(p)
  BY <1>1 DEF InitBegin, RootChange, Begun
<1>2. CASE UNCHANGED <<root, clock>> /\ made' \in {made, made + 1}
  BY <1>2 DEF RootChange, Still
<1>3. CASE UploadBegin(p)
  BY <1>2, <1>3 DEF UploadBegin, Lay
<1> QED
  BY <1>1, <1>2, <1>3 DEF Start, SetupBegin, UpdateBegin, JobBegin, AuthBegin, DeleteBegin,
                          project

LEMMA ContinueRoot ==
    ASSUME Typed, NEW p \in Procs, Continue(p)
    PROVE  RootChange
<1> USE DEF Typed, ClockTyped
<1>1. CASE UNCHANGED <<root, clock>> /\ made' \in {made, made + 1}
  BY <1>1 DEF RootChange, Still
<1>2. CASE \E f \in FileNames : Write(f)
  BY <1>2 DEF RootChange, Wrote
<1>3. CASE SetupPublish(p)
  BY <1>1, <1>3 DEF SetupPublish, Tick, RootChange, Erected, Staged
<1>4. CASE SetupCaptures(p) \/ UpdateCaptures(p) \/ UploadLayout(p)
  BY <1>1, <1>4 DEF SetupCaptures, UpdateCaptures, UploadLayout, Lay
<1>5. CASE Rollback(p)
  BY <1>1, <1>5 DEF Rollback, RootChange, Dropped
<1>6. CASE InitStep(p) \/ JobWrite(p) \/ AuthWrite(p)
  BY <1>2, <1>6 DEF InitStep, InitWrite, JobWrite, AuthWrite, FileNames
<1>7. CASE UpdateWrite(p)
  BY <1>1, <1>2, <1>7 DEF UpdateWrite, FileNames
<1>8. CASE RemoveRoot(p)
  BY <1>1, <1>8 DEF RemoveRoot, RootChange, Retiring
<1>9. CASE RemoveEntry(p)
  <2>1. PICK f \in proc[p].doomed :
          IF f \in DOMAIN root.file
          THEN root' = [root EXCEPT !.file = Restrict(@, DOMAIN @ \ {f})]
          ELSE UNCHANGED root
    BY <1>9 DEF RemoveEntry
  <2>2. CASE f \in DOMAIN root.file
    <3>1. root' = [root EXCEPT !.file = [g \in DOMAIN root.file \ {f} |-> root.file[g]]]
      BY <2>1, <2>2 DEF Restrict, RootTyped, Roots
    <3> QED  BY <1>9, <2>2, <3>1 DEF RemoveEntry, At, RootChange, Removing
  <2>3. CASE f \notin DOMAIN root.file
    BY <1>1, <1>9, <2>1, <2>3 DEF RemoveEntry
  <2> QED  BY <2>2, <2>3
<1>10. CASE RemoveDirectory(p)
  BY <1>1, <1>10 DEF RemoveDirectory, RootChange, Dropped
<1> QED
  BY <1>1, <1>3, <1>4, <1>5, <1>6, <1>7, <1>8, <1>9, <1>10
     DEF Continue, SetupConfirm, SetupFails, UploadStore, Answer, RemoveSecrets,
         RemoveCaptures, DeleteFinish, project

LEMMA RootStep == Typed /\ [Next]_vars => RootChange
<1> SUFFICES ASSUME Typed, [Next]_vars PROVE RootChange
  OBVIOUS
<1>1. CASE UNCHANGED project
  BY <1>1 DEF project, RootChange, Still, Typed, ClockTyped
<1>2. ASSUME NEW p \in Procs, Start(p) \/ Continue(p) \/ Interrupt(p) \/ Stop(p)
      PROVE  RootChange
  BY <1>1, <1>2, StartRoot, ContinueRoot DEF Interrupt, Stop
<1> QED  BY <1>1, <1>2 DEF Next, ReadBegin, ReadStamp, ReadStore, vars, project

\* The directory a removal takes an entry from was retired before.
LEMMA RemovingRetired ==
    ASSUME Typed, NumbersInv, RetiredInv, Removing
    PROVE  root.retired
<1>1. PICK p \in Procs, f \in DOMAIN root.file :
          proc[p].kind \in Deleting /\ proc[p].root = root.id
  BY DEF Removing
<1>2. root.id # 0
  BY <1>1 DEF NumbersInv
<1> QED  BY <1>1, <1>2 DEF RetiredInv

LEMMA WrittenFile ==
    ASSUME RootTyped, ClockTyped, NEW f \in FileNames
    PROVE  /\ Written(f) \in Roots
           /\ Written(f).there
           /\ Written(f).id = IF root.there THEN root.id ELSE made + 1
           /\ Written(f).published = root.published
           /\ Written(f).retired = root.retired
           /\ DOMAIN Written(f).file = {f} \cup DOMAIN root.file
           /\ Written(f).file[f] = clock + 1
           /\ \A g \in DOMAIN root.file \ {f} : Written(f).file[g] = root.file[g]
<1> DEFINE file == [g \in {f} \cup DOMAIN root.file |->
                       IF g = f THEN clock + 1 ELSE root.file[g]]
           id == IF root.there THEN root.id ELSE made + 1
<1>1. Written(f) = [root EXCEPT !.there = TRUE, !.id = id, !.file = file]
  BY DEF Written, RootTyped, Roots
<1>2. file \in FileTables
  <2>1. PICK S \in SUBSET FileNames : root.file \in [S -> Nat]
    BY DEF RootTyped, Roots, FileTables
  <2>2. file \in [{f} \cup S -> Nat] /\ {f} \cup S \in SUBSET FileNames
    BY <2>1 DEF ClockTyped
  <2> QED  BY <2>2 DEF FileTables
<1>3. id \in Nat
  BY DEF RootTyped, Roots, ClockTyped
<1> HIDE DEF file, id
<1>4. /\ Written(f) \in Roots /\ Written(f).there /\ Written(f).file = file
      /\ Written(f).id = id
      /\ Written(f).published = root.published /\ Written(f).retired = root.retired
  BY <1>1, <1>2, <1>3 DEF RootTyped, Roots
<1> QED  BY <1>4 DEF file, id

LEMMA GoneTyped == Gone \in Roots /\ DOMAIN Gone.file = {}
<1>1. DOMAIN Gone.file = {}
  BY DEF Gone
<1>2. Gone.file \in [{} -> Nat]
  BY DEF Gone
<1>3. Gone.file \in FileTables
  BY <1>2 DEF FileTables
<1> QED  BY <1>1, <1>3 DEF Gone, Roots

LEMMA RootKept ==
    ASSUME Typed, SetupIsAllOrNothing, NumbersInv, RetiredInv, RootChange
    PROVE  /\ RootTyped' /\ ClockTyped' /\ SetupIsAllOrNothing'
           /\ root'.id <= made' /\ made <= made' /\ clock <= clock'
           /\ root'.there => root'.id # 0
           /\ root'.id = 0 => DOMAIN root'.file = {}
           /\ \A f \in DOMAIN root'.file : root'.file[f] \in 1..clock'
<1> USE DEF Typed, RootTyped, ClockTyped, NumbersInv, SetupIsAllOrNothing, Whole
<1>0. clock \in Nat /\ made \in Nat /\ root.id \in Nat
  BY DEF Roots
<1>1. CASE Still
  BY <1>0, <1>1 DEF Still
<1>2. CASE Erected
  <2>1. [f \in Scaffold |-> clock + 1] \in FileTables
    <3>1. [f \in Scaffold |-> clock + 1] \in [Scaffold -> Nat]
      BY <1>0
    <3> QED  BY <3>1 DEF FileTables, Scaffold, FileNames
  <2> QED  BY <1>0, <1>2, <2>1 DEF Erected, Roots
<1>3. CASE Begun
  <2> DEFINE id == made + 1
  <2>0. id \in Nat /\ root' = [Gone EXCEPT !.there = TRUE, !.id = id]
    BY <1>0, <1>3 DEF Begun
  <2> HIDE DEF id
  <2>1. root' \in Roots /\ root'.there /\ root'.id = id /\ ~root'.published
        /\ root'.file = Gone.file
    <3>1. ~Gone.published
      BY DEF Gone
    <3> QED  BY <2>0, <3>1, GoneTyped DEF Roots
  <2>2. DOMAIN root'.file = {}
    BY <2>1, GoneTyped
  <2> QED  BY <1>0, <1>3, <2>1, <2>2 DEF Begun, id
<1>4. CASE Wrote
  <2>1. PICK f \in FileNames : Write(f)
    BY <1>4 DEF Wrote
  <2>2. root' = Written(f) /\ clock' = clock + 1
        /\ made' = IF root.there THEN made ELSE made + 1
    BY <2>1 DEF Write, Tick
  <2>3. root'.id <= made' /\ root'.id # 0
    BY <1>0, <2>2, WrittenFile
  <2>4. \A g \in DOMAIN root'.file : root'.file[g] \in 1..clock'
    <3> SUFFICES ASSUME NEW g \in DOMAIN root'.file PROVE root'.file[g] \in 1..clock'
      OBVIOUS
    <3>1. CASE g = f
      BY <1>0, <2>2, <3>1, WrittenFile
    <3>2. CASE g # f
      <4>1. g \in DOMAIN root.file /\ root'.file[g] = root.file[g]
        BY <2>2, <3>2, WrittenFile
      <4> QED  BY <1>0, <2>2, <4>1
    <3> QED  BY <3>1, <3>2
  <2>5. SetupIsAllOrNothing'
    BY <2>2, WrittenFile
  <2> QED  BY <1>0, <2>2, <2>3, <2>4, <2>5, WrittenFile
<1>5. CASE Dropped
  <2>1. /\ root' \in Roots /\ root'.id = 0 /\ ~root'.there /\ ~root'.published
        /\ DOMAIN root'.file = {}
    BY <1>5, GoneTyped DEF Dropped, Gone
  <2> QED  BY <1>0, <1>5, <2>1 DEF Dropped
<1>6. CASE Retiring
  <2>1. /\ root' \in Roots /\ root'.retired /\ root'.id = root.id /\ root'.there = root.there
        /\ root'.file = root.file
    BY <1>6 DEF Retiring, Roots
  <2> QED  BY <1>0, <1>6, <2>1 DEF Retiring
<1>7. CASE Removing
  <2>1. root.retired
    BY <1>7, RemovingRetired
  <2>2. PICK f \in DOMAIN root.file :
            root' = [root EXCEPT !.file = [g \in DOMAIN root.file \ {f} |-> root.file[g]]]
    BY <1>7 DEF Removing
  <2>3. [g \in DOMAIN root.file \ {f} |-> root.file[g]] \in FileTables
    <3>1. PICK S \in SUBSET FileNames : root.file \in [S -> Nat]
      BY DEF Roots, FileTables
    <3>2. [g \in DOMAIN root.file \ {f} |-> root.file[g]] \in [S \ {f} -> Nat]
      BY <3>1
    <3> QED  BY <3>2 DEF FileTables
  <2>4. /\ root' \in Roots /\ root'.retired /\ root'.id = root.id /\ root'.there = root.there
        /\ root'.file = [g \in DOMAIN root.file \ {f} |-> root.file[g]]
    BY <2>1, <2>2, <2>3 DEF Roots
  <2> QED  BY <1>0, <1>7, <2>4 DEF Removing
<1> QED  BY <1>1, <1>2, <1>3, <1>4, <1>5, <1>6, <1>7 DEF RootChange

-----------------------------------------------------------------------------
(* What a step does to the commands                                        *)

Keeps(p, c) ==
    /\ c.kind = proc[p].kind /\ c.root = proc[p].root
    /\ c.roster = proc[p].roster /\ c.seen = proc[p].seen
Starts(c) == c.root = 0 /\ IsInjective(c.roster) /\ (c.seen = <<>> \/ c.seen = doc)
Owns(p, c) ==
    /\ c.kind \notin Deleting /\ c.root = made + 1 /\ made' = made + 1
    /\ c.roster = proc[p].roster /\ c.seen = proc[p].seen
Retires(p, c) ==
    /\ c.root = root.id /\ root' = [root EXCEPT !.retired = TRUE] /\ made' = made
    /\ c.roster = proc[p].roster /\ c.seen = proc[p].seen

ProcChange ==
    \E p \in Procs, c \in Processes, pc \in Places :
        /\ Moved(p, c, pc)
        /\ Keeps(p, c) \/ Starts(c) \/ Owns(p, c) \/ Retires(p, c)

\* The order of removals, step by step.
LEMMA AfterTyped ==
    ASSUME NEW p \in Procs
    PROVE  /\ proc[p].kind \in Purging => After(p, "secrets") = "captures"
           /\ proc[p].kind \in Purging => After(p, "captures") = "root"
           /\ proc[p].kind \in Deleting => After(p, "root") = "finish"
<1> DEFINE order == Removals(proc[p].kind)
           at(stage) == CHOOSE i \in DOMAIN order : order[i] = stage
<1>1. CASE proc[p].kind \in Purging
  <2>1. order = <<"secrets", "captures", "root">>
    BY <1>1 DEF Removals
  <2> HIDE DEF order
  <2>2. DOMAIN order = {1, 2, 3} /\ Len(order) = 3 /\ order[1] = "secrets"
        /\ order[2] = "captures" /\ order[3] = "root"
    BY <2>1
  <2>3. at("secrets") = 1 /\ at("captures") = 2 /\ at("root") = 3
    BY <2>2
  <2> QED  BY <2>2, <2>3 DEF After, order
<1>2. CASE proc[p].kind \notin Purging
  <2>1. order = <<"root">>
    BY <1>2 DEF Removals
  <2> HIDE DEF order
  <2>2. DOMAIN order = {1} /\ Len(order) = 1 /\ order[1] = "root"
    BY <2>1
  <2>3. at("root") = 1
    BY <2>2
  <2> QED  BY <1>2, <2>2, <2>3 DEF After, order
<1> QED  BY <1>1, <1>2

LEMMA FreshTyped ==
    ASSUME NEW kind \in Kinds \cup {"none"}
    PROVE  Fresh(kind) \in Processes /\ Starts(Fresh(kind))
<1>1. <<>> \in Seq(Labels) /\ <<>> \in Seq(Accounts)
  OBVIOUS
<1>2. IsInjective(<<>>)
  BY DEF IsInjective
<1> QED  BY <1>1, <1>2 DEF Fresh, Processes, Places, Starts

LEMMA StartProc ==
    ASSUME Typed, NEW p \in Procs, Start(p)
    PROVE  ProcChange
<1> USE DEF Typed, DocTyped, LaidTyped
<1>1. ASSUME NEW kind \in {"setup", "mcp"} \cap Kinds, NEW r \in Rosters,
             SetupBegin(p, kind, r)
      PROVE  ProcChange
  <2> DEFINE c == [Fresh(kind) EXCEPT !.roster = r, !.staged = ~captures.there]
  <2>1. Moved(p, c, "publish") /\ IsInjective(r) /\ r \in Seq(Labels)
    BY <1>1, LifecycleAssumption DEF SetupBegin, ValidRoster
  <2>2. c \in Processes /\ Starts(c)
    BY <2>1, FreshTyped DEF Fresh, Processes, Starts
  <2> QED  BY <2>1, <2>2 DEF ProcChange, Places
<1>2. CASE "init" \in Kinds /\ InitBegin(p)
  BY <1>2, FreshTyped DEF InitBegin, ProcChange, Places
<1>3. ASSUME "update" \in Kinds, NEW r \in Rosters, UpdateBegin(p, r)
      PROVE  ProcChange
  <2> DEFINE c == [Fresh("update") EXCEPT !.roster = r, !.seen = doc]
  <2>1. Moved(p, c, "write") /\ IsInjective(r) /\ r \in Seq(Labels)
    BY <1>3, LifecycleAssumption DEF UpdateBegin, ValidRoster
  <2>2. c \in Processes /\ Starts(c)
    BY <1>3, <2>1, FreshTyped DEF Fresh, Processes, Starts
  <2> QED  BY <2>1, <2>2 DEF ProcChange, Places
<1>4. CASE "job" \in Kinds /\ JobBegin(p)
  BY <1>4, FreshTyped DEF JobBegin, ProcChange, Places
<1>5. ASSUME "auth" \in Kinds, NEW l \in Labels, AuthBegin(p, l)
      PROVE  ProcChange
  <2> DEFINE c == [Fresh("auth") EXCEPT !.roster = <<l>>, !.seen = doc]
  <2>1. Moved(p, c, "write")
    BY <1>5 DEF AuthBegin
  <2>2. <<l>> \in Seq(Labels) /\ IsInjective(<<l>>)
    BY DEF IsInjective
  <2>3. c \in Processes /\ Starts(c)
    BY <1>5, <2>2, FreshTyped DEF Fresh, Processes, Starts
  <2> QED  BY <2>1, <2>3 DEF ProcChange, Places
<1>6. CASE "upload" \in Kinds /\ UploadBegin(p)
  BY <1>6, FreshTyped DEF UploadBegin, ProcChange, Places
<1>7. ASSUME NEW kind \in Deleting \cap Kinds, DeleteBegin(p, kind)
      PROVE  ProcChange
  <2> DEFINE c == [Fresh(kind) EXCEPT
                     !.captures = IF kind \in Purging THEN captures.id ELSE 0]
  <2>1. Moved(p, c, "ask")
    BY <1>7 DEF DeleteBegin
  <2>2. c \in Processes /\ Starts(c)
    BY FreshTyped DEF Fresh, Processes, Starts, Layouts
  <2> QED  BY <2>1, <2>2 DEF ProcChange, Places
<1> QED  BY <1>1, <1>2, <1>3, <1>4, <1>5, <1>6, <1>7 DEF Start

LEMMA ContinueProc ==
    ASSUME Typed, NEW p \in Procs, Continue(p) \/ Interrupt(p) \/ Stop(p)
    PROVE  ProcChange
<1>0. proc[p] \in Processes
  BY DEF Typed, ProcTyped
<1>1. ASSUME NEW pc \in Places, To(p, pc)
      PROVE  ProcChange
  BY <1>0, <1>1 DEF To, Keeps, ProcChange
<1>2. ASSUME NEW pc \in Places, NEW c \in Processes, Keeps(p, c), Moved(p, c, pc)
      PROVE  ProcChange
  BY <1>2 DEF ProcChange
<1>3. CASE SetupPublish(p)
  <2>1. CASE To(p, "rollback")
    BY <1>1, <2>1 DEF Places
  <2>2. CASE ~To(p, "rollback")
    <3> DEFINE c == [proc[p] EXCEPT !.root = made + 1]
               pc == IF proc[p].kind = "mcp" THEN "confirm" ELSE "captures"
    <3>1. Moved(p, c, pc) /\ made' = made + 1 /\ proc[p].kind \in {"setup", "mcp"}
      BY <1>3, <2>2 DEF SetupPublish, At
    <3>2. c \in Processes /\ Owns(p, c)
      <4>1. made + 1 \in Nat
        BY DEF Typed, ClockTyped
      <4> QED  BY <1>0, <3>1, <4>1 DEF Processes, Owns, Deleting
    <3>3. pc \in Places
      BY DEF Places
    <3> QED  BY <3>1, <3>2, <3>3 DEF ProcChange
  <2> QED  BY <2>1, <2>2
<1>4. CASE SetupCaptures(p)
  <2>1. CASE To(p, "rollback") \/ To(p, "confirm")
    BY <1>1, <2>1 DEF Places
  <2>2. CASE Moved(p, [proc[p] EXCEPT !.captures = made + 1], "confirm")
    <3>1. made + 1 \in Nat
      BY DEF Typed, ClockTyped
    <3>2. [proc[p] EXCEPT !.captures = made + 1] \in Processes
          /\ Keeps(p, [proc[p] EXCEPT !.captures = made + 1])
      BY <1>0, <3>1 DEF Processes, Keeps
    <3> QED  BY <1>2, <2>2, <3>2 DEF Places
  <2> QED  BY <1>4, <2>1, <2>2 DEF SetupCaptures
<1>5. CASE \/ SetupConfirm(p) \/ SetupFails(p) \/ Rollback(p) \/ UpdateWrite(p)
           \/ UpdateCaptures(p) \/ JobWrite(p) \/ AuthWrite(p) \/ UploadLayout(p)
           \/ UploadStore(p) \/ DeleteFinish(p) \/ Interrupt(p) \/ Stop(p)
  BY <1>1, <1>5 DEF SetupConfirm, SetupFails, Rollback, UpdateWrite, UpdateCaptures, JobWrite,
                    AuthWrite, UploadLayout, UploadStore, DeleteFinish, Interrupt, Stop, Places
<1>6. CASE InitStep(p)
  BY <1>1, <1>6 DEF InitStep, InitWrite, Places
<1>7. CASE Answer(p)
  <2>1. Removals(proc[p].kind)[1] \in Places
    BY DEF Removals, Places
  <2>2. PICK exact \in BOOLEAN : To(p, IF exact THEN Removals(proc[p].kind)[1] ELSE "over")
    BY <1>7 DEF Answer
  <2> QED  BY <1>1, <2>1, <2>2 DEF Places
<1>8. CASE RemoveSecrets(p)
  <2> DEFINE c == [proc[p] EXCEPT !.touched = proc[p].touched \/ secrets # {}]
  <2>1. Moved(p, c, "captures")
    BY <1>8, AfterTyped DEF RemoveSecrets, At
  <2>2. c \in Processes /\ Keeps(p, c)
    BY <1>0 DEF Processes, Keeps
  <2> QED  BY <1>2, <2>1, <2>2 DEF Places
<1>9. Touched(p) \in Processes /\ Keeps(p, Touched(p))
  BY <1>0 DEF Touched, Processes, Keeps
<1>10. CASE RemoveCaptures(p)
  <2>1. To(p, "root") \/ To(p, "over") \/ Moved(p, Touched(p), "root")
    BY <1>10, AfterTyped DEF RemoveCaptures, At
  <2> QED  BY <1>1, <1>2, <1>9, <2>1 DEF Places
<1>11. CASE RemoveRoot(p)
  <2>1. CASE Resolves
    <3> DEFINE c == [proc[p] EXCEPT !.root = root.id, !.doomed = DOMAIN root.file]
    <3>1. /\ Moved(p, c, "rmtree") /\ made' = made
          /\ root' = [root EXCEPT !.retired = TRUE]
      BY <1>11, <2>1 DEF RemoveRoot
    <3>2. root.id \in Nat /\ DOMAIN root.file \subseteq FileNames
      BY DEF Typed, RootTyped, Roots, FileTables
    <3>3. c \in Processes /\ Retires(p, c)
      BY <1>0, <3>1, <3>2 DEF Processes, Retires
    <3> QED  BY <3>1, <3>3 DEF ProcChange, Places
  <2>2. CASE ~Resolves
    BY <1>1, <1>11, <2>2 DEF RemoveRoot, Places
  <2> QED  BY <2>1, <2>2
<1>12. CASE RemoveEntry(p)
  <2>1. PICK f \in proc[p].doomed :
          \/ Moved(p, [Touched(p) EXCEPT !.doomed = Touched(p).doomed \ {f}], "rmtree")
          \/ To(p, "over")
    BY <1>9, <1>12 DEF RemoveEntry, Processes
  <2>2. [Touched(p) EXCEPT !.doomed = Touched(p).doomed \ {f}] \in Processes
        /\ Keeps(p, [Touched(p) EXCEPT !.doomed = Touched(p).doomed \ {f}])
    BY <1>9 DEF Processes, Keeps
  <2> QED  BY <1>1, <1>2, <2>1, <2>2 DEF Places
<1>13. CASE RemoveDirectory(p)
  <2>1. To(p, "finish") \/ To(p, "over")
    BY <1>13, AfterTyped DEF RemoveDirectory, At
  <2> QED  BY <1>1, <2>1 DEF Places
<1> QED
  BY <1>3, <1>4, <1>5, <1>6, <1>7, <1>8, <1>10, <1>11, <1>12, <1>13 DEF Continue

LEMMA ProcStep == Typed /\ [Next]_vars => UNCHANGED proc \/ ProcChange
BY StartProc, ContinueProc DEF Next, ReadBegin, ReadStamp, ReadStore, vars

\* A command that moves is as it was handed on, or has forgotten.
LEMMA MovedProc ==
    ASSUME ProcTyped, NEW p \in Procs, NEW c \in Processes, NEW pc \in Places,
           Moved(p, c, pc)
    PROVE  /\ ProcTyped'
           /\ \A q \in Procs \ {p} : proc'[q] = proc[q]
           /\ \/ /\ proc'[p].kind = c.kind /\ proc'[p].root = c.root
                 /\ proc'[p].roster = c.roster /\ proc'[p].seen = c.seen
              \/ /\ proc'[p].root = 0 /\ IsInjective(proc'[p].roster)
                 /\ proc'[p].seen = <<>>
<1> DEFINE d == IF pc = "over" THEN [Fresh("none") EXCEPT !.pc = pc]
                ELSE IF pc = "cancelled"
                THEN [Fresh(c.kind) EXCEPT !.pc = pc, !.touched = c.touched]
                ELSE [c EXCEPT !.pc = pc]
<1>1. proc' = [proc EXCEPT ![p] = d]
  BY DEF Moved
<1>2. CASE pc = "over"
  <2>1. d \in Processes /\ d.root = 0 /\ IsInjective(d.roster) /\ d.seen = <<>>
    BY <1>2, FreshTyped DEF Fresh, Processes, Starts
  <2> HIDE DEF d
  <2> QED  BY <1>1, <2>1 DEF ProcTyped
<1>3. CASE pc = "cancelled"
  <2>1. c.kind \in Kinds \cup {"none"}
    BY DEF Processes
  <2>2. d \in Processes /\ d.root = 0 /\ IsInjective(d.roster) /\ d.seen = <<>>
    BY <1>3, <2>1, FreshTyped DEF Fresh, Processes, Starts
  <2> HIDE DEF d
  <2> QED  BY <1>1, <2>2 DEF ProcTyped
<1>4. CASE pc \notin {"over", "cancelled"}
  <2>1. d \in Processes /\ d.root = c.root /\ d.kind = c.kind /\ d.roster = c.roster
        /\ d.seen = c.seen
    BY <1>4 DEF Processes
  <2> HIDE DEF d
  <2> QED  BY <1>1, <2>1 DEF ProcTyped
<1> QED  BY <1>2, <1>3, <1>4

LEMMA ProcKept ==
    ASSUME Typed, NumbersInv, LabelsInv, made <= made', made' \in Nat,
           UNCHANGED proc \/ ProcChange
    PROVE  /\ ProcTyped'
           /\ \A p \in Procs : proc'[p].root <= made'
           /\ \A p \in Procs : IsInjective(proc'[p].roster) /\ Distinct(proc'[p].seen)
<1> USE DEF Typed, ClockTyped, NumbersInv, LabelsInv
<1>0. \A p \in Procs : proc[p].root \in Nat
  BY DEF ProcTyped, Processes
<1>1. CASE UNCHANGED proc
  BY <1>0, <1>1 DEF ProcTyped
<1>2. CASE ProcChange
  <2>1. PICK p \in Procs, c \in Processes, pc \in Places :
          /\ Moved(p, c, pc)
          /\ Keeps(p, c) \/ Starts(c) \/ Owns(p, c) \/ Retires(p, c)
    BY <1>2 DEF ProcChange
  <2>2. c.root <= made'
    BY <1>0, <2>1 DEF Keeps, Starts, Owns, Retires, RootTyped, Roots
  <2>3. IsInjective(c.roster) /\ Distinct(c.seen)
    <3>1. Distinct(<<>>)
      BY DEF Distinct
    <3> QED  BY <2>1, <3>1 DEF Keeps, Starts, Owns, Retires
  <2>4. Distinct(<<>>)
    BY DEF Distinct
  <2>5. /\ ProcTyped'
        /\ \A q \in Procs \ {p} : proc'[q] = proc[q]
        /\ \/ /\ proc'[p].root = c.root /\ proc'[p].roster = c.roster
              /\ proc'[p].seen = c.seen
           \/ /\ proc'[p].root = 0 /\ IsInjective(proc'[p].roster)
              /\ proc'[p].seen = <<>>
    BY <2>1, MovedProc
  <2>6. \A q \in Procs : proc'[q].root <= made'
    BY <1>0, <2>2, <2>5
  <2>7. \A q \in Procs : IsInjective(proc'[q].roster) /\ Distinct(proc'[q].seen)
    BY <2>3, <2>4, <2>5
  <2> QED  BY <2>5, <2>6, <2>7
<1> QED  BY <1>1, <1>2

LEMMA RetiredKept ==
    ASSUME Typed, NumbersInv, RetiredInv, RootChange, UNCHANGED proc \/ ProcChange
    PROVE  RetiredInv'
<1> USE DEF Typed, ClockTyped, RootTyped
<1>0. made \in Nat /\ root.id \in Nat /\ \A p \in Procs : proc[p].root \in Nat
  BY DEF ProcTyped, Processes, Roots
<1>1. ASSUME NEW p \in Procs, proc[p].kind \in Deleting, proc[p].root # 0,
             proc[p].root = root'.id
      PROVE  root'.retired
  <2>1. proc[p].root <= made
    BY DEF NumbersInv
  <2>2. CASE Still
    BY <1>1, <2>2 DEF Still, RetiredInv
  <2>3. CASE Erected
    BY <1>0, <1>1, <2>1, <2>3 DEF Erected
  <2>4. CASE Begun
    <3>1. root'.id = made + 1
      BY <2>4 DEF Begun, Gone
    <3> QED  BY <1>0, <1>1, <2>1, <3>1
  <2>5. CASE Wrote
    <3>1. /\ root'.id = IF root.there THEN root.id ELSE made + 1
          /\ root'.retired = root.retired
      BY <2>5, WrittenFile DEF Wrote, Write
    <3>2. root.there
      BY <1>0, <1>1, <2>1, <3>1
    <3> QED  BY <1>1, <3>1, <3>2 DEF RetiredInv
  <2>6. CASE Dropped
    BY <1>1, <2>6 DEF Dropped, Gone
  <2>7. CASE Retiring
    BY <2>7 DEF Retiring, Roots
  <2>8. CASE Removing
    <3>1. root'.id = root.id /\ root'.retired = root.retired
      BY <2>8 DEF Removing, Roots
    <3> QED  BY <1>1, <3>1 DEF RetiredInv
  <2> QED  BY <2>2, <2>3, <2>4, <2>5, <2>6, <2>7, <2>8 DEF RootChange
<1>2. CASE UNCHANGED proc
  BY <1>1, <1>2 DEF RetiredInv
<1>3. CASE ProcChange
  <2>1. PICK p \in Procs, c \in Processes, pc \in Places :
          /\ Moved(p, c, pc)
          /\ Keeps(p, c) \/ Starts(c) \/ Owns(p, c) \/ Retires(p, c)
    BY <1>3 DEF ProcChange
  <2>2. /\ \A q \in Procs \ {p} : proc'[q] = proc[q]
        /\ \/ proc'[p].kind = c.kind /\ proc'[p].root = c.root
           \/ proc'[p].root = 0
    BY <2>1, MovedProc
  <2>3. c.kind \in Deleting /\ c.root # 0 /\ c.root = root'.id => root'.retired
    <3>1. CASE Keeps(p, c)
      BY <1>1, <3>1 DEF Keeps
    <3>2. CASE Starts(c) \/ Owns(p, c)
      BY <3>2 DEF Starts, Owns
    <3>3. CASE Retires(p, c)
      BY <3>3 DEF Retires, Roots
    <3> QED  BY <2>1, <3>1, <3>2, <3>3
  <2> QED  BY <1>1, <2>2, <2>3 DEF RetiredInv
<1> QED  BY <1>2, <1>3

-----------------------------------------------------------------------------
(* What a step does to the accounts                                        *)

LEMMA NewDocTyped ==
    ASSUME NEW r \in Seq(Labels), IsInjective(r)
    PROVE  NewDoc(r) \in Seq(Accounts) /\ Distinct(NewDoc(r))
<1>1. Len(r) \in Nat /\ DOMAIN r = 1..Len(r) /\ \A i \in 1..Len(r) : r[i] \in Labels
  BY LenProperties
<1>2. NewDoc(r) = [i \in 1..Len(r) |-> [label |-> r[i], role |-> "user", auth |-> "MISSING"]]
  BY <1>1 DEF NewDoc, Account
<1>3. NewDoc(r) \in [1..Len(r) -> Accounts]
  BY <1>1, <1>2 DEF Accounts
<1>4. NewDoc(r) \in Seq(Accounts)
  BY <1>1, <1>3, SeqDef
<1> QED  BY <1>1, <1>2, <1>4 DEF Distinct, IsInjective

LEMMA BindingTyped ==
    ASSUME NEW seen \in Seq(Accounts), NEW a \in Accounts,
           \E j \in DOMAIN seen : seen[j].label = a.label
    PROVE  LET s == CHOOSE s \in Range(seen) : s.label = a.label
           IN  s \in Range(seen) /\ s \in Accounts /\ s.label = a.label
<1>1. PICK j \in DOMAIN seen : seen[j].label = a.label
  OBVIOUS
<1>2. Range(seen) \subseteq Accounts
  BY LenProperties DEF Range
<1>3. seen[j] \in Range(seen)
  BY DEF Range
<1> QED  BY <1>1, <1>2, <1>3

\* The i-th account of an update: its label is entered, its binding found by
\* the label.
LEMMA UpdatedAccount ==
    ASSUME NEW r \in Seq(Labels), NEW seen \in Seq(Accounts), NEW i \in DOMAIN r
    PROVE  LET u == Updated(r, seen)[i]
               s == CHOOSE s \in Range(seen) : s.label = r[i]
           IN  /\ u \in Accounts /\ u.label = r[i]
               /\ (\E j \in DOMAIN seen : seen[j].label = r[i])
                     => s \in Range(seen) /\ s.label = r[i] /\ u.auth = s.auth
<1> DEFINE drawn == Collected(r, seen)
           s == CHOOSE s \in Range(seen) : s.label = r[i]
           known_ == \E j \in DOMAIN seen : seen[j].label = r[i]
<1>1. r[i] \in Labels
  BY LenProperties
<1>2. \A j \in DOMAIN seen : seen[j].role = "user"
  <2>1. \A j \in DOMAIN seen : seen[j] \in Accounts
    BY LenProperties
  <2> QED  BY <2>1 DEF Accounts
<1>3. DOMAIN drawn = DOMAIN r /\ drawn[i] = [label |-> r[i], role |-> "user", auth |-> "MISSING"]
  BY <1>2 DEF Collected, Account
<1>4. drawn[i] \in Accounts
  BY <1>1, <1>3 DEF Accounts
<1>5. Updated(r, seen)[i] = IF known_ THEN [drawn[i] EXCEPT !.auth = s.auth] ELSE drawn[i]
  <2>1. Updated(r, seen) = Bound(drawn, seen)
    BY DEF Updated
  <2>2. drawn[i].label = r[i]
    BY <1>3
  <2> HIDE DEF drawn
  <2>3. Bound(drawn, seen)[i] =
           IF \E j \in DOMAIN seen : seen[j].label = drawn[i].label
           THEN [drawn[i] EXCEPT !.auth =
                   (CHOOSE t \in Range(seen) : t.label = drawn[i].label).auth]
           ELSE drawn[i]
    BY <1>3 DEF Bound
  <2> QED  BY <2>1, <2>2, <2>3
<1>6. known_ => s \in Range(seen) /\ s \in Accounts /\ s.label = r[i]
  <2>1. drawn[i].label = r[i]
    BY <1>3
  <2> QED  BY <1>4, <2>1, BindingTyped
<1> HIDE DEF s, drawn
<1>7. CASE known_
  <2>1. s.auth \in {"MISSING", "READY"}
    BY <1>6, <1>7 DEF Accounts
  <2>2. Updated(r, seen)[i] = [label |-> r[i], role |-> "user", auth |-> s.auth]
    BY <1>3, <1>5, <1>7
  <2> QED  BY <1>1, <1>6, <1>7, <2>1, <2>2 DEF Accounts, s
<1>8. CASE ~known_
  BY <1>3, <1>4, <1>5, <1>8
<1> QED  BY <1>7, <1>8

LEMMA UpdatedTyped ==
    ASSUME NEW r \in Seq(Labels), IsInjective(r), NEW seen \in Seq(Accounts)
    PROVE  Updated(r, seen) \in Seq(Accounts) /\ Distinct(Updated(r, seen))
<1>1. Len(r) \in Nat /\ DOMAIN r = 1..Len(r)
  BY LenProperties
<1>2. Updated(r, seen) = [i \in DOMAIN r |-> Updated(r, seen)[i]]
  BY DEF Updated, Bound, Collected
<1>3. \A i \in DOMAIN r : Updated(r, seen)[i] \in Accounts /\ Updated(r, seen)[i].label = r[i]
  BY UpdatedAccount
<1> DEFINE u == Updated(r, seen)
<1> HIDE DEF u
<1>4. u \in [1..Len(r) -> Accounts] /\ \A i \in 1..Len(r) : u[i].label = r[i]
  BY <1>1, <1>2, <1>3 DEF u
<1>5. u \in Seq(Accounts)
  BY <1>1, <1>4, SeqDef
<1> QED  BY <1>1, <1>4, <1>5 DEF Distinct, IsInjective, u

LEMMA AuthorisedTyped ==
    ASSUME NEW seen \in Seq(Accounts), Distinct(seen), NEW l
    PROVE  LET d == [i \in DOMAIN seen |->
                       IF seen[i].label = l THEN [seen[i] EXCEPT !.auth = "READY"]
                       ELSE seen[i]]
           IN  d \in Seq(Accounts) /\ Distinct(d)
<1> DEFINE d == [i \in DOMAIN seen |->
                   IF seen[i].label = l THEN [seen[i] EXCEPT !.auth = "READY"] ELSE seen[i]]
<1>1. Len(seen) \in Nat /\ DOMAIN seen = 1..Len(seen)
      /\ \A i \in 1..Len(seen) : seen[i] \in Accounts
  BY LenProperties
<1>2. \A i \in DOMAIN seen : d[i] \in Accounts /\ d[i].label = seen[i].label
  BY <1>1 DEF Accounts
<1>3. d = [i \in DOMAIN seen |-> d[i]]
  OBVIOUS
<1> HIDE DEF d
<1>4. d \in [1..Len(seen) -> Accounts]
  BY <1>1, <1>2, <1>3
<1>5. d \in Seq(Accounts)
  BY <1>1, <1>4, SeqDef
<1>6. Distinct(d)
  BY <1>1, <1>2, <1>4 DEF Distinct
<1> QED  BY <1>5, <1>6 DEF d

LEMMA DocKept ==
    ASSUME Typed, LabelsInv, [Next]_vars
    PROVE  DocTyped' /\ Distinct(doc)'
<1> DEFINE Good == doc' \in Seq(Accounts) /\ Distinct(doc')
<1> SUFFICES Good
  BY DEF DocTyped, Distinct
<1>0. <<>> \in Seq(Accounts) /\ Distinct(<<>>)
  BY DEF Distinct
<1>1. CASE doc' = doc \/ doc' = <<>>
  BY <1>0, <1>1 DEF Typed, DocTyped, LabelsInv
<1>2. ASSUME NEW p \in Procs, Start(p) \/ Interrupt(p) \/ Stop(p)
      PROVE  Good
  BY <1>1, <1>2 DEF Start, SetupBegin, InitBegin, UpdateBegin, JobBegin, AuthBegin,
                    UploadBegin, DeleteBegin, Interrupt, Stop, project
<1>3. ASSUME NEW p \in Procs, Continue(p)
      PROVE  Good
  <2>0. /\ proc[p].roster \in Seq(Labels) /\ IsInjective(proc[p].roster)
        /\ proc[p].seen \in Seq(Accounts) /\ Distinct(proc[p].seen)
    BY DEF Typed, ProcTyped, Processes, LabelsInv
  <2>1. CASE SetupPublish(p)
    <3>1. doc' = NewDoc(proc[p].roster) \/ doc' = doc
      BY <2>1 DEF SetupPublish
    <3> QED  BY <1>1, <2>0, <3>1, NewDocTyped
  <2>2. CASE UpdateWrite(p)
    <3>1. doc' = Updated(proc[p].roster, proc[p].seen) \/ doc' = doc
      BY <2>2 DEF UpdateWrite
    <3> QED  BY <1>1, <2>0, <3>1, UpdatedTyped
  <2>3. CASE AuthWrite(p)
    <3> DEFINE d == [i \in DOMAIN proc[p].seen |->
                       IF proc[p].seen[i].label = proc[p].roster[1]
                       THEN [proc[p].seen[i] EXCEPT !.auth = "READY"] ELSE proc[p].seen[i]]
    <3>1. doc' = d
      BY <2>3 DEF AuthWrite
    <3>2. d \in Seq(Accounts) /\ Distinct(d)
      BY <2>0, AuthorisedTyped
    <3> HIDE DEF d
    <3> QED  BY <3>1, <3>2
  <2>4. CASE Rollback(p) \/ InitStep(p) \/ RemoveEntry(p)
    <3>1. doc' = doc \/ doc' = <<>>
      BY <2>4 DEF Rollback, InitStep, InitWrite, RemoveEntry
    <3> QED  BY <1>1, <3>1
  <2>5. CASE doc' = doc
    BY <1>1, <2>5
  <2> QED
    BY <1>3, <2>1, <2>2, <2>3, <2>4, <2>5
       DEF Continue, SetupCaptures, SetupConfirm, SetupFails, UpdateCaptures, JobWrite,
           UploadLayout, UploadStore, Answer, RemoveSecrets, RemoveCaptures, RemoveRoot,
           RemoveDirectory, DeleteFinish, project
<1>4. CASE doc' = doc
  BY <1>1, <1>4
<1> QED  BY <1>2, <1>3, <1>4 DEF Next, ReadBegin, ReadStamp, ReadStore, vars, project

-----------------------------------------------------------------------------
(* What a step does to the capture directory and the credential store      *)

LEMMA LaidMarkers ==
    ASSUME Typed, NEW markers \in SUBSET {"incoming", "workflow", "har"}
    PROVE  Laid(markers) \in Layouts
<1> DEFINE id == IF captures.there THEN captures.id ELSE made + 1
<1>1. id \in Nat
  BY DEF Typed, LaidTyped, Layouts, ClockTyped
<1>2. Laid(markers) = [captures EXCEPT !.there = TRUE, !.has = captures.has \cup markers,
                                       !.id = id]
  BY DEF Laid, Typed, LaidTyped, Layouts
<1> HIDE DEF id
<1> QED  BY <1>1, <1>2 DEF Typed, LaidTyped, Layouts

LEMMA LaidKept ==
    ASSUME Typed, [Next]_vars
    PROVE  LaidTyped'
<1> USE DEF Typed, LaidTyped
<1>1. CASE UNCHANGED <<captures, secrets>>
  BY <1>1
<1>2. ASSUME NEW p \in Procs, Start(p)
      PROVE  LaidTyped'
  <2>1. CASE UploadBegin(p)
    <3>1. Laid({"incoming"}) \in Layouts
      BY LaidMarkers
    <3> QED  BY <2>1, <3>1 DEF UploadBegin, Lay
  <2>2. CASE \E l \in Labels : AuthBegin(p, l)
    BY <2>2 DEF AuthBegin
  <2> QED  BY <1>1, <1>2, <2>1, <2>2 DEF Start, SetupBegin, InitBegin, UpdateBegin, JobBegin,
                                         DeleteBegin, project
<1>3. ASSUME NEW p \in Procs, Continue(p)
      PROVE  LaidTyped'
  <2>1. CASE SetupCaptures(p)
    <3>1. Laid(Markers) \in Layouts
      BY LaidMarkers DEF Markers
    <3>2. [there |-> TRUE, id |-> made + 1, has |-> Markers] \in Layouts
      BY DEF Layouts, Markers, ClockTyped
    <3>3. \/ captures' = captures \/ captures' = Laid(Markers)
          \/ captures' = [there |-> TRUE, id |-> made + 1, has |-> Markers]
      BY <2>1 DEF SetupCaptures, Lay
    <3> QED  BY <2>1, <3>1, <3>2, <3>3 DEF SetupCaptures
  <2>2. CASE UpdateCaptures(p) \/ UploadLayout(p) \/ UploadStore(p)
    <3>1. /\ Laid(Markers) \in Layouts /\ Laid({"workflow"}) \in Layouts
          /\ Laid({"har"}) \in Layouts
      BY LaidMarkers DEF Markers
    <3> QED  BY <2>2, <3>1 DEF UpdateCaptures, UploadLayout, UploadStore, Lay
  <2>3. NoCaptures \in Layouts
    BY DEF NoCaptures, Layouts
  <2>4. CASE Rollback(p)
    BY <2>3, <2>4 DEF Rollback
  <2>5. CASE RemoveSecrets(p)
    BY <2>5 DEF RemoveSecrets
  <2>6. CASE RemoveCaptures(p)
    <3>1. \/ captures' = captures \/ captures' = NoCaptures
          \/ \E m \in captures.has : captures' = [captures EXCEPT !.has = captures.has \ {m}]
      BY <2>6 DEF RemoveCaptures, Layouts
    <3>2. captures' \in Layouts
      BY <2>3, <3>1 DEF Layouts
    <3> QED  BY <2>6, <3>2 DEF RemoveCaptures
  <2> QED
    BY <1>1, <1>3, <2>1, <2>2, <2>4, <2>5, <2>6
       DEF Continue, SetupPublish, SetupConfirm, SetupFails, InitStep, InitWrite, UpdateWrite,
           JobWrite, AuthWrite, Answer, RemoveRoot, RemoveEntry, RemoveDirectory, DeleteFinish,
           project
<1> QED
  BY <1>1, <1>2, <1>3 DEF Next, Interrupt, Stop, ReadBegin, ReadStamp, ReadStore, vars, project

-----------------------------------------------------------------------------
(* What a step does to the console's readings                              *)

LEMMA ThreeStores ==
    /\ DOMAIN Snapshot = 1..3 /\ Len(Snapshot) = 3 /\ Snapshot[1] = "target"
    /\ \A i \in 1..3 : Snapshot[i] \in FileNames
BY DEF Snapshot, FileNames

LEMMA StampTyped ==
    ASSUME Typed, NumbersInv, NEW f
    PROVE  StampIn(root, f) \in 0..clock /\ Stamp(f) = StampIn(root, f)
BY DEF StampIn, Stamp, NumbersInv, Typed, ClockTyped

\* While the target stays as it is and nobody deletes, stamps only grow.
LEMMA StampsGrow ==
    ASSUME Typed, NumbersInv, RetiredInv, RootChange,
           ~root'.retired, StampIn(root', "target") \in 1..clock
    PROVE  /\ ~root.retired /\ StampIn(root, "target") = StampIn(root', "target")
           /\ \A f \in FileNames : StampIn(root, f) <= StampIn(root', f)
<1>0. clock \in Nat /\ \A f \in FileNames : StampIn(root, f) \in 0..clock
  BY StampTyped DEF Typed, ClockTyped
<1>1. CASE Still
  BY <1>0, <1>1 DEF Still
<1>2. CASE Erected
  <2>1. root'.file = [f \in Scaffold |-> clock + 1]
    BY <1>2 DEF Erected
  <2>2. StampIn(root', "target") = clock + 1
    BY <2>1 DEF StampIn, Scaffold
  <2> QED  BY <1>0, <2>2
<1>3. CASE Begun \/ Dropped
  <2>1. root'.file = Gone.file
    BY <1>3 DEF Begun, Dropped, Gone
  <2>2. StampIn(root', "target") = 0
    BY <2>1, GoneTyped DEF StampIn
  <2> QED  BY <2>2
<1>4. CASE Wrote
  <2>1. PICK f \in FileNames : root' = Written(f)
    BY <1>4 DEF Wrote, Write
  <2>2. /\ root'.retired = root.retired
        /\ DOMAIN root'.file = {f} \cup DOMAIN root.file
        /\ root'.file[f] = clock + 1
        /\ \A g \in DOMAIN root.file \ {f} : root'.file[g] = root.file[g]
    BY <2>1, WrittenFile DEF Typed
  <2>3. StampIn(root', f) = clock + 1
    BY <2>2 DEF StampIn
  <2>4. f # "target"
    BY <1>0, <2>3
  <2>5. \A g \in FileNames \ {f} : StampIn(root', g) = StampIn(root, g)
    BY <2>2 DEF StampIn
  <2>6. "target" \in FileNames \ {f}
    BY <2>4 DEF FileNames
  <2> QED  BY <1>0, <2>2, <2>3, <2>5, <2>6
<1>5. CASE Retiring
  BY <1>5 DEF Retiring, Typed, RootTyped, Roots
<1>6. CASE Removing
  <2>1. root.retired /\ root'.retired = root.retired
    BY <1>6, RemovingRetired DEF Removing, Typed, RootTyped, Roots
  <2> QED  BY <2>1
<1> QED  BY <1>1, <1>2, <1>3, <1>4, <1>5, <1>6 DEF RootChange

\* What is in order, as long as the reading holds.
LEMMA OrderedSays ==
    ASSUME NEW sig, NEW snap, NEW r, NEW c, Ordered(sig, snap, r, c), Held(sig, r)
    PROVE  /\ \A i \in DOMAIN sig : sig[i] <= StampIn(r, Snapshot[i])
           /\ \A i \in DOMAIN snap : sig[i] <= snap[i] /\ snap[i] <= StampIn(r, Snapshot[i])
  BY DEF Ordered

LEMMA FirstThree ==
    ASSUME NEW n \in Nat, n <= 3
    PROVE  \A i \in 1..n : i \in 1..3
  OBVIOUS

LEMMA Rises ==
    ASSUME NEW D, NEW s, NEW t, NEW u,
           \A i \in D : s[i] \in Nat /\ t[i] \in Nat /\ u[i] \in Nat
                       /\ s[i] <= t[i] /\ t[i] <= u[i]
    PROVE  \A i \in D : s[i] <= u[i]
  OBVIOUS

LEMMA OrderedKept ==
    ASSUME Typed, NumbersInv, RetiredInv, RootChange, clock' \in Nat, clock <= clock',
           RootTyped', NEW sig \in Seq(Nat), NEW snap \in Seq(Nat),
           Ordered(sig, snap, root, clock)
    PROVE  Ordered(sig, snap, root', clock')
<1>0. /\ clock \in Nat /\ Len(sig) <= 3 /\ Len(snap) <= Len(sig)
      /\ DOMAIN sig = 1..Len(sig) /\ DOMAIN snap = 1..Len(snap)
      /\ Len(sig) \in Nat /\ Len(snap) \in Nat
      /\ \A i \in 1..Len(sig) : sig[i] \in Nat /\ sig[i] <= clock
      /\ \A i \in 1..Len(snap) : snap[i] \in Nat
  BY LenProperties, ElementOfSeq DEF Ordered, Typed, ClockTyped
<1>1. \A i \in DOMAIN sig : sig[i] <= clock'
  BY <1>0
<1>2. ASSUME Held(sig, root')
      PROVE  /\ \A i \in DOMAIN sig : sig[i] <= StampIn(root', Snapshot[i])
             /\ \A i \in DOMAIN snap : sig[i] <= snap[i]
                                       /\ snap[i] <= StampIn(root', Snapshot[i])
  <2>1. ~root'.retired /\ StampIn(root', "target") = sig[1] /\ sig[1] \in 1..clock
    BY <1>0, <1>2 DEF Held
  <2>2. /\ ~root.retired /\ StampIn(root, "target") = sig[1]
        /\ \A f \in FileNames : StampIn(root, f) <= StampIn(root', f)
    BY <2>1, StampsGrow
  <2>3. Held(sig, root)
    BY <1>2, <2>2 DEF Held
  <2>4. \A f \in FileNames : StampIn(root, f) \in Nat /\ StampIn(root', f) \in Nat
    <3>1. \A f \in FileNames : StampIn(root, f) \in Nat
      BY <1>0, StampTyped
    <3>2. \A f \in FileNames : StampIn(root', f) \in Nat
      <4>1. \A f \in DOMAIN root'.file : root'.file[f] \in Nat
        <5>1. root'.file \in FileTables
          BY DEF RootTyped, Roots
        <5> QED  BY <5>1 DEF FileTables
      <4> QED  BY <4>1 DEF StampIn
    <3> QED  BY <3>1, <3>2
  <2> DEFINE before == [i \in 1..3 |-> StampIn(root, Snapshot[i])]
             after == [i \in 1..3 |-> StampIn(root', Snapshot[i])]
  <2>5. \A i \in 1..3 : before[i] \in Nat /\ after[i] \in Nat /\ before[i] <= after[i]
    BY <2>2, <2>4, ThreeStores
  <2>6. /\ \A i \in DOMAIN sig : sig[i] <= StampIn(root, Snapshot[i])
        /\ \A i \in DOMAIN snap : sig[i] <= snap[i] /\ snap[i] <= StampIn(root, Snapshot[i])
    BY <2>3, OrderedSays
  <2>7. (\A i \in DOMAIN sig : i \in 1..3) /\ (\A i \in DOMAIN snap : i \in 1..3)
    <3>1. Len(sig) \in Nat /\ Len(sig) <= 3 /\ Len(snap) \in Nat /\ Len(snap) <= 3
      BY <1>0
    <3>2. (\A i \in 1..Len(sig) : i \in 1..3) /\ (\A i \in 1..Len(snap) : i \in 1..3)
      BY <3>1, FirstThree
    <3> QED  BY <1>0, <3>2
  <2>8. /\ \A i \in DOMAIN sig : sig[i] \in Nat /\ sig[i] <= before[i]
        /\ \A i \in DOMAIN snap : snap[i] \in Nat /\ snap[i] <= before[i]
    BY <1>0, <2>6, <2>7
  <2>9. /\ \A i \in DOMAIN sig : after[i] = StampIn(root', Snapshot[i])
        /\ \A i \in DOMAIN snap : after[i] = StampIn(root', Snapshot[i])
    BY <2>7
  <2> HIDE DEF before, after
  <2>10. \A i \in DOMAIN sig : sig[i] <= after[i]
    <3>1. \A i \in DOMAIN sig : sig[i] \in Nat /\ before[i] \in Nat /\ after[i] \in Nat
                                /\ sig[i] <= before[i] /\ before[i] <= after[i]
      BY <2>5, <2>7, <2>8
    <3> QED  BY <3>1, Rises
  <2>11. \A i \in DOMAIN snap : snap[i] <= after[i]
    <3>1. \A i \in DOMAIN snap : snap[i] \in Nat /\ before[i] \in Nat /\ after[i] \in Nat
                                 /\ snap[i] <= before[i] /\ before[i] <= after[i]
      BY <2>5, <2>7, <2>8
    <3> QED  BY <3>1, Rises
  <2> QED  BY <2>6, <2>9, <2>10, <2>11
<1> QED  BY <1>0, <1>1, <1>2 DEF Ordered

\* A stamp more, and then a store more, is in order.
LEMMA OrderedStamp ==
    ASSUME Typed, NumbersInv, NEW sig \in Seq(Nat), Len(sig) < 3,
           Ordered(sig, <<>>, root, clock)
    PROVE  LET more == Append(sig, Stamp(Snapshot[Len(sig) + 1]))
           IN  more \in Seq(Nat) /\ Ordered(more, <<>>, root, clock)
<1> DEFINE n == Len(sig) + 1
           x == Stamp(Snapshot[n])
           more == Append(sig, x)
<1>1. n \in 1..3 /\ n = Len(sig) + 1
  BY LenProperties
<1>2. x \in 0..clock /\ x = StampIn(root, Snapshot[n])
  BY StampTyped
<1>3. clock \in Nat /\ x \in Nat
  BY <1>2 DEF Typed, ClockTyped
<1> HIDE DEF n, x
<1>4. /\ more \in Seq(Nat) /\ Len(more) = n /\ more[n] = x /\ DOMAIN more = 1..n
      /\ \A i \in 1..(n - 1) : more[i] = sig[i]
      /\ DOMAIN sig = 1..(n - 1)
  BY <1>1, <1>3, LenProperties, AppendProperties
<1>5. \A i \in 1..n : more[i] <= clock
  <2> SUFFICES ASSUME NEW i \in 1..n PROVE more[i] <= clock
    OBVIOUS
  <2>1. CASE i = n
    BY <1>2, <1>3, <1>4, <2>1
  <2>2. CASE i # n
    <3>1. i \in 1..(n - 1)
      BY <1>1, <2>2
    <3> QED  BY <1>4, <3>1 DEF Ordered
  <2> QED  BY <2>1, <2>2
<1>6. ASSUME Held(more, root), NEW i \in 1..n
      PROVE  more[i] <= StampIn(root, Snapshot[i])
  <2>1. CASE i = n
    BY <1>2, <1>3, <1>4, <2>1
  <2>2. CASE i # n
    <3>1. i \in 1..(n - 1) /\ 1 \in 1..(n - 1) /\ Len(sig) > 0
      BY <1>1, <2>2
    <3>2. Held(sig, root)
      BY <1>4, <1>6, <3>1 DEF Held
    <3> QED  BY <1>4, <3>1, <3>2 DEF Ordered
  <2> QED  BY <2>1, <2>2
<1>7. Len(<<>>) = 0 /\ DOMAIN <<>> = {}
  OBVIOUS
<1>8. Ordered(more, <<>>, root, clock)
  BY <1>1, <1>4, <1>5, <1>6, <1>7 DEF Ordered
<1> QED  BY <1>4, <1>8 DEF n, x

LEMMA OrderedStore ==
    ASSUME Typed, NumbersInv, NEW sig \in Seq(Nat), NEW snap \in Seq(Nat),
           Len(sig) = 3, Len(snap) < 3, Ordered(sig, snap, root, clock)
    PROVE  LET more == Append(snap, Stamp(Snapshot[Len(snap) + 1]))
           IN  /\ more \in Seq(Nat) /\ Len(more) = Len(snap) + 1
               /\ Ordered(sig, more, root, clock)
<1> DEFINE n == Len(snap) + 1
           x == Stamp(Snapshot[n])
           more == Append(snap, x)
<1>1. n \in 1..3 /\ n = Len(snap) + 1
  BY LenProperties
<1>2. x \in 0..clock /\ x = StampIn(root, Snapshot[n])
  BY StampTyped
<1>3. clock \in Nat /\ x \in Nat
  BY <1>2 DEF Typed, ClockTyped
<1> HIDE DEF n, x
<1>4. /\ more \in Seq(Nat) /\ Len(more) = n /\ more[n] = x /\ DOMAIN more = 1..n
      /\ \A i \in 1..(n - 1) : more[i] = snap[i]
      /\ DOMAIN snap = 1..(n - 1) /\ DOMAIN sig = 1..3
  BY <1>1, <1>3, LenProperties, AppendProperties
<1>5. ASSUME Held(sig, root), NEW i \in 1..n
      PROVE  sig[i] <= more[i] /\ more[i] <= StampIn(root, Snapshot[i])
  <2>1. CASE i = n
    <3>1. sig[n] <= StampIn(root, Snapshot[n])
      BY <1>1, <1>4, <1>5 DEF Ordered
    <3> QED  BY <1>2, <1>3, <1>4, <2>1, <3>1
  <2>2. CASE i # n
    <3>1. i \in 1..(n - 1)
      BY <1>1, <2>2
    <3> QED  BY <1>4, <1>5, <3>1 DEF Ordered
  <2> QED  BY <2>1, <2>2
<1>6. Ordered(sig, more, root, clock)
  BY <1>1, <1>4, <1>5 DEF Ordered
<1> QED  BY <1>1, <1>4, <1>6 DEF n, x

LEMMA OrderedEmpty == Ordered(<<>>, <<>>, root, clock)
<1>1. Len(<<>>) = 0 /\ DOMAIN <<>> = {}
  OBVIOUS
<1> QED  BY <1>1 DEF Ordered, Held

\* The reading and its cache, the files as they are now.
Readable == WebTyped /\ ReadingInv

LEMMA ReadingSteps ==
    ASSUME Typed, NumbersInv, ReadingInv, ReadBegin \/ ReadStamp \/ ReadStore
    PROVE  Readable'
<1> USE DEF Typed, WebTyped
<1>0. /\ root' = root /\ clock' = clock /\ known' = known
      /\ web \in Readers /\ <<>> \in Seq(Nat)
  BY DEF ReadBegin, ReadStamp, ReadStore, project
<1>1. CASE ReadBegin
  <2>1. web.pc = "idle" /\ web' = [web EXCEPT !.pc = "stat"]
    BY <1>1 DEF ReadBegin
  <2>2. /\ web' \in Readers /\ web'.pc = "stat" /\ web'.sig = web.sig /\ web'.snap = web.snap
        /\ web'.cache = web.cache
    BY <1>0, <2>1 DEF Readers
  <2>3. web'.sig = <<>> /\ web'.snap = <<>> /\ Len(<<>>) < 3
    BY <2>1, <2>2 DEF ReadingInv
  <2> QED  BY <1>0, <2>2, <2>3, OrderedEmpty DEF Readable, ReadingInv
<1>2. CASE ReadStamp
  <2> DEFINE sig == Append(web.sig, Stamp(Snapshot[Len(web.sig) + 1]))
  <2>1. /\ web.pc = "stat" /\ web.sig \in Seq(Nat) /\ Len(web.sig) < 3 /\ web.snap = <<>>
        /\ Ordered(web.sig, <<>>, root, clock)
    BY <1>0, <1>2 DEF ReadStamp, ReadingInv, Readers
  <2>2. sig \in Seq(Nat) /\ Ordered(sig, <<>>, root, clock)
    BY <2>1, OrderedStamp
  <2>3. \/ Len(sig) < 3 /\ web' = [web EXCEPT !.sig = sig]
        \/ web' = [web EXCEPT !.pc = "idle", !.sig = <<>>]
        \/ Len(sig) = 3 /\ web' = [web EXCEPT !.pc = "load", !.sig = sig]
    <3>1. Len(sig) \in Nat /\ Len(sig) <= 3
      BY <2>2, LenProperties DEF Ordered
    <3>2. Len(sig) < 3 \/ Len(sig) = 3
      BY <3>1
    <3>3. \/ Len(sig) < 3 /\ web' = [web EXCEPT !.sig = sig]
          \/ web' = [web EXCEPT !.pc = "idle", !.sig = <<>>]
          \/ ~(Len(sig) < 3) /\ web' = [web EXCEPT !.pc = "load", !.sig = sig]
      BY <1>2, ThreeStores DEF ReadStamp
    <3> QED  BY <3>2, <3>3
  <2> HIDE DEF sig
  <2>4. CASE Len(sig) < 3 /\ web' = [web EXCEPT !.sig = sig]
    <3>1. /\ web' \in Readers /\ web'.pc = "stat" /\ web'.sig = sig /\ web'.snap = <<>>
          /\ web'.cache = web.cache
      BY <1>0, <2>1, <2>2, <2>4 DEF Readers
    <3> QED  BY <1>0, <2>2, <2>4, <3>1 DEF Readable, ReadingInv
  <2>5. CASE web' = [web EXCEPT !.pc = "idle", !.sig = <<>>]
    <3>1. /\ web' \in Readers /\ web'.pc = "idle" /\ web'.sig = <<>> /\ web'.snap = <<>>
          /\ web'.cache = web.cache
      BY <1>0, <2>1, <2>5 DEF Readers
    <3> QED  BY <1>0, <3>1, OrderedEmpty DEF Readable, ReadingInv
  <2>6. CASE Len(sig) = 3 /\ web' = [web EXCEPT !.pc = "load", !.sig = sig]
    <3>1. /\ web' \in Readers /\ web'.pc = "load" /\ web'.sig = sig /\ web'.snap = <<>>
          /\ web'.cache = web.cache
      BY <1>0, <2>1, <2>2, <2>6 DEF Readers
    <3>2. Len(sig) = 3 /\ Len(<<>>) < 3
      BY <2>6
    <3> QED  BY <1>0, <2>2, <3>1, <3>2 DEF Readable, ReadingInv
  <2> QED  BY <2>3, <2>4, <2>5, <2>6
<1>3. CASE ReadStore
  <2> DEFINE snap == Append(web.snap, Stamp(Snapshot[Len(web.snap) + 1]))
             rest == [web EXCEPT !.pc = "idle", !.sig = <<>>, !.snap = <<>>]
  <2>1. /\ web.pc = "load" /\ web.sig \in Seq(Nat) /\ web.snap \in Seq(Nat)
        /\ Len(web.sig) = 3 /\ Len(web.snap) < 3
        /\ Ordered(web.sig, web.snap, root, clock)
    BY <1>0, <1>3 DEF ReadStore, ReadingInv, Readers
  <2>2. /\ snap \in Seq(Nat) /\ Len(snap) = Len(web.snap) + 1
        /\ Ordered(web.sig, snap, root, clock)
    BY <2>1, OrderedStore
  <2>3. \/ web' = rest
        \/ Len(snap) < 3 /\ web' = [web EXCEPT !.snap = snap]
        \/ Len(snap) >= 3 /\ web' = [rest EXCEPT !.cache = [sig |-> web.sig, snap |-> snap]]
    <3>1. Len(snap) \in Nat
      BY <2>2, LenProperties
    <3> QED  BY <1>3, <3>1, ThreeStores DEF ReadStore, Entry
  <2>4. /\ rest \in Readers /\ rest.pc = "idle" /\ rest.sig = <<>> /\ rest.snap = <<>>
        /\ rest.cache = web.cache
    BY <1>0 DEF Readers
  <2>5. Len(snap) \in Nat /\ Len(web.snap) \in Nat
    BY <2>1, <2>2, LenProperties
  <2> HIDE DEF snap, rest
  <2>6. CASE web' = rest
    BY <1>0, <2>4, <2>6, OrderedEmpty DEF Readable, ReadingInv
  <2>7. CASE Len(snap) < 3 /\ web' = [web EXCEPT !.snap = snap]
    <3>1. /\ web' \in Readers /\ web'.pc = "load" /\ web'.sig = web.sig /\ web'.snap = snap
          /\ web'.cache = web.cache
      BY <1>0, <2>1, <2>2, <2>7 DEF Readers
    <3> QED  BY <1>0, <2>1, <2>2, <2>7, <3>1 DEF Readable, ReadingInv
  <2>8. CASE Len(snap) >= 3 /\ web' = [rest EXCEPT !.cache = [sig |-> web.sig, snap |-> snap]]
    <3> DEFINE entry == [sig |-> web.sig, snap |-> snap]
    <3>0. entry \in Caches /\ entry.sig = web.sig /\ entry.snap = snap
      BY <2>1, <2>2 DEF Caches
    <3> HIDE DEF entry
    <3>1. /\ web' \in Readers /\ web'.pc = "idle" /\ web'.sig = <<>> /\ web'.snap = <<>>
          /\ web'.cache = entry
      BY <2>4, <2>8, <3>0 DEF Readers, entry
    <3>2. Len(snap) = 3
      BY <2>1, <2>2, <2>5, <2>8
    <3> QED  BY <1>0, <2>2, <3>0, <3>1, <3>2, OrderedEmpty DEF Readable, ReadingInv
  <2> QED  BY <2>3, <2>6, <2>7, <2>8
<1> QED  BY <1>1, <1>2, <1>3

\* Every other command leaves the reading alone, or drops the cache.
LEMMA WebStep ==
    ASSUME Typed, NEW p \in Procs, Start(p) \/ Continue(p) \/ Interrupt(p) \/ Stop(p)
    PROVE  /\ web' = web \/ web' = [web EXCEPT !.cache = None]
           /\ known' \in BOOLEAN
<1> DEFINE Goal == /\ web' = web \/ web' = [web EXCEPT !.cache = None]
                   /\ known' \in BOOLEAN
<1> SUFFICES Goal
  OBVIOUS
<1>0. known \in BOOLEAN
  BY DEF Typed, WebTyped
<1>1. CASE UNCHANGED <<web, known>>
  BY <1>0, <1>1
<1>2. CASE SetupConfirm(p)
  BY <1>0, <1>2 DEF SetupConfirm, Resolves, Typed, RootTyped, Roots
<1>3. CASE DeleteFinish(p)
  BY <1>0, <1>3 DEF DeleteFinish
<1>4. CASE Start(p)
  BY <1>1, <1>4 DEF Start, SetupBegin, InitBegin, UpdateBegin, JobBegin, AuthBegin, UploadBegin,
                    DeleteBegin
<1>5. CASE Continue(p)
  BY <1>1, <1>2, <1>3, <1>5
     DEF Continue, SetupPublish, SetupCaptures, SetupFails, Rollback, InitStep, InitWrite,
         UpdateWrite, UpdateCaptures, JobWrite, AuthWrite, UploadLayout, UploadStore, Answer,
         RemoveSecrets, RemoveCaptures, RemoveRoot, RemoveEntry, RemoveDirectory
<1> QED  BY <1>1, <1>4, <1>5 DEF Interrupt, Stop

LEMMA ReadingAbides ==
    ASSUME Typed, NumbersInv, RetiredInv, ReadingInv, RootChange,
           RootTyped', clock' \in Nat, clock <= clock', known' \in BOOLEAN,
           web' = web \/ web' = [web EXCEPT !.cache = None]
    PROVE  Readable'
<1>0. web \in Readers
  BY DEF Typed, WebTyped
<1>1. /\ web' \in Readers /\ web'.pc = web.pc /\ web'.sig = web.sig /\ web'.snap = web.snap
      /\ web'.cache = web.cache \/ web'.cache = None
  BY <1>0 DEF Readers
<1>2. Ordered(web.sig, web.snap, root', clock')
  BY <1>0, OrderedKept DEF Readers, ReadingInv
<1>3. web.cache # None => Ordered(web.cache.sig, web.cache.snap, root', clock')
  <2> SUFFICES ASSUME web.cache # None
               PROVE  Ordered(web.cache.sig, web.cache.snap, root', clock')
    OBVIOUS
  <2>1. web.cache.sig \in Seq(Nat) /\ web.cache.snap \in Seq(Nat)
    BY <1>0 DEF Readers, Caches
  <2> QED  BY <2>1, OrderedKept DEF ReadingInv
<1> QED  BY <1>1, <1>2, <1>3 DEF Readable, WebTyped, ReadingInv

-----------------------------------------------------------------------------
(* What holds of every behaviour                                           *)

LEMMA InitLifecycle == Init => LifecycleInv
<1> SUFFICES ASSUME Init PROVE LifecycleInv
  OBVIOUS
<1>1. <<>> \in Seq(Nat) /\ <<>> \in Seq(Accounts)
  OBVIOUS
<1>2. Typed
  BY <1>1, GoneTyped, FreshTyped
     DEF Init, Typed, RootTyped, DocTyped, LaidTyped, NoCaptures, Layouts, ClockTyped,
         ProcTyped, WebTyped, Readers
<1>3. SetupIsAllOrNothing
  BY DEF Init, SetupIsAllOrNothing, Gone
<1>4. NumbersInv /\ RetiredInv
  <2>1. \A p \in Procs : proc[p].root = 0
    BY DEF Init, Fresh
  <2>2. root.id = 0 /\ ~root.there /\ made = 0 /\ DOMAIN root.file = {}
    BY GoneTyped DEF Init, Gone
  <2> QED  BY <2>1, <2>2 DEF NumbersInv, RetiredInv
<1>5. ReadingInv
  BY OrderedEmpty DEF Init, ReadingInv
<1>6. LabelsInv
  <2>1. Distinct(<<>>) /\ IsInjective(<<>>)
    BY DEF Distinct, IsInjective
  <2> QED  BY <2>1 DEF Init, LabelsInv, Fresh
<1> QED  BY <1>2, <1>3, <1>4, <1>5, <1>6 DEF LifecycleInv

LEMMA NextLifecycle == LifecycleInv /\ [Next]_vars => LifecycleInv'
<1> SUFFICES ASSUME LifecycleInv, [Next]_vars PROVE LifecycleInv'
  OBVIOUS
<1> USE DEF LifecycleInv
<1>1. RootChange /\ (UNCHANGED proc \/ ProcChange)
  BY RootStep, ProcStep
<1>2. /\ RootTyped' /\ ClockTyped' /\ SetupIsAllOrNothing'
      /\ root'.id <= made' /\ made <= made' /\ clock <= clock'
      /\ root'.there => root'.id # 0
      /\ root'.id = 0 => DOMAIN root'.file = {}
      /\ \A f \in DOMAIN root'.file : root'.file[f] \in 1..clock'
  BY <1>1, RootKept
<1>3. clock' \in Nat /\ made' \in Nat
  BY <1>2 DEF ClockTyped
<1>4. /\ ProcTyped'
      /\ \A p \in Procs : proc'[p].root <= made'
      /\ \A p \in Procs : IsInjective(proc'[p].roster) /\ Distinct(proc'[p].seen)
  BY <1>1, <1>2, <1>3, ProcKept
<1>5. RetiredInv'
  BY <1>1, RetiredKept
<1>6. DocTyped' /\ Distinct(doc') /\ LaidTyped'
  BY DocKept, LaidKept DEF Distinct
<1>7. NumbersInv' /\ LabelsInv'
  BY <1>2, <1>4, <1>6 DEF NumbersInv, LabelsInv
<1>8. Readable'
  <2>1. CASE ReadBegin \/ ReadStamp \/ ReadStore
    BY <2>1, ReadingSteps
  <2>2. ASSUME NEW p \in Procs, Start(p) \/ Continue(p) \/ Interrupt(p) \/ Stop(p)
        PROVE  Readable'
    BY <1>1, <1>2, <1>3, <2>2, WebStep, ReadingAbides
  <2>3. CASE UNCHANGED vars
    <3>1. web' = web /\ known' \in BOOLEAN
      BY <2>3 DEF vars, Typed, WebTyped
    <3> QED  BY <1>1, <1>2, <1>3, <3>1, ReadingAbides
  <2> QED  BY <2>1, <2>2, <2>3 DEF Next
<1> QED  BY <1>2, <1>4, <1>5, <1>6, <1>7, <1>8 DEF Typed, Readable

\* The inductive invariant: types, the numbering of directories and stamps,
\* who has retired what, what the readings found, and whose label is whose.
THEOREM LifecycleInvariant == Spec => []LifecycleInv
BY InitLifecycle, NextLifecycle, PTL DEF Spec

\* A workspace that setup has moved into place (prepare_setup and its rename,
\* setup.py) is complete until a deletion starts on it, whatever fails, is
\* interrupted or killed.
THEOREM SetupIsWhole == Spec => []SetupIsAllOrNothing
BY LifecycleInvariant, PTL DEF LifecycleInv

LEMMA CurrentSnapshot == LifecycleInv => SnapshotIsCurrent
<1> SUFFICES ASSUME LifecycleInv, Resolves, ~root.retired, web.cache # None,
                    web.cache.sig = Signature
             PROVE  web.cache.snap = Signature
  BY DEF SnapshotIsCurrent
<1> USE DEF LifecycleInv
<1>1. Signature = [i \in 1..3 |-> StampIn(root, Snapshot[i])]
  BY ThreeStores, StampTyped DEF Signature
<1>2. web.cache.sig \in Seq(Nat) /\ web.cache.snap \in Seq(Nat)
  BY DEF Typed, WebTyped, Readers, Caches
<1>3. /\ Ordered(web.cache.sig, web.cache.snap, root, clock) /\ Len(web.cache.snap) = 3
      /\ DOMAIN web.cache.snap = 1..3 /\ DOMAIN web.cache.sig = 1..3 /\ Len(web.cache.sig) = 3
  <2>1. Ordered(web.cache.sig, web.cache.snap, root, clock) /\ Len(web.cache.snap) = 3
    BY DEF ReadingInv
  <2>2. /\ DOMAIN web.cache.snap = 1..3 /\ DOMAIN web.cache.sig = 1..Len(web.cache.sig)
        /\ Len(web.cache.sig) \in Nat
    BY <1>2, <2>1, LenProperties
  <2>3. Len(web.cache.sig) = 3
    BY <2>1, <2>2 DEF Ordered
  <2> QED  BY <2>1, <2>2, <2>3
<1>4. \A i \in 1..3 : web.cache.sig[i] = StampIn(root, Snapshot[i])
  BY <1>1
<1>5. StampIn(root, "target") # 0
  BY DEF Resolves, StampIn, NumbersInv, Typed, ClockTyped
<1>6. Held(web.cache.sig, root)
  BY <1>3, <1>4, <1>5, ThreeStores DEF Held
<1>7. \A i \in 1..3 : web.cache.snap[i] = StampIn(root, Snapshot[i])
  <2> SUFFICES ASSUME NEW i \in 1..3 PROVE web.cache.snap[i] = StampIn(root, Snapshot[i])
    OBVIOUS
  <2>1. /\ web.cache.sig[i] <= web.cache.snap[i]
        /\ web.cache.snap[i] <= StampIn(root, Snapshot[i])
    BY <1>3, <1>6 DEF Ordered
  <2>2. web.cache.snap[i] \in Nat /\ StampIn(root, Snapshot[i]) \in Nat
    <3>1. web.cache.snap[i] \in Nat
      BY <1>2, <1>3, ElementOfSeq
    <3> QED  BY <3>1, StampTyped DEF Typed, ClockTyped
  <2> QED  BY <1>4, <2>1, <2>2
<1> QED  BY <1>1, <1>2, <1>3, <1>7, LenProperties

\* The snapshot the console serves for the stamps the files have now
\* (WorkspaceReader, web/service.py) is their content, however the commands
\* wrote while it read, unless a deletion is under way.
THEOREM SnapshotsAreCurrent == Spec => []SnapshotIsCurrent
BY CurrentSnapshot, LifecycleInvariant, PTL

\* Who moves at a step, when it is a command, is one of them.
LEMMA Mover ==
    ASSUME Typed, Next, NEW p \in Procs, proc'[p] # proc[p]
    PROVE  Start(p) \/ Continue(p) \/ Interrupt(p) \/ Stop(p)
<1>1. PICK q \in Procs : Start(q) \/ Continue(q) \/ Interrupt(q) \/ Stop(q)
  BY DEF Next, ReadBegin, ReadStamp, ReadStore
<1>2. ASSUME p # q
      PROVE  proc'[p] = proc[p]
  <2>1. \E c, pc : Moved(q, c, pc)
    BY <1>1 DEF Start, SetupBegin, InitBegin, UpdateBegin, JobBegin, AuthBegin, UploadBegin,
          DeleteBegin, Continue, SetupPublish, SetupCaptures, SetupConfirm, SetupFails, Rollback,
          InitStep, InitWrite, UpdateWrite, UpdateCaptures, JobWrite, AuthWrite, UploadLayout,
          UploadStore, Answer, RemoveSecrets, RemoveCaptures, RemoveRoot, RemoveEntry,
          RemoveDirectory, DeleteFinish, Interrupt, Stop, To
  <2> QED  BY <1>2, <2>1 DEF Moved, Typed, ProcTyped
<1> QED  BY <1>1, <1>2

LEMMA SparingRollback ==
    ASSUME Typed, Next, NEW p \in Procs, At(p, {"setup", "mcp"}, "rollback"),
           proc'[p] # proc[p]
    PROVE  /\ (root.there /\ ~root'.there) => proc[p].root # 0
           /\ (captures.there /\ ~captures'.there) => proc[p].captures # 0
<1>1. proc[p].kind \in {"setup", "mcp"} /\ proc[p].pc = "rollback"
  BY DEF At
<1>2. Rollback(p) \/ UNCHANGED project
  BY <1>1, Mover DEF Start, Continue, Interrupt, Stop, SetupPublish, SetupCaptures,
        SetupConfirm, SetupFails, InitStep, InitWrite, UpdateWrite, UpdateCaptures,
        JobWrite, AuthWrite, UploadLayout, UploadStore, Answer, RemoveSecrets, RemoveCaptures,
        RemoveRoot, RemoveEntry, RemoveDirectory, DeleteFinish, At, Deleting, Purging
<1>3. CASE Rollback(p)
  BY <1>3 DEF Rollback, TakesRoot, TakesCaptures
<1>4. CASE UNCHANGED project
  BY <1>4 DEF project
<1> QED  BY <1>2, <1>3, <1>4

\* A setup that fails takes back only what it moved into place itself
\* (setup.py, the rollback of its exception handlers).
THEOREM RollbackIsSparing == Spec => RollbackSparesOthers
<1>1. LifecycleInv /\ [Next]_vars
        => [\A p \in Procs : At(p, {"setup", "mcp"}, "rollback") /\ proc'[p] # proc[p] =>
              /\ (root.there /\ ~root'.there) => proc[p].root # 0
              /\ (captures.there /\ ~captures'.there) => proc[p].captures # 0]_vars
  BY SparingRollback DEF LifecycleInv
<1> QED  BY <1>1, LifecycleInvariant, PTL DEF Spec, RollbackSparesOthers

LEMMA FollowedBindings ==
    ASSUME LifecycleInv, Next, NEW p \in Procs, At(p, {"update"}, "write"), doc' # doc,
           proc'[p] # proc[p], NEW i \in DOMAIN doc', NEW j \in DOMAIN proc[p].seen,
           doc'[i].label = proc[p].seen[j].label
    PROVE  doc'[i].auth = proc[p].seen[j].auth
<1> DEFINE r == proc[p].roster
           seen == proc[p].seen
<1>1. proc[p].kind = "update" /\ proc[p].pc = "write"
  BY DEF At
<1>2. UpdateWrite(p) \/ UNCHANGED project
  BY <1>1, Mover DEF LifecycleInv, Start, Continue, Interrupt, Stop, SetupPublish,
        SetupCaptures, SetupConfirm, SetupFails, Rollback, InitStep, InitWrite, UpdateCaptures,
        JobWrite, AuthWrite, UploadLayout, UploadStore, Answer, RemoveSecrets, RemoveCaptures,
        RemoveRoot, RemoveEntry, RemoveDirectory, DeleteFinish, At, Deleting, Purging
<1>3. doc' = Updated(r, seen)
  BY <1>2 DEF UpdateWrite, project
<1>4. r \in Seq(Labels) /\ seen \in Seq(Accounts) /\ Distinct(seen)
  BY DEF LifecycleInv, Typed, ProcTyped, Processes, LabelsInv
<1>5. DOMAIN doc' = DOMAIN r
  BY <1>3 DEF Updated, Bound, Collected
<1> DEFINE s == CHOOSE s \in Range(seen) : s.label = r[i]
<1>6. doc'[i].label = r[i] /\ (s \in Range(seen) /\ s.label = r[i] /\ doc'[i].auth = s.auth)
  <2> HIDE DEF r, seen
  <2>1. i \in DOMAIN r
    BY <1>5
  <2>2. Updated(r, seen)[i].label = r[i]
    BY <1>4, <2>1, UpdatedAccount
  <2>3. \E k \in DOMAIN seen : seen[k].label = r[i]
    BY <1>3, <2>2 DEF seen
  <2>4. s \in Range(seen) /\ s.label = r[i] /\ Updated(r, seen)[i].auth = s.auth
    BY <1>4, <2>1, <2>3, UpdatedAccount
  <2> QED  BY <1>3, <2>2, <2>4
<1>7. PICK k \in DOMAIN seen : s = seen[k]
  BY <1>6 DEF Range
<1>8. k = j
  BY <1>4, <1>6, <1>7 DEF Distinct
<1> QED  BY <1>6, <1>7, <1>8

\* An update (collect_setup_update, setup.py) leaves every label it keeps with
\* the credential binding it had, in whatever order the labels are entered.
THEOREM LabelsKeepBindings == Spec => BindingsFollowLabels
<1>1. LifecycleInv /\ [Next]_vars
        => [\A p \in Procs : (At(p, {"update"}, "write") /\ doc' # doc /\ proc'[p] # proc[p]) =>
              \A i \in DOMAIN doc', j \in DOMAIN proc[p].seen :
                 doc'[i].label = proc[p].seen[j].label => doc'[i].auth = proc[p].seen[j].auth]_vars
  BY FollowedBindings
<1> QED  BY <1>1, LifecycleInvariant, PTL DEF Spec, BindingsFollowLabels
=============================================================================
