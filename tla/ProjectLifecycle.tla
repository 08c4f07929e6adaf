--------------------------- MODULE ProjectLifecycle ---------------------------
(***************************************************************************)
(* The life of one project on disk: hunt setup / init, the interactive     *)
(* update, passive imports and uploads, credential capture, deletion and   *)
(* purge, from the command line, the MCP server and the web console        *)
(* (setup.py, config/workspace.py, cli.py, mcp/service.py,                 *)
(* web/operations.py), and the snapshots the console serves                *)
(* (web/service.py).  Each command is a process of its own; nothing locks  *)
(* the directories, so its steps interleave with those of the others, and  *)
(* it may be interrupted, fail or be killed between any two of them.       *)
(*                                                                         *)
(* A file is known by the time it was last written: no two writes share    *)
(* one.  The project has a workspace directory, a capture directory and a  *)
(* credential store, all outside each other.                               *)
(***************************************************************************)
EXTENDS Naturals, Sequences, FiniteSets, Functions, SequencesExt, TLC

CONSTANTS Procs,     \* commands in flight
          Kinds,     \* what they may be
          Labels,    \* account labels
          Rosters,   \* the label lists a researcher enters
          MaxWrites  \* bound on the clock

ASSUME LifecycleAssumption ==
    /\ Kinds \subseteq {"setup", "mcp", "init", "update", "job", "auth", "upload",
                        "delete", "purge", "webPurge"}
    /\ \A r \in Rosters : r \in Seq(Labels) /\ Len(r) > 0
    /\ MaxWrites \in Nat

VARIABLES root,      \* the workspace directory
          doc,       \* the accounts of its target.yaml
          captures,  \* the capture directory
          secrets,   \* actors with a stored credential
          clock,
          made,      \* directories made so far; each bears its number
          proc,
          web,       \* the console's reader and its cache
          known      \* the console's registration of this workspace

vars == <<root, doc, captures, secrets, clock, made, proc, web, known>>

None == [none |-> TRUE]

Scaffold == {"directories", "target", "stores"}
Markers == {"incoming", "workflow"}

\* "published" is TRUE of a directory a setup moved into place.
Gone == [there |-> FALSE, id |-> 0, published |-> FALSE, retired |-> FALSE, file |-> <<>>]
NoCaptures == [there |-> FALSE, id |-> 0, has |-> {}]

Resolves == root.there /\ "target" \in DOMAIN root.file
Whole(r) == Scaffold \subseteq DOMAIN r.file
Deletable == root.there /\ Whole(root)
Recognized == Markers \subseteq captures.has

---------------------------------------------------------------------------
(* target.yaml as setup builds it *)

\* No label twice, and none missing.
ValidRoster(roster) == Len(roster) > 0 /\ IsInjective(roster)

Account(label, role) == [label |-> label, role |-> role, auth |-> "MISSING"]

NewDoc(roster) == [i \in DOMAIN roster |-> Account(roster[i], "user")]

\* The attributes offered for the i-th account are those of the i-th one
\* configured; only the credential binding is looked up by label.
Collected(roster, seen) ==
    [i \in DOMAIN roster |->
        Account(roster[i], IF i \in DOMAIN seen THEN seen[i].role ELSE "user")]

BoundByPlace(drawn, seen) ==
    [i \in DOMAIN drawn |->
        IF i \in DOMAIN seen THEN [drawn[i] EXCEPT !.auth = seen[i].auth] ELSE drawn[i]]

Bound(drawn, seen) ==
    [i \in DOMAIN drawn |->
        IF \E j \in DOMAIN seen : seen[j].label = drawn[i].label
        THEN [drawn[i] EXCEPT !.auth =
                (CHOOSE s \in Range(seen) : s.label = drawn[i].label).auth]
        ELSE drawn[i]]


Updated(roster, seen) == Bound(Collected(roster, seen), seen)

---------------------------------------------------------------------------
(* Files *)

\* A writer creates whatever directories its file lacks.
Written(f) ==
    [root EXCEPT !.there = TRUE, !.id = IF root.there THEN @ ELSE made + 1,
                 !.file = [g \in {f} \cup DOMAIN @ |-> IF g = f THEN clock + 1 ELSE @[g]]]
Tick == clock < MaxWrites /\ clock' = clock + 1
Write(f) == Tick /\ root' = Written(f) /\ made' = IF root.there THEN made ELSE made + 1

Laid(markers) == [captures EXCEPT !.there = TRUE, !.has = @ \cup markers,
                                  !.id = IF captures.there THEN @ ELSE made + 1]
Lay(markers) ==
    captures' = Laid(markers) /\ made' = IF captures.there THEN made ELSE made + 1

\* rename(2) replaces an absent or an empty directory only.
CanReplace(directory, content) == ~directory.there \/ content = {}

project == <<root, doc, captures, secrets, clock, made>>

---------------------------------------------------------------------------
(* Commands *)

Fresh(kind) == [kind |-> kind, pc |-> "idle", roster |-> <<>>, seen |-> <<>>,
                staged |-> FALSE, root |-> 0, captures |-> 0, doomed |-> {},
                touched |-> FALSE]

Over(pc) == pc \in {"over", "cancelled"}

\* What a command that has ended knew is of no more consequence.
Moved(p, c, pc) ==
    proc' = [proc EXCEPT ![p] =
               IF pc = "over" THEN [Fresh("none") EXCEPT !.pc = pc]
               ELSE IF pc = "cancelled"
               THEN [Fresh(c.kind) EXCEPT !.pc = pc, !.touched = c.touched]
               ELSE [c EXCEPT !.pc = pc]]
To(p, pc) == Moved(p, proc[p], pc)
At(p, kinds, pc) == proc[p].kind \in kinds /\ proc[p].pc = pc

---------------------------------------------------------------------------
(* hunt setup and the MCP setup: stage, then publish *)

SetupBegin(p, kind, roster) ==
    /\ ~root.there
    /\ ValidRoster(roster)
    /\ Moved(p, [Fresh(kind) EXCEPT !.roster = roster, !.staged = ~captures.there], "publish")
    /\ UNCHANGED <<project, web, known>>

StagedTargetOnly == {"target"}

\* The complete tree is moved into place in one rename.
Staged == Scaffold

SetupPublish(p) ==
    /\ At(p, {"setup", "mcp"}, "publish")
    /\ \/ /\ CanReplace(root, DOMAIN root.file)
          /\ Tick
          /\ made' = made + 1
          /\ root' = [there |-> TRUE, id |-> made', published |-> TRUE, retired |-> FALSE,
                      file |-> [f \in Staged |-> clock']]
          /\ doc' = NewDoc(proc[p].roster)
          /\ Moved(p, [proc[p] EXCEPT !.root = made'],
                   IF proc[p].kind = "mcp" THEN "confirm" ELSE "captures")
       \/ /\ ~CanReplace(root, DOMAIN root.file)
          /\ To(p, "rollback")
          /\ UNCHANGED <<root, doc, clock, made>>
    /\ UNCHANGED <<captures, secrets, web, known>>

\* An existing layout is completed in place, never replaced.
SetupCaptures(p) ==
    /\ At(p, {"setup"}, "captures")
    /\ \/ /\ proc[p].staged
          /\ CanReplace(captures, captures.has)
          /\ made' = made + 1
          /\ captures' = [there |-> TRUE, id |-> made', has |-> Markers]
          /\ Moved(p, [proc[p] EXCEPT !.captures = made'], "confirm")
       \/ /\ proc[p].staged
          /\ ~CanReplace(captures, captures.has)
          /\ To(p, "rollback")
          /\ UNCHANGED <<captures, made>>
       \/ /\ ~proc[p].staged
          /\ Lay(Markers)
          /\ To(p, "confirm")
    /\ UNCHANGED <<root, doc, secrets, clock, web, known>>

\* .gitignore, then the published target is read back; the console lists it.
SetupConfirm(p) ==
    /\ At(p, {"setup", "mcp"}, "confirm")
    /\ To(p, IF proc[p].kind = "mcp" /\ ~Resolves THEN "rollback" ELSE "over")
    /\ known' = (known \/ (proc[p].kind = "setup" /\ Resolves))
    /\ UNCHANGED <<project, web>>

\* Any write may fail; what this run moved into place is taken back.
SetupFails(p) ==
    /\ \/ At(p, {"setup", "mcp"}, "publish") \/ At(p, {"setup", "mcp"}, "confirm")
       \/ At(p, {"setup"}, "captures")
    /\ To(p, "rollback")
    /\ UNCHANGED <<project, web, known>>

TakesRootFound(p) == root.there

TakesRoot(p) == proc[p].root # 0 /\ root.there
TakesCaptures(p) == proc[p].captures # 0 /\ captures.there

Rollback(p) ==
    /\ At(p, {"setup", "mcp"}, "rollback")
    /\ IF TakesRoot(p) THEN root' = Gone /\ doc' = <<>> ELSE UNCHANGED <<root, doc>>
    /\ captures' = IF TakesCaptures(p) THEN NoCaptures ELSE captures
    /\ To(p, "over")
    /\ UNCHANGED <<secrets, clock, made, web, known>>

---------------------------------------------------------------------------
(* hunt init: the same tree, built in place *)

InitBegin(p) ==
    /\ ~root.there
    /\ made' = made + 1
    /\ root' = [Gone EXCEPT !.there = TRUE, !.id = made']
    /\ Moved(p, Fresh("init"), "directories")
    /\ UNCHANGED <<doc, captures, secrets, clock, web, known>>

InitWrite(p, part, next) ==
    /\ At(p, {"init"}, part)
    /\ Write(part)
    /\ doc' = IF part = "target" THEN <<>> ELSE doc
    /\ To(p, next)
    /\ UNCHANGED <<captures, secrets, web, known>>

InitStep(p) ==
    \/ InitWrite(p, "directories", "target")
    \/ InitWrite(p, "target", "stores")
    \/ InitWrite(p, "stores", "over")

---------------------------------------------------------------------------
(* The interactive update: read, ask, back up and rewrite *)

UpdateBegin(p, roster) ==
    /\ Resolves
    /\ ValidRoster(roster)
    /\ Moved(p, [Fresh("update") EXCEPT !.roster = roster, !.seen = doc], "write")
    /\ UNCHANGED <<project, web, known>>

UpdateWrite(p) ==
    /\ At(p, {"update"}, "write")
    /\ IF Resolves /\ Updated(proc[p].roster, proc[p].seen) # doc
       THEN Write("target") /\ doc' = Updated(proc[p].roster, proc[p].seen)
       ELSE UNCHANGED <<root, doc, clock, made>>
    /\ To(p, IF Resolves THEN "captures" ELSE "over")
    /\ UNCHANGED <<captures, secrets, web, known>>

UpdateCaptures(p) ==
    /\ At(p, {"update"}, "captures")
    /\ Lay(Markers)
    /\ To(p, "over")
    /\ UNCHANGED <<root, doc, secrets, clock, web, known>>

---------------------------------------------------------------------------
(* Commands that work inside the workspace *)

\* An import, a workflow run, a plan: the command resolves the workspace,
\* works, and writes its stores.
JobBegin(p) ==
    /\ Resolves
    /\ Moved(p, Fresh("job"), "write")
    /\ UNCHANGED <<project, web, known>>

JobWrite(p) ==
    /\ At(p, {"job"}, "write")
    /\ Write("imports")
    /\ To(p, "over")
    /\ UNCHANGED <<doc, captures, secrets, web, known>>

\* hunt actor auth: the secret, then the binding in the target read before.
AuthBegin(p, label) ==
    /\ Resolves
    /\ \E a \in Range(doc) : a.label = label
    /\ secrets' = secrets \cup {label}
    /\ Moved(p, [Fresh("auth") EXCEPT !.roster = <<label>>, !.seen = doc], "write")
    /\ UNCHANGED <<root, doc, captures, clock, made, web, known>>

AuthWrite(p) ==
    /\ At(p, {"auth"}, "write")
    /\ Write("target")
    /\ doc' = [i \in DOMAIN proc[p].seen |->
                 IF proc[p].seen[i].label = proc[p].roster[1]
                 THEN [proc[p].seen[i] EXCEPT !.auth = "READY"] ELSE proc[p].seen[i]]
    /\ To(p, "over")
    /\ UNCHANGED <<captures, secrets, web, known>>

\* The console creates the missing layout, then stores one file that must
\* not exist yet.
UploadBegin(p) ==
    /\ Resolves
    /\ Lay({"incoming"})
    /\ Moved(p, Fresh("upload"), "workflow")
    /\ UNCHANGED <<root, doc, secrets, clock, web, known>>

UploadLayout(p) ==
    /\ At(p, {"upload"}, "workflow")
    /\ IF captures.there THEN Lay({"workflow"}) /\ To(p, "store")
       ELSE To(p, "over") /\ UNCHANGED <<captures, made>>
    /\ UNCHANGED <<root, doc, secrets, clock, web, known>>

UploadStore(p) ==
    /\ At(p, {"upload"}, "store")
    /\ captures' = IF {"incoming"} \subseteq captures.has THEN Laid({"har"}) ELSE captures
    /\ To(p, "over")
    /\ UNCHANGED <<root, doc, secrets, clock, made, web, known>>

---------------------------------------------------------------------------
(* Deletion and purge *)

Deleting == {"delete", "purge", "webPurge"}
Purging == {"purge", "webPurge"}

\* Everything is validated before anything is removed; a purge refuses a
\* capture directory without its markers.
DeleteBegin(p, kind) ==
    /\ Deletable
    /\ (kind \in Purging /\ captures.there) => Recognized
    /\ Moved(p, [Fresh(kind) EXCEPT
                   !.captures = IF kind \in Purging THEN captures.id ELSE 0], "ask")
    /\ UNCHANGED <<project, web, known>>

\* What is removed, in this order.
Removals(kind) ==
    IF kind \in Purging THEN <<"secrets", "captures", "root">> ELSE <<"root">>

After(p, stage) ==
    LET order == Removals(proc[p].kind)
        at == CHOOSE i \in DOMAIN order : order[i] = stage
    IN IF at = Len(order) THEN "finish" ELSE order[at + 1]

Touched(p) == [proc[p] EXCEPT !.touched = TRUE]

Answer(p) ==
    /\ At(p, Deleting, "ask")
    /\ \E exact \in BOOLEAN : To(p, IF exact THEN Removals(proc[p].kind)[1] ELSE "over")
    /\ UNCHANGED <<project, web, known>>

RemoveSecrets(p) ==
    /\ At(p, Purging, "secrets")
    /\ secrets' = {}
    /\ Moved(p, [proc[p] EXCEPT !.touched = @ \/ secrets # {}], After(p, "secrets"))
    /\ UNCHANGED <<root, doc, captures, clock, made, web, known>>

\* The directory chosen at the start is checked again before it is removed,
\* entry by entry; a purge may be cut short in the middle of it.
RemoveCaptures(p) ==
    /\ At(p, Purging, "captures")
    /\ \/ /\ proc[p].captures = 0
          /\ To(p, After(p, "captures"))
          /\ UNCHANGED captures
       \/ /\ proc[p].captures # 0 /\ ~Recognized
          /\ To(p, "over")
          /\ UNCHANGED captures
       \/ /\ proc[p].captures # 0 /\ Recognized
          /\ captures' = NoCaptures
          /\ Moved(p, Touched(p), After(p, "captures"))
       \/ /\ proc[p].captures # 0 /\ Recognized
          /\ \E m \in captures.has : captures' = [captures EXCEPT !.has = @ \ {m}]
          /\ To(p, "over")
    /\ UNCHANGED <<root, doc, secrets, clock, made, web, known>>

RemoveRoot(p) ==
    /\ At(p, Deleting, "root")
    /\ IF Resolves
       THEN /\ root' = [root EXCEPT !.retired = TRUE]
            /\ Moved(p, [proc[p] EXCEPT !.root = root.id, !.doomed = DOMAIN root.file], "rmtree")
       ELSE To(p, "over") /\ UNCHANGED root
    /\ UNCHANGED <<doc, captures, secrets, clock, made, web, known>>

\* The entries listed at the start go one by one; an entry another removed
\* first, or a directory that gained one meanwhile, is an error.
RemoveEntry(p) ==
    /\ At(p, Deleting, "rmtree")
    /\ root.id = proc[p].root
    /\ \E f \in proc[p].doomed :
          IF f \in DOMAIN root.file
          THEN /\ root' = [root EXCEPT !.file = Restrict(@, DOMAIN @ \ {f})]
               /\ doc' = IF f = "target" THEN <<>> ELSE doc
               /\ Moved(p, [Touched(p) EXCEPT !.doomed = @ \ {f}], "rmtree")
          ELSE To(p, "over") /\ UNCHANGED <<root, doc>>
    /\ UNCHANGED <<captures, secrets, clock, made, web, known>>

RemoveDirectory(p) ==
    /\ At(p, Deleting, "rmtree")
    /\ \/ /\ proc[p].doomed = {} /\ root.id = proc[p].root /\ DOMAIN root.file = {}
          /\ root' = Gone
          /\ To(p, After(p, "root"))
       \/ /\ root.id # proc[p].root \/ (proc[p].doomed = {} /\ DOMAIN root.file # {})
          /\ To(p, "over")
          /\ UNCHANGED root
    /\ UNCHANGED <<doc, captures, secrets, clock, made, web, known>>

\* Only the console forgets the workspace.
DeleteFinish(p) ==
    /\ At(p, Deleting, "finish")
    /\ To(p, "over")
    /\ IF proc[p].kind = "webPurge"
       THEN known' = FALSE /\ web' = [web EXCEPT !.cache = None]
       ELSE UNCHANGED <<known, web>>
    /\ UNCHANGED project

---------------------------------------------------------------------------
(* A command cut short *)

Running(p) == proc[p].pc # "idle" /\ ~Over(proc[p].pc)

\* Ctrl-C at the terminal: an ordinary exception handler does not see it.
Interrupt(p) ==
    /\ proc[p].kind \in {"delete", "purge"}
    /\ Running(p)
    /\ To(p, "cancelled")
    /\ UNCHANGED <<project, web, known>>

Stop(p) ==
    /\ Running(p)
    /\ To(p, "over")
    /\ UNCHANGED <<project, web, known>>

---------------------------------------------------------------------------
(* The console's snapshots *)

\* The stores in the order they are stamped and loaded.
Snapshot == <<"target", "stores", "imports">>
Stamp(f) == IF f \in DOMAIN root.file THEN root.file[f] ELSE 0
Signature == [i \in DOMAIN Snapshot |-> Stamp(Snapshot[i])]

Shown == Resolves \/ known

ReadBegin ==
    /\ web.pc = "idle"
    /\ Shown
    /\ web' = [web EXCEPT !.pc = "stat"]
    /\ UNCHANGED <<project, proc, known>>

\* File by file, while others write.
ReadStamp ==
    /\ web.pc = "stat"
    /\ LET sig == Append(web.sig, Stamp(Snapshot[Len(web.sig) + 1])) IN
       web' = IF Len(sig) < Len(Snapshot) THEN [web EXCEPT !.sig = sig]
              ELSE IF web.cache # None /\ web.cache.sig = sig
              THEN [web EXCEPT !.pc = "idle", !.sig = <<>>]
              ELSE [web EXCEPT !.pc = "load", !.sig = sig]
    /\ UNCHANGED <<project, proc, known>>

EntryStampedLate(sig, snap) == [sig |-> Signature, snap |-> snap]

Entry(sig, snap) == [sig |-> sig, snap |-> snap]

\* A required store that is missing ends the request with an error.
ReadStore ==
    /\ web.pc = "load"
    /\ LET next == Snapshot[Len(web.snap) + 1]
           snap == Append(web.snap, Stamp(next))
           rest == [web EXCEPT !.pc = "idle", !.sig = <<>>, !.snap = <<>>]
       IN web' = IF next = "target" /\ ~Resolves THEN rest
                 ELSE IF Len(snap) < Len(Snapshot) THEN [web EXCEPT !.snap = snap]
                 ELSE [rest EXCEPT !.cache = Entry(web.sig, snap)]
    /\ UNCHANGED <<project, proc, known>>

---------------------------------------------------------------------------
Init ==
    /\ root = Gone /\ doc = <<>> /\ captures = NoCaptures /\ secrets = {}
    /\ clock = 0 /\ made = 0
    /\ proc = [p \in Procs |-> Fresh("none")]
    /\ web = [pc |-> "idle", sig |-> <<>>, snap |-> <<>>, cache |-> None]
    /\ known = FALSE

Start(p) ==
    /\ proc[p].pc = "idle"
    /\ \/ \E kind \in {"setup", "mcp"} \cap Kinds, r \in Rosters : SetupBegin(p, kind, r)
       \/ "init" \in Kinds /\ InitBegin(p)
       \/ "update" \in Kinds /\ \E r \in Rosters : UpdateBegin(p, r)
       \/ "job" \in Kinds /\ JobBegin(p)
       \/ "auth" \in Kinds /\ \E l \in Labels : AuthBegin(p, l)
       \/ "upload" \in Kinds /\ UploadBegin(p)
       \/ \E kind \in Deleting \cap Kinds : DeleteBegin(p, kind)

Continue(p) ==
    \/ SetupPublish(p) \/ SetupCaptures(p) \/ SetupConfirm(p) \/ SetupFails(p)
    \/ Rollback(p) \/ InitStep(p) \/ UpdateWrite(p) \/ UpdateCaptures(p) \/ JobWrite(p)
    \/ AuthWrite(p) \/ UploadLayout(p) \/ UploadStore(p) \/ Answer(p)
    \/ RemoveSecrets(p) \/ RemoveCaptures(p) \/ RemoveRoot(p) \/ RemoveEntry(p)
    \/ RemoveDirectory(p) \/ DeleteFinish(p)

Next ==
    \/ \E p \in Procs : Start(p) \/ Continue(p) \/ Interrupt(p) \/ Stop(p)
    \/ ReadBegin \/ ReadStamp \/ ReadStore

Spec == Init /\ [][Next]_vars

---------------------------------------------------------------------------
(* Properties *)

\* A workspace put in place by setup is complete as long as no deletion has
\* started on it: whatever failed, was interrupted or killed, no command
\* ever resolves half of one (setup.py:530-561, mcp/service.py:205-228).
SetupIsAllOrNothing == (root.published /\ ~root.retired) => Whole(root)

\* A setup that fails takes back only what it put in place itself: it never
\* removes a workspace or a capture directory another command made, unless
\* its own was deleted and replaced in the meantime (setup.py:551-556).
RollbackSparesOthers ==
    [][\A p \in Procs : At(p, {"setup", "mcp"}, "rollback") /\ proc'[p] # proc[p] =>
          /\ (root.there /\ ~root'.there) => proc[p].root # 0
          /\ (captures.there /\ ~captures'.there) => proc[p].captures # 0]_vars

\* As long as no deletion is under way, the snapshot the console serves for
\* the current signature is the content of the files, however the writers
\* interleaved with the reader (web/service.py:64-73).
SnapshotIsCurrent ==
    (Resolves /\ ~root.retired /\ web.cache # None /\ web.cache.sig = Signature)
        => web.cache.snap = Signature

\* An update gives every label it keeps the credential binding the label had
\* when the update read the file, in whatever order the labels are entered
\* (setup.py:1198-1207).
BindingsFollowLabels ==
    [][\A p \in Procs : (At(p, {"update"}, "write") /\ doc' # doc /\ proc'[p] # proc[p]) =>
         \A i \in DOMAIN doc', j \in DOMAIN proc[p].seen :
            doc'[i].label = proc[p].seen[j].label => doc'[i].auth = proc[p].seen[j].auth]_vars

\* What "Workspace deletion cancelled; nothing was deleted." says
\* (cli.py:453): a deletion that reports it was cancelled removed nothing.
CancelledMeansUntouched ==
    \A p \in Procs :
        (proc[p].pc = "cancelled" /\ proc[p].kind \in Deleting) => ~proc[p].touched
=============================================================================
