-------------------------- MODULE BoundedExecution --------------------------
(***************************************************************************)
(* The approval gate and the bounded runner (testing/planner.py,           *)
(* execution/policy.py, execution/runner.py): one hypothesis, its plan,    *)
(* the approval bound to the plan and to the target policy, the executions *)
(* that follow from it, and what the researcher and the authentication     *)
(* commands change meanwhile.  An authentication command is one step here; *)
(* its separate writes are the subject of ActorAuth.                       *)
(*                                                                         *)
(* The content of target.yaml outside the actor's authentication is one    *)
(* value (policy), the passive artifacts a plan is drafted from another    *)
(* (inputs).  A checksum is injective: the model keeps what it digests.    *)
(***************************************************************************)
EXTENDS AuthProfile, FiniteSets, FiniteSetsExt

CONSTANTS Policies,     \* contents of target.yaml outside authentication
          Permitting,   \* those that pass the static execution policy
          Inputs,       \* versions of observations, endpoints, hypothesis
          AutoRefresh,  \* refresh flows were configured with --auto-refresh
          Interference, \* which kinds of change happen beside the runner
          Serial,       \* and only while no execution is under way
          MaxRuns,      \* bound on executions
          MaxApprovals  \* bound on different approvals

ASSUME ExecutionAssumption ==
    /\ Permitting \subseteq Policies
    /\ Interference \subseteq {"auth", "plan", "policy", "inputs"}
    /\ {AutoRefresh, Serial} \subseteq BOOLEAN
    /\ MaxRuns \in Nat /\ MaxApprovals \in Nat

VARIABLES policy, inputs,
          plan,      \* the hypothesis' record in test-plans.yaml
          approver,  \* hunt approve: idle, or at its prompt
          run,       \* hunt execute
          runs,      \* executions started
          sent,      \* history: requests that left the machine
          decisions, \* history: what the researcher approved
          evidence,  \* execution-v<rev> directories, and whether indexed
          audit      \* execution-v<rev>.yaml records

authVars == <<auth, vault>>
gateVars == <<policy, inputs, plan, approver, decisions>>
runVars  == <<run, runs, sent, evidence, audit>>
vars == <<authVars, approval, gateVars, runVars>>

-----------------------------------------------------------------------------
(* Plans and checksums                                                     *)

\* A draft: what it was drafted from, the context of the profile it binds,
\* and whether it may be executed; an edit makes it another body.
Bodies == [inputs : Inputs, ctx : Contexts, supported : BOOLEAN,
           edited : BOOLEAN]
Draft == [inputs |-> inputs, ctx |-> Context(auth),
          supported |-> ReadyToPlan(auth, vault), edited |-> FALSE]

\* plan_source_fingerprint leaves out status, expiration and timestamps.
SourceFacts(a) == [set |-> a.set, hint |-> a.hint, accepted |-> a.accepted,
                   scoped |-> a.scoped, confirmed |-> a.confirmed,
                   baseline |-> a.baseline, flow |-> a.flow, parts |-> a.parts]
Source == [policy |-> policy, inputs |-> inputs, facts |-> SourceFacts(auth)]

\* target_policy_checksum covers the authentication's context only.
PolicySums == [policy : Policies, ctx : Contexts]
PolicyChecksum == [policy |-> policy, ctx |-> Context(auth)]

NoPlan == [none |-> TRUE]
NoRecord == [none |-> TRUE]
NoApproval == [status |-> "NOT_REQUESTED", record |-> NoRecord]
Decisions == [plan : Bodies, policy : PolicySums]

\* _validate_plan_current and _validate_static_policy
Approvable == /\ plan # NoPlan
              /\ plan.sum = plan.body
              /\ plan.src = Source
              /\ plan.body.supported
              /\ policy \in Permitting

\* _validate_approval
ApprovalHolds ==
    /\ approval.status = "APPROVED"
    /\ approval.record = [plan |-> plan.body, policy |-> PolicyChecksum]

\* Faulty: the approval is not looked at.
AuthorizedUnapproved == Approvable

Authorized == Approvable /\ ApprovalHolds

-----------------------------------------------------------------------------
(* What happens beside the runner                                          *)

Executing == run.pc # "idle"
Beside(kind) == kind \in Interference /\ (Serial => ~Executing)

\* A whole authentication command.
Perform(writes) ==
    /\ auth' = AuthAfter(auth, writes)
    /\ vault' = VaultAfter(vault, writes)
    /\ approval' = IF Invalidates(writes) THEN NoApproval ELSE approval

\* The token belongs to whoever the refresh credential belongs to.  A refresh
\* that fails, or shows another identity, raises; otherwise it is stored.
RefreshHints == {vault["refresh"], Unknown}
Renewed(hint) == RefreshWrites(auth, vault["refresh"], hint, "fresh")

RefreshRaises ==
    /\ CanRefresh(auth, vault)
    /\ \/ Perform(RefreshFailedWrites(auth))
       \/ \E hint \in RefreshHints : /\ Continuity(auth.hint, hint) = "CHANGED"
                                     /\ Perform(Renewed(hint))

RefreshStores ==
    /\ CanRefresh(auth, vault)
    /\ \E hint \in RefreshHints : /\ Continuity(auth.hint, hint) # "CHANGED"
                                  /\ Perform(Renewed(hint))

Refresh == RefreshRaises \/ RefreshStores

Check == /\ auth.baseline /\ ReadyToPlan(auth, vault)
         /\ \E f \in {"login", "matched", "confirmed", "unexpected"} :
               /\ f = "confirmed" => vault["access"] = Self
               /\ Perform(<<PutFact(f)>>)

Tick == /\ auth.set /\ auth.flow
        /\ auth.life = "fresh" /\ auth' = [auth EXCEPT !.life = "soon"]
        /\ UNCHANGED <<vault, approval>>

Authenticate ==
    /\ Beside("auth")
    /\ \/ \E c \in Candidates : Perform(StoreWrites(auth, c))
       \/ Perform(ClearWrites(auth))
       \/ auth.set /\ \E o \in Subjects : Perform(ConfigureWrites(auth, o))
       \/ Refresh
       \/ Check
       \/ Tick
    /\ UNCHANGED <<gateVars, runVars>>

\* generate_plan: an edited plan is a conflict and stays; an untouched one is
\* replaced, and keeps its approval.
GeneratePlan ==
    /\ Serial => ~Executing
    /\ plan' = IF plan # NoPlan /\ plan.body # plan.sum THEN plan
               ELSE [body |-> Draft, sum |-> Draft, src |-> Source]
    /\ UNCHANGED <<authVars, approval, policy, inputs, approver, decisions, runVars>>

EditPlan ==
    /\ Beside("plan") /\ plan # NoPlan
    /\ plan' = [plan EXCEPT !.body.edited = ~@]
    /\ UNCHANGED <<authVars, approval, policy, inputs, approver, decisions, runVars>>

RemovePlan ==
    /\ Beside("plan") /\ plan # NoPlan
    /\ plan' = NoPlan /\ approval' = NoApproval
    /\ UNCHANGED <<authVars, policy, inputs, approver, decisions, runVars>>

\* A manually edited APPROVED value.
EditApprovalStatus ==
    /\ Beside("plan") /\ plan # NoPlan /\ approval.status # "APPROVED"
    /\ approval' = [approval EXCEPT !.status = "APPROVED"]
    /\ UNCHANGED <<authVars, gateVars, runVars>>

ChangePolicy ==
    /\ Beside("policy") /\ policy' \in Policies \ {policy}
    /\ UNCHANGED <<authVars, approval, inputs, plan, approver, decisions, runVars>>

ChangeInputs ==
    /\ Beside("inputs") /\ inputs' \in Inputs \ {inputs}
    /\ UNCHANGED <<authVars, approval, policy, plan, approver, decisions, runVars>>

-----------------------------------------------------------------------------
(* hunt approve                                                            *)

\* review_plan_approval, before the prompt
ReviewApproval ==
    /\ Serial => ~Executing
    /\ approver = "idle" /\ Approvable
    /\ approver' = "prompt"
    /\ UNCHANGED <<authVars, approval, policy, inputs, plan, decisions, runVars>>

\* approve_plan, after it: everything is loaded and validated again.
RecordApproval ==
    LET decision == [plan |-> plan.body, policy |-> PolicyChecksum]
    IN  /\ approver = "prompt" /\ Approvable
        /\ approver' = "idle"
        /\ approval' = [status |-> "APPROVED", record |-> decision]
        /\ decisions' = decisions \cup {decision}
        /\ Cardinality(decisions') <= MaxApprovals
        /\ UNCHANGED <<authVars, policy, inputs, plan, runVars>>

DeclineApproval ==
    /\ approver = "prompt"
    /\ approver' = "idle"
    /\ UNCHANGED <<authVars, approval, policy, inputs, plan, decisions, runVars>>

-----------------------------------------------------------------------------
(* hunt execute                                                            *)

\* What prepare_execution hands to the runner, and the runner's own state.
IdleRun == [pc |-> "idle", plan |-> NoPlan, policy |-> NoPlan, cred |-> Nobody,
            count |-> 0, refreshed |-> FALSE, rev |-> 0]

Goto(pc) == run' = [run EXCEPT !.pc = pc]
End == run' = IdleRun
Quiet == UNCHANGED <<authVars, approval, gateVars, runs, sent, evidence, audit>>

\* review_execution_authority
ReviewAuthority ==
    /\ run.pc = "idle" /\ runs < MaxRuns
    /\ Serial => approver = "idle"
    /\ Authorized
    /\ run' = [IdleRun EXCEPT !.pc = "confirm"]
    /\ runs' = runs + 1
    /\ UNCHANGED <<authVars, approval, gateVars, sent, evidence, audit>>

\* The confirmation prompt of execute_command
Confirm == run.pc = "confirm" /\ (Goto("prepare") \/ End) /\ Quiet

\* prepare_execution loads everything again, and works on this copy.
Prepare ==
    /\ run.pc = "prepare"
    /\ IF Authorized THEN run' = [run EXCEPT !.pc = "preflight",
                                             !.plan = plan.body,
                                             !.policy = PolicyChecksum]
       ELSE End
    /\ Quiet

PreflightPasses == Context(auth) = run.plan.ctx /\ ReadyToExecute(auth, vault)

RefreshesFirst ==
    /\ ~PreflightPasses /\ Context(auth) = run.plan.ctx
    /\ PreflightStatus(auth, vault) \in {"EXPIRED", "EXPIRING_SOON"}
    /\ AutoRefresh /\ CanRefresh(auth, vault)

Preflight ==
    /\ run.pc \in {"preflight", "recheck"}
    /\ run.pc = "preflight" => ~RefreshesFirst
    /\ IF PreflightPasses THEN Goto("headers") ELSE End
    /\ Quiet

\* The runner's own refresh: unless it raises, the runner then looks at the
\* profile once more.
RefreshBeforeRun ==
    /\ run.pc = "preflight" /\ RefreshesFirst
    /\ \/ RefreshRaises /\ End
       \/ /\ RefreshStores
          /\ run' = [run EXCEPT !.pc = "recheck", !.refreshed = TRUE]
    /\ UNCHANGED <<gateVars, runs, sent, evidence, audit>>

\* _runtime_headers
ResolveHeaders ==
    /\ run.pc = "headers"
    /\ IF vault["access"] = Nobody THEN End
       ELSE run' = [run EXCEPT !.pc = "baseline", !.cred = vault["access"]]
    /\ Quiet

\* Faulty: the request is tagged with the policy of the file as it is then.
RequestUnderFile(n) == [run |-> runs, n |-> n, plan |-> run.plan,
                        policy |-> PolicyChecksum, cred |-> run.cred]

Request(n) == [run |-> runs, n |-> n, plan |-> run.plan,
               policy |-> run.policy, cred |-> run.cred]

\* _send_request: sent and counted; sent, with the connection failing before
\* on_sent counts it; or not sent, with the connection failing.
Send(n, await) ==
    /\ \/ /\ sent' = sent \cup {Request(n)}
          /\ run' = [run EXCEPT !.pc = await, !.count = n]
       \/ /\ sent' \in {sent, sent \cup {Request(n)}}
          /\ Goto("evidence")
    /\ UNCHANGED <<authVars, approval, gateVars, runs, evidence, audit>>

SendBaseline == run.pc = "baseline" /\ Send(1, "awaitBaseline")

\* A login, anything else but the recorded baseline, or the baseline.
BaselineAnswered ==
    /\ run.pc = "awaitBaseline"
    /\ Goto("refused") \/ Goto("evidence") \/ Goto("ran")
    /\ Quiet

Mark(fact, pc) == /\ auth' = Marked(auth, fact)
                  /\ Goto(pc)
                  /\ UNCHANGED <<vault, approval, gateVars, runs, sent,
                                 evidence, audit>>

MarkBaseline == run.pc = "ran" /\ Mark("ran", "mutation")

SendMutation == run.pc = "mutation" /\ Send(2, "awaitMutation")

MutationAnswered ==
    /\ run.pc = "awaitMutation"
    /\ Goto("refused") \/ Goto("evidence")
    /\ Quiet

\* Faulty: a refused run ends without evidence.
RefusedAborting == /\ run.pc = "refused"
                   /\ auth' = Marked(auth, "refused")
                   /\ End
                   /\ UNCHANGED <<vault, approval, gateVars, runs, sent,
                                  evidence, audit>>

MarkRefused == run.pc = "refused" /\ Mark("refused", "evidence")

\* Faulty: only audited executions count.
RevisionAfterAudits == 1 + Max({0} \cup {a.rev : a \in audit})

\* _write_outputs: the files of the next revision, their index, the audit.
NextRevision ==
    1 + Max({0} \cup {e.rev : e \in evidence} \cup {a.rev : a \in audit})

WriteEvidence ==
    /\ run.pc = "evidence"
    /\ evidence' = evidence \cup {[rev |-> NextRevision, run |-> runs,
                                   indexed |-> FALSE]}
    /\ run' = [run EXCEPT !.pc = "index", !.rev = NextRevision]
    /\ UNCHANGED <<authVars, approval, gateVars, runs, sent, audit>>

\* Faulty: the index is not written.
IndexSkipped == run.pc = "index" /\ Goto("audit") /\ Quiet

IndexEvidence ==
    /\ run.pc = "index"
    /\ evidence' = {IF e.rev = run.rev THEN [e EXCEPT !.indexed = TRUE] ELSE e :
                       e \in evidence}
    /\ Goto("audit")
    /\ UNCHANGED <<authVars, approval, gateVars, runs, sent, audit>>

WriteAudit ==
    /\ run.pc = "audit"
    /\ audit' = audit \cup {[rev |-> run.rev, run |-> runs, count |-> run.count]}
    /\ End
    /\ UNCHANGED <<authVars, approval, gateVars, runs, sent, evidence>>

CrashRun == Executing /\ End /\ Quiet

\* The destination no longer resolves, or not to a permitted address: the
\* error of _resolve_scope leaves execute_prepared and the command.
LoseDestination == run.pc \in {"baseline", "mutation"} /\ End /\ Quiet

\* What the runner does once confirmed.
RunnerStep ==
    \/ Prepare \/ Preflight \/ RefreshBeforeRun \/ ResolveHeaders
    \/ SendBaseline \/ BaselineAnswered \/ MarkBaseline
    \/ SendMutation \/ MutationAnswered \/ MarkRefused
    \/ WriteEvidence \/ IndexEvidence \/ WriteAudit

-----------------------------------------------------------------------------
\* The workspace after an own credential was captured, or captured and checked.
Init == /\ \E c \in {d \in Candidates : d.owner = Self} :
              /\ auth \in {StoredProfile(Missing, c),
                           Marked(StoredProfile(Missing, c), "confirmed")}
              /\ vault = Stored([r \in Refs |-> Nobody], {<<"access", c.owner>>})
        /\ policy \in Permitting /\ inputs \in Inputs
        /\ plan = NoPlan /\ approval = NoApproval
        /\ approver = "idle" /\ decisions = {}
        /\ run = IdleRun /\ runs = 0 /\ sent = {}
        /\ evidence = {} /\ audit = {}

Gate == GeneratePlan \/ ReviewApproval \/ RecordApproval \/ DeclineApproval
Edits == EditPlan \/ RemovePlan \/ EditApprovalStatus \/ ChangePolicy \/ ChangeInputs

Running == Authenticate \/ Edits \/ Gate \/ ReviewAuthority \/ Confirm \/ RunnerStep

\* Executions that nothing kills.
Spec == Init /\ [][Running]_vars /\ WF_vars(RunnerStep)

\* Executions that may be killed at any step.
CrashSpec == Init /\ [][Running \/ CrashRun]_vars

\* Executions whose destination may be lost between two requests.
ResolverSpec == Init /\ [][Running \/ LoseDestination]_vars

-----------------------------------------------------------------------------
\* Nothing is sent that the researcher did not approve with hunt approve, in
\* exactly this form and under exactly this target policy, whatever is edited,
\* regenerated, re-authenticated or killed in between.
SentUnderDecision ==
    \A s \in sent : [plan |-> s.plan, policy |-> s.policy] \in decisions

\* Every request goes out with a credential of the actor's own account.
SentCredentialIsOwn == \A s \in sent : s.cred = Self

\* The gate implements its promise (AuthorityGate): whatever the files say by
\* then, and wherever a run is killed, it sends its baseline and its mutation
\* in this order under one recorded decision and with one credential.
Authority == INSTANCE AuthorityGate
                 WITH Plans <- Bodies, PolicyStates <- PolicySums,
                      Credentials <- Subjects, Runs <- 1..MaxRuns,
                      decided <- decisions, requests <- sent
ImplementsAuthority == Authority!Spec

\* An audit record counts the requests its run sent, missing at most the one
\* whose connection failed while it was sent, and its revision holds indexed
\* evidence of the same run.
AuditIsTruthful ==
    \A a \in audit :
        /\ Cardinality({s \in sent : s.run = a.run}) \in {a.count, a.count + 1}
        /\ \E e \in evidence : e.rev = a.rev /\ e.run = a.run /\ e.indexed

\* No revision number serves two executions, although a killed run leaves
\* evidence without an audit record.
RevisionsNeverShared ==
    \A x, y \in {<<e.rev, e.run>> : e \in evidence}
                  \cup {<<a.rev, a.run>> : a \in audit} :
        x[1] = y[1] => x = y

\* A run that refreshed the credential itself sends nothing: the refresh drops
\* the acceptance that the second preflight asks for.
RefreshedRunSendsNothing ==
    run.refreshed => run.pc \in {"recheck", "idle"}

\* docs/workflow-rationale.md: "Execution writes redacted evidence and an
\* append-only audit record."  Every finished execution that sent a request
\* has one.
RunsAreAudited ==
    ~Executing => \A s \in sent : \E a \in audit : a.run = s.run

\* A request that was sent is audited in the end.
SentIsAudited ==
    \A r \in 1..MaxRuns :
        (\E s \in sent : s.run = r) ~> (\E a \in audit : a.run = r)
=============================================================================
