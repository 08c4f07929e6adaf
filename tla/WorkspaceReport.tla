--------------------------- MODULE WorkspaceReport --------------------------
(***************************************************************************)
(* workspace_analysis/service.py: hunt workspace report goes through the   *)
(* stages in order, reuses those whose status is COMPLETE, runs the        *)
(* generator of the others, and skips what depends on a failed stage.  The *)
(* generators are also commands of their own (hunt inventory, hunt model,  *)
(* ...); one command runs at a time, while the researcher edits files.     *)
(***************************************************************************)
EXTENDS StagePipeline

CONSTANTS Modes,      \* the modes a report is asked for
          Dies,       \* generators may fail, and commands be killed
          MaxCommands \* bound on the commands started

ASSUME ReportAssumption ==
    /\ Modes \subseteq {"default", "force", "report-only"}
    /\ Dies \in BOOLEAN /\ MaxCommands \in Nat

VARIABLES mode,   \* of the report under way, or "none"
          result, \* what became of each stage of it
          quiet,  \* history: nothing was changed under the report
          commands \* counts the commands started, for the bound

reportVars == <<mode, result, quiet, commands>>
allVars == <<vars, reportVars>>

\* The stages of a report that write something.
Tasks == Stages \cup {"behavior"}

Pending == [s \in Tasks |-> "pending"]

\* The prerequisites of WORKSPACE_ANALYSIS_STAGES.
Prerequisite(s) ==
    CASE s = "inventory" -> {}
      [] s = "model" -> {"inventory"}
      [] s = "invariants" -> {"model"}
      [] s = "hypotheses" -> {"invariants"}
      [] s = "behavior" -> {"model"}

\* A stage whose prerequisite failed or has no data is skipped.
Unmet(s) == \E d \in Prerequisite(s) : result[d] = "unavailable"

\* With no resource records there is nothing to infer invariants from, with no
\* active invariant nothing to make hypotheses from.
Inapplicable(s) ==
    \/ s = "invariants" /\ ~(Present("model") /\ file["model"].records)
    \/ s = "hypotheses" /\ ~(Present("invariants") /\ file["invariants"].active)

Turn(s) == /\ mode # "none" /\ run = Idle
           /\ result[s] = "pending"
           /\ \A d \in Sources(s) : result[d] # "pending"

Settled == \A s \in Tasks : result[s] # "pending"

-----------------------------------------------------------------------------
InitReport ==
    /\ Init
    /\ mode = "none" /\ result = Pending /\ quiet = TRUE /\ commands = 0

Begin == mode = "none" /\ commands < MaxCommands /\ commands' = commands + 1

\* Without observations the validation that precedes the stages fails them.
Start ==
    /\ Begin /\ run = Idle
    /\ mode' \in Modes /\ UNCHANGED quiet
    /\ result' = IF observations.evidence = "none"
                  THEN [Pending EXCEPT !["inventory"] = "unavailable"]
                  ELSE Pending
    /\ UNCHANGED vars

Settle(s, r) == /\ result' = [result EXCEPT ![s] = r]
                /\ UNCHANGED <<vars, mode, quiet, commands>>

Skip(s) == Turn(s) /\ Unmet(s) /\ Settle(s, "unavailable")

NotApplicable(s) ==
    Turn(s) /\ ~Unmet(s) /\ Inapplicable(s) /\ Settle(s, "inapplicable")

Reuse(s) ==
    /\ Turn(s) /\ ~Unmet(s) /\ ~Inapplicable(s)
    /\ mode # "force" /\ Status(s) = "COMPLETE"
    /\ Settle(s, "kept")

\* --report-only regenerates nothing.
Withhold(s) ==
    /\ Turn(s) /\ ~Unmet(s) /\ ~Inapplicable(s)
    /\ mode = "report-only" /\ Status(s) # "COMPLETE"
    /\ Settle(s, "unavailable")

Due(s) == /\ Turn(s) /\ ~Unmet(s) /\ ~Inapplicable(s)
          /\ \/ mode = "force"
             \/ mode = "default" /\ Status(s) # "COMPLETE"

Regenerate(s) == Due(s) /\ Load(s) /\ UNCHANGED reportVars

\* The generator refuses its inputs.
Refuse(s) == Due(s) /\ ~CanRun(s) /\ Settle(s, "unavailable")

\* The generator a report called, or a command of its own, goes on.
Continue(s) == /\ Write(s) \/ (s = "inventory" /\ (Refresh \/ Reconstruct))
               /\ UNCHANGED reportVars

Complete(s) ==
    /\ Record(s)
    /\ result' = IF mode = "none" THEN result ELSE [result EXCEPT ![s] = "made"]
    /\ UNCHANGED <<mode, quiet, commands>>

\* An exception of the generator is caught by the report ...
Fail ==
    /\ Dies /\ Abort /\ mode # "none"
    /\ result' = [result EXCEPT ![run.stage] = "unavailable"]
    /\ UNCHANGED <<mode, quiet, commands>>

\* ... a kill ends the command.
Kill ==
    /\ Dies
    /\ \/ Abort
       \/ run = Idle /\ mode # "none" /\ UNCHANGED vars
    /\ mode' = "none" /\ result' = Pending /\ quiet' = TRUE
    /\ UNCHANGED commands

\* After the other stages the business logic is analysed, whatever became of
\* the backlog: there is no provenance to go by.
BehaviorTurn == /\ mode # "none" /\ run = Idle
                /\ result["behavior"] = "pending"
                /\ \A s \in Stages : result[s] # "pending"

BehaviorDue == BehaviorTurn /\ ~Unmet("behavior") /\ mode # "report-only"

Behave == /\ BehaviorDue /\ AnalyzeLogic
          /\ result' = [result EXCEPT !["behavior"] = "made"]
          /\ UNCHANGED <<mode, quiet, commands>>

PassOver == /\ BehaviorTurn
            /\ BehaviorDue => ~LogicInputs
            /\ Settle("behavior", "unavailable")

\* Faulty: a report waits for a backlog.
FinishWithBacklog ==
    /\ mode # "none" /\ Settled /\ run = Idle
    /\ Present("hypotheses")
    /\ mode' = "none" /\ result' = Pending /\ quiet' = TRUE
    /\ UNCHANGED <<vars, commands>>

\* The report is written.
Finish ==
    /\ mode # "none" /\ Settled /\ run = Idle
    /\ mode' = "none" /\ result' = Pending /\ quiet' = TRUE
    /\ UNCHANGED <<vars, commands>>

\* hunt inventory, model, invariants, hypotheses.
Command(s) == Begin /\ Load(s) /\ UNCHANGED <<mode, result, quiet>>

\* hunt logic analyze.
LogicCommand == Begin /\ AnalyzeLogic /\ UNCHANGED <<mode, result, quiet>>

ResearcherActs ==
    /\ Researcher
    /\ quiet' = (mode = "none")
    /\ UNCHANGED <<mode, result, commands>>

Deciding(s) == \/ Skip(s) \/ NotApplicable(s) \/ Reuse(s) \/ Withhold(s)
               \/ Regenerate(s) \/ Refuse(s)

Working == \/ \E s \in Stages : Deciding(s) \/ Continue(s) \/ Complete(s)
           \/ Behave \/ PassOver \/ Finish

ReportNext == \/ Start \/ Working \/ Fail \/ Kill
              \/ LogicCommand \/ ResearcherActs
              \/ \E s \in Stages : Command(s)

\* A command that was started is scheduled until it ends.
ReportSpec == InitReport /\ [][ReportNext]_allVars /\ WF_allVars(Working)

-----------------------------------------------------------------------------

Upstream(s) == Sources(s) \cup {s}

\* When a report ends that nothing disturbed, the stages it reused or
\* regenerated are COMPLETE, if those before them are such and no record a
\* researcher wrote is in their way: no stage it ran later took that back.
ReportLeavesCurrent ==
    (mode # "none" /\ Settled /\ quiet) =>
        \A s \in Stages :
            (/\ \A u \in Upstream(s) : result[u] \in {"kept", "made"}
             /\ \A u \in Upstream(s) \ {"hypotheses"} : file[u].edit = "none")
            => Status(s) = "COMPLETE"

\* A report that was started ends, although its stages wait on generators that
\* may fail and on files that change under it.
ReportEnds == (mode # "none") ~> (mode = "none")
=============================================================================
