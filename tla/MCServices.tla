------------------------------ MODULE MCServices ------------------------------
(***************************************************************************)
(* What starts work without a person: scheduled tasks (Automation), the    *)
(* outbox and the background turns of plugins (PluginOutbox, PluginTurns)  *)
(* and children of a Work (Subagents).  A behaviour of this specification  *)
(* is a behaviour of one component, named by `instance`; the other         *)
(* components stay in their initial states.                                *)
(***************************************************************************)
EXTENDS PluginOutbox, TLC

CONSTANTS
    Claimers, MaxTime, Limits, MaxEdits, MaxLapses, NoWorker,   \* a scheduled task
    TurnAttempts, MaxTurnFaults, MaxPauses, MaxEvents,          \* a job of a plugin
    Child, MaxConcurrency, MaxCommands, MaxChildFaults          \* the children of a Work

VARIABLES instance,
          now, definition, occurrences, roots, task, service, edits, lapses,
          job, work, scope, server, resumer, live, human, charged, admitted, turnFaults,
          pauses, events,
          child, exec, phase, page, reports, parent, current, left, childFaults

scheduled  == <<now, definition, occurrences, roots, task, service, edits, lapses>>
turning    == <<job, work, scope, server, resumer, live, human, charged, admitted,
                turnFaults, pauses, events>>
delegating == <<child, exec, phase, page, reports, parent, current, left, childFaults>>
all == <<instance, vars, scheduled, turning, delegating>>

-------------------------------------------------------------------------------
Tasks == INSTANCE Automation
    WITH Workers <- Claimers, MaxFaults <- MaxLapses,
         row <- definition, runs <- occurrences, works <- roots, up <- service,
         faults <- lapses

Turns == INSTANCE PluginTurns
    WITH MaxAttempts <- TurnAttempts, MaxFaults <- MaxTurnFaults, MaxChanges <- MaxEvents,
         worker <- server, faults <- turnFaults, changes <- events

Children == INSTANCE Subagents
    WITH MaxFaults <- MaxChildFaults, faults <- childFaults

ASSUME ServicesAssumption ==
    /\ BoundsAssumption /\ "none" \notin Contents
    /\ Tasks!AutomationAssumption /\ Turns!TurnBounds /\ Children!SubagentsAssumption

-------------------------------------------------------------------------------
\* A scheduled task is checked with a limit, all edits of its owner and one fault, and with
\* any limit, one edit and all faults.
Edited == instance = "edited" /\ definition'.max # 0 /\ lapses' <= 1
Faulty == instance = "faulty" /\ edits' <= 1

InitAll ==
    /\ instance \in {"edited", "faulty", "outbox", "turns", "children"}
    /\ Init /\ Tasks!Init /\ Turns!Init /\ Children!Init
    /\ instance = "edited" => definition.max # 0
    /\ instance \in {"outbox", "turns", "children"} =>
           definition.schedule = "once" /\ definition.max # 0

NextAll ==
    \/ /\ instance = "outbox" /\ Next
       /\ UNCHANGED <<instance, scheduled, turning, delegating>>
    \/ /\ UNCHANGED <<instance, vars, turning, delegating>>
       /\ instance \in {"edited", "faulty"} /\ Tasks!Next /\ (Edited \/ Faulty)
    \/ /\ instance = "turns" /\ Turns!Next
       /\ UNCHANGED <<instance, vars, scheduled, delegating>>
    \/ /\ instance = "children" /\ Children!Next
       /\ UNCHANGED <<instance, vars, scheduled, turning>>

SpecAll == InitAll /\ [][NextAll]_all

\* Claiming tasks and publishing calls are interchangeable.
Symmetry == Permutations(Claimers) \cup Permutations(Callers)

-------------------------------------------------------------------------------
\* Automation: an active task always has an occurrence ahead, each settled run is counted
\* once, and the end of a run is the end of its Work, whoever settled it.
TasksAreSettled ==
    instance \in {"edited", "faulty"} =>
        /\ Tasks!TypeOK /\ Tasks!ActiveIsScheduled
        /\ Tasks!CountsRuns /\ Tasks!RunMatchesWork

\* Automation: a run is admitted under the definition and the limit in force then, although
\* the row was claimed earlier.
RunsAreAdmitted == [][(instance \in {"edited", "faulty"}) => Tasks!Admission]_all

\* PluginTurns: one external event buys one Work, run by one executor at a time; the job
\* completes with that Work, and only failures use up its attempts.
JobIsItsWork ==
    instance = "turns" =>
        /\ Turns!TypeOK /\ Turns!OneWork
        /\ Turns!CompletedWithWork /\ Turns!BudgetIsCharged

\* Subagents: results reach the parent in order and once, one shown as current names the
\* state of the child's row, no unread message is left on a child that ended, and no parent
\* waits while a question of its child is unread.
ParentAndChildAgree ==
    instance = "children" =>
        /\ Children!TypeOK /\ Children!ReportsInOrder /\ Children!ResultDescribesRow
        /\ Children!MessageKeepsChild /\ Children!QuestionReachesParent

\* What others do to a Work it survives.  PluginTurns: a job that ends while its target is
\* live takes its Work along, and a person who speaks meanwhile does not withdraw an admitted
\* Work.  Subagents: a cancelled or archived child stays so, and an execution that lost its
\* child settles nothing.
WorkIsKept ==
    [][/\ instance = "turns" => Turns!Retirement /\ Turns!Withdrawal
       /\ instance = "children" => Children!Settlement /\ Children!Finality]_all
===============================================================================
