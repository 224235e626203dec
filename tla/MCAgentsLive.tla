----------------------------- MODULE MCAgentsLive -----------------------------
(***************************************************************************)
(* What was started without anyone watching must come back: an operation   *)
(* that a device executes (ExternalAgents) and an occurrence of a          *)
(* scheduled task (Automation).  A behaviour of this specification is a    *)
(* fair behaviour of one component, named by `instance`: an operation of a *)
(* Work that goes on, one of a Work that may end, or a task; the other     *)
(* component stays in its initial state.                                   *)
(***************************************************************************)
EXTENDS ExternalAgents

CONSTANTS w1, w2, NoWorker

VARIABLES instance, now, definition, occurrences, roots, task, service, edits, lapses

scheduled == <<now, definition, occurrences, roots, task, service, edits, lapses>>
all == <<instance, scheduled, vars>>

\* A task without a limit, claimed by two workers, over two readings of the clock.
Tasks == INSTANCE Automation
    WITH Workers <- {w1, w2}, MaxTime <- 2, Limits <- {0}, MaxEdits <- 0, MaxFaults <- 1,
         row <- definition, runs <- occurrences, works <- roots, up <- service,
         faults <- lapses

ASSUME Tasks!AutomationAssumption

-------------------------------------------------------------------------------
\* While the Work goes on anything may fail; where it may end, an execution that outlives
\* the connector, and only the connection does.
InitAll ==
    /\ instance \in {"observed", "ended", "tasks"}
    /\ Init /\ Tasks!Init
    /\ instance # "observed" => daemon
    /\ instance # "tasks" => definition.schedule = "once"

NextAll ==
    \/ /\ UNCHANGED <<instance, scheduled>> /\ Next
       /\ \/ instance = "observed" /\ UNCHANGED work
          \/ instance = "ended" /\ ~DeviceRestart /\ ~LoseOwner /\ ~ServerRestart
    \/ instance = "tasks" /\ Tasks!Next /\ UNCHANGED <<instance, vars>>

\* Each component under its own fairness.
FairAll == (instance # "tasks" /\ Fairness) \/ (instance = "tasks" /\ Tasks!Fairness)

SpecAll == InitAll /\ [][NextAll]_all /\ FairAll

-------------------------------------------------------------------------------
\* ExternalAgents: every end and milestone that the connector's journal recorded reaches the
\* Work, and maintenance stops the execution of an ended Work whose name it knows.
OperationEnds == instance # "tasks" => EndArrives /\ MilestoneArrives /\ AbandonedIsStopped

\* Automation: a due active task gets its run, unless its owner or its limit changes it, and
\* the end of a run's root Work reaches the run.
TasksRun == instance = "tasks" => Tasks!DueStarts /\ Tasks!WorkRunSettles
===============================================================================
