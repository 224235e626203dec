------------------------------ MODULE Automation ------------------------------
(* A scheduled task and its occurrences: automation/repository.py, service   *)
(* .py and worker.py.  A poll claims the due row, a task of its own creates  *)
(* the run of the occurrence and executes it, directly or as a Work, while   *)
(* its owner pauses, resumes, cancels, re-times or starts the task by hand.  *)
(* A claim lapses when its heartbeat cannot renew it in time, and then the   *)
(* next poll may take the row while the former holder is still at work.      *)
EXTENDS Integers, FiniteSets

CONSTANTS
    Workers,    \* identities of claiming tasks, taken anew by each poll
    MaxTime,    \* clock readings
    Limits,     \* values of max_runs an owner sets; 0 is none
    MaxEdits,   \* calls of the owner
    MaxFaults,  \* crashes, lapsed claims and errors
    NoWorker

AutomationAssumption ==
    /\ MaxTime \in Nat /\ MaxEdits \in Nat /\ MaxFaults \in Nat
    /\ Limits \subseteq Nat /\ NoWorker \notin Workers

VARIABLES
    now,
    row,        \* the row of automations and its latest version
    runs,       \* automation_runs, by scheduled_for
    works,      \* state of the root Work of each run
    task,       \* the tasks of the worker
    up,         \* "down", "starting" or "up"
    edits, faults

vars == <<now, row, runs, works, task, up, edits, faults>>

-----------------------------------------------------------------------------
Times == 1 .. MaxTime
Schedules == {"once", "interval"}
Statuses == {"active", "paused", "completed", "cancelled", "failed", "blocked"}
RunEnds == {"succeeded", "failed", "cancelled", "uncertain", "blocked"}
WorkEnds == {"completed", "failed", "cancelled"}

NoRun == [status |-> "none", version |-> 0, schedule |-> "once"]
Idle == [pc |-> "idle", sched |-> 0, version |-> 0]

Later(a, b) == IF a > b THEN a ELSE b

Ended == row.status \in {"cancelled", "completed"}
Running == {t \in Times : runs[t].status = "running"}
Settled == {t \in Times : runs[t].status \in RunEnds}

(* schedule_after_completion: the slot after the completion, never a past   *)
(* one; 0 is None.                                                          *)
AfterCompletion(schedule, t) == IF schedule = "once" THEN 0 ELSE Later(t, now) + 1

(* The clock reading of a call is not the instant of an occurrence.         *)
Unused(t) == t \in Times /\ runs[t].status = "none"

-----------------------------------------------------------------------------
(* finish_run: the one writer of a run's end and of what it makes of the    *)
(* schedule.                                                                *)

RowAfter(t, status) ==
    LET count == row.count + 1
        full == status # "blocked" /\ row.max # 0 /\ count >= row.max
        next == AfterCompletion(runs[t].schedule, t)
        state == IF row.status = "paused" THEN "paused"
                 ELSE IF status = "blocked" THEN "blocked"
                 ELSE IF next # 0 THEN row.status
                 ELSE IF status = "succeeded" THEN "completed" ELSE "failed"
    IN  IF Ended THEN [row EXCEPT !.count = count]
        ELSE IF full THEN [row EXCEPT !.count = count, !.status = "completed", !.next = 0]
        ELSE IF row.next # t THEN [row EXCEPT !.count = count]
        ELSE [row EXCEPT !.count = count, !.next = next, !.status = state]

(* Mutant: the run is closed whatever its state. *)
FinishRunAnyway(t, status) ==
    /\ runs' = [runs EXCEPT ![t].status = status]
    /\ row' = RowAfter(t, status)

FinishRun(t, status) ==
    IF runs[t].status = "running"
    THEN runs' = [runs EXCEPT ![t].status = status] /\ row' = RowAfter(t, status)
    ELSE UNCHANGED <<runs, row>>

-----------------------------------------------------------------------------
(* The owner: AutomationService *)

Edit ==
    /\ edits < MaxEdits /\ edits' = edits + 1
    /\ UNCHANGED <<now, runs, works, task, up, faults>>

(* update_task retries until no version came in between. *)
UpdateTask(schedule, limit, limitSet) ==
    LET next == IF schedule = row.schedule THEN row.next ELSE now + 1
        max == IF limitSet THEN limit ELSE row.max
        full == limitSet /\ max # 0 /\ row.count >= max /\ Running = {}
    IN  /\ ~Ended
        /\ row' = [row EXCEPT !.version = @ + 1, !.schedule = schedule, !.max = max,
                              !.next = IF full THEN 0 ELSE next,
                              !.status = IF full THEN "completed" ELSE @]
        /\ Edit

Pause ==
    /\ ~Ended
    /\ row' = [row EXCEPT !.status = "paused"]
    /\ Edit

Resume ==
    /\ row.status \in {"paused", "failed", "blocked"}
    /\ row.next = 0 => Unused(now)
    /\ row' = [row EXCEPT !.status = "active", !.next = IF @ = 0 THEN now ELSE @]
    /\ Edit

Cancel ==
    /\ row.status # "cancelled"
    /\ row' = [row EXCEPT !.status = "cancelled", !.next = 0]
    /\ Edit

RunNow ==
    /\ ~Ended /\ Unused(now)
    /\ row' = [row EXCEPT !.status = "active", !.next = now]
    /\ Edit

-----------------------------------------------------------------------------
(* The worker *)

Fail == faults < MaxFaults /\ faults' = faults + 1

To(w, pc) == task' = [task EXCEPT ![w].pc = pc]

Due ==
    /\ row.status = "active" /\ row.next # 0 /\ row.next <= now
    /\ runs[row.next].status = "none"

(* Mutant: only a row that nobody ever claimed, or that was given back. *)
ClaimableUnclaimed == row.claim = NoWorker

Claimable == row.claim = NoWorker \/ ~row.fresh

(* claim_due by one poll: the row and its latest version are the snapshot   *)
(* the task works from.                                                     *)
Claim(w) ==
    /\ up = "up" /\ task[w].pc = "idle" /\ row.claim # w
    /\ Due /\ Claimable
    /\ row' = [row EXCEPT !.claim = w, !.fresh = TRUE]
    /\ task' = [task EXCEPT ![w] = [pc |-> "claimed", sched |-> row.next, version |-> row.version]]
    /\ UNCHANGED <<now, runs, works, up, edits, faults>>

(* The original scene is bound or not available. *)
Bind(w, bound) ==
    /\ task[w].pc = "claimed"
    /\ To(w, IF bound THEN "turn" ELSE "blocking")
    /\ UNCHANGED <<now, row, runs, works, up, edits, faults>>

(* The conversation is busy: the claim is given back without a run. *)
Busy(w) ==
    /\ task[w].pc = "turn"
    /\ To(w, "release")
    /\ UNCHANGED <<now, row, runs, works, up, edits, faults>>

Holds(w) == row.claim = w /\ row.fresh

(* Mutant: the claimed snapshot is executed without looking again. *)
AdmissibleClaimed(w) == Holds(w) /\ row.status = "active" /\ row.next = task[w].sched

Admissible(w) ==
    /\ Holds(w) /\ row.status = "active"
    /\ row.next = task[w].sched /\ row.version = task[w].version

Full == row.max # 0 /\ row.count + Cardinality(Running) >= row.max

(* create_run *)
CreateRun(w) ==
    LET t == task[w].sched
        next == IF task[w].pc = "turn" THEN "executing" ELSE "blocked"
    IN
    /\ task[w].pc \in {"turn", "blocking"}
    /\ \/ ~Admissible(w) /\ UNCHANGED <<row, runs>> /\ To(w, "release")
       \/ Admissible(w) /\ runs[t].status # "none" /\ UNCHANGED runs /\ To(w, "release")
          /\ row' = [row EXCEPT !.next = IF runs[t].status = "running" THEN @ ELSE 0]
       \/ Admissible(w) /\ runs[t].status = "none" /\ Full /\ UNCHANGED runs /\ To(w, "release")
          /\ row' = IF Running = {} THEN [row EXCEPT !.status = "completed", !.next = 0] ELSE row
       \/ Admissible(w) /\ runs[t].status = "none" /\ ~Full /\ UNCHANGED row /\ To(w, next)
          /\ runs' = [runs EXCEPT ![t] = [status |-> "running", version |-> task[w].version,
                                          schedule |-> row.schedule]]
    /\ UNCHANGED <<now, works, up, edits, faults>>

(* finish_run with the worker's identity: only while the row names it. *)
Block(w) ==
    /\ task[w].pc = "blocked"
    /\ IF row.claim = w THEN FinishRun(task[w].sched, "blocked") ELSE UNCHANGED <<runs, row>>
    /\ To(w, "release")
    /\ UNCHANGED <<now, works, up, edits, faults>>

(* The turn accepts a Work; the scheduler may go on with it later. *)
AcceptWork(w) ==
    /\ task[w].pc = "executing" /\ works[task[w].sched] = "none"
    /\ works' = [works EXCEPT ![task[w].sched] = "live"]
    /\ UNCHANGED <<now, row, runs, task, up, edits, faults>>

(* A turn without a Work settles its run; one with a Work leaves that to    *)
(* settle_work_occurrences.                                                 *)
EndTurn(w, status) ==
    LET t == task[w].sched IN
    /\ task[w].pc = "executing"
    /\ IF works[t] = "none"
       THEN FinishRun(t, status) /\ To(w, "release")
       ELSE UNCHANGED <<row, runs>> /\ To(w, "settle")
    /\ UNCHANGED <<now, works, up, edits, faults>>

RunEnd(state) == IF state \in {"failed", "cancelled"} THEN state ELSE "succeeded"

Settleable == {t \in Running : works[t] \in WorkEnds}

(* settle_work_occurrences, called by the task, the Work scheduler's cycle  *)
(* and the resumption of the Work.                                          *)
SettleWork(t) ==
    /\ t \in Settleable
    /\ FinishRun(t, RunEnd(works[t]))
    /\ UNCHANGED <<now, works, task, up, edits, faults>>

LeaveSettled(w) ==
    /\ task[w].pc \in {"settle", "failing"} /\ Settleable = {}
    /\ To(w, IF task[w].pc = "settle" THEN "release" ELSE "unowned")
    /\ UNCHANGED <<now, row, runs, works, up, edits, faults>>

AtWork == {"claimed", "turn", "blocking", "blocked", "executing", "settle"}

(* The heartbeat finds the claim gone, or a step fails. *)
Interrupt(w) ==
    /\ task[w].pc \in AtWork
    /\ \/ ~Holds(w) /\ UNCHANGED faults
       \/ Holds(w) /\ Fail
    /\ To(w, "failing")
    /\ UNCHANGED <<now, row, runs, works, up, edits>>

(* settle_interrupted_occurrences reads its occurrence, and closes it in a  *)
(* transaction of its own.                                                  *)
FindUnowned(w) ==
    /\ task[w].pc = "unowned"
    /\ LET t == task[w].sched
       IN  To(w, IF runs[t].status = "running" /\ works[t] = "none" THEN "close" ELSE "release")
    /\ UNCHANGED <<now, row, runs, works, up, edits, faults>>

CloseUnowned(w) ==
    /\ task[w].pc = "close"
    /\ FinishRun(task[w].sched, "uncertain")
    /\ To(w, "release")
    /\ UNCHANGED <<now, works, up, edits, faults>>

Release(w) ==
    /\ task[w].pc = "release"
    /\ row' = IF row.claim = w THEN [row EXCEPT !.claim = NoWorker, !.fresh = FALSE] ELSE row
    /\ task' = [task EXCEPT ![w] = Idle]
    /\ UNCHANGED <<now, runs, works, up, edits, faults>>

-----------------------------------------------------------------------------
(* Time, Works and faults *)

Tick ==
    /\ now < MaxTime
    /\ now' = now + 1
    /\ UNCHANGED <<row, runs, works, task, up, edits, faults>>

(* A holder that is alive renews in time unless something goes wrong. *)
Lapse ==
    /\ row.fresh /\ task[row.claim].pc # "idle" /\ Fail
    /\ row' = [row EXCEPT !.fresh = FALSE]
    /\ UNCHANGED <<now, runs, works, task, up, edits>>

Expire ==
    /\ row.fresh /\ task[row.claim].pc = "idle"
    /\ row' = [row EXCEPT !.fresh = FALSE]
    /\ UNCHANGED <<now, runs, works, task, up, edits, faults>>

WorkEnd(t, state) ==
    /\ works[t] = "live" /\ up = "up"
    /\ works' = [works EXCEPT ![t] = state]
    /\ UNCHANGED <<now, row, runs, task, up, edits, faults>>

Crash ==
    /\ up # "down" /\ Fail
    /\ up' = "down" /\ task' = [w \in Workers |-> Idle]
    /\ UNCHANGED <<now, row, runs, works, edits>>

Boot ==
    /\ up = "down" /\ up' = "starting"
    /\ UNCHANGED <<now, row, runs, works, task, edits, faults>>

(* start: every run without a Work is the previous process's. *)
StartSettle(t) ==
    /\ up = "starting" /\ t \in Running /\ works[t] = "none"
    /\ FinishRun(t, "uncertain")
    /\ UNCHANGED <<now, works, task, up, edits, faults>>

Start ==
    /\ up = "starting" /\ \A t \in Running : works[t] = "live"
    /\ up' = "up"
    /\ UNCHANGED <<now, row, runs, works, task, edits, faults>>

-----------------------------------------------------------------------------
Init ==
    /\ now = 0
    /\ row \in [status : {"active"}, next : {1}, schedule : Schedules, version : {1}, count : {0},
                max : Limits, claim : {NoWorker}, fresh : {FALSE}]
    /\ runs = [t \in Times |-> NoRun]
    /\ works = [t \in Times |-> "none"]
    /\ task = [w \in Workers |-> Idle]
    /\ up = "up" /\ edits = 0 /\ faults = 0

Owner ==
    \/ \E s \in Schedules, m \in Limits, set \in BOOLEAN : UpdateTask(s, m, set)
    \/ Pause \/ Resume \/ Cancel \/ RunNow

(* The steps of a task that are its own to take. *)
Step(w) ==
    \/ \E bound \in BOOLEAN : Bind(w, bound)
    \/ CreateRun(w) \/ Block(w) \/ LeaveSettled(w)
    \/ \E status \in {"succeeded", "failed"} : EndTurn(w, status)
    \/ FindUnowned(w) \/ CloseUnowned(w) \/ Release(w)

Recover == Boot \/ Start \/ \E t \in Times : StartSettle(t)

Next ==
    \/ Owner \/ Tick \/ Lapse \/ Expire \/ Crash \/ Recover
    \/ \E w \in Workers : Claim(w) \/ Step(w) \/ Busy(w) \/ AcceptWork(w) \/ Interrupt(w)
    \/ \E t \in Times : SettleWork(t) \/ \E state \in WorkEnds : WorkEnd(t, state)

Spec == Init /\ [][Next]_vars

(* The worker polls and its tasks step; the clock goes on; the scheduler    *)
(* settles in every cycle and brings Works to an end; a supervisor restarts *)
(* the process.  A conversation that is free again and again is found free. *)
Fairness ==
    /\ WF_vars(\E w \in Workers : Claim(w))
    /\ \A w \in Workers : WF_vars(Step(w)) /\ SF_vars(CreateRun(w))
    /\ \A t \in Times : WF_vars(SettleWork(t))
                        /\ WF_vars(\E state \in WorkEnds : WorkEnd(t, state))
    /\ WF_vars(Tick) /\ WF_vars(Recover) /\ WF_vars(Expire)

FairSpec == Spec /\ Fairness

-----------------------------------------------------------------------------
(* Properties *)

(* Types of the variables; a claim that is in time has a holder.            *)
TypeOK ==
    /\ now \in 0 .. MaxTime
    /\ row.status \in Statuses /\ row.next \in 0 .. MaxTime + 1 /\ row.schedule \in Schedules
    /\ row.version \in 1 .. MaxEdits + 1 /\ row.count \in 0 .. MaxTime /\ row.max \in Limits
    /\ row.claim \in Workers \cup {NoWorker} /\ row.fresh \in BOOLEAN
    /\ row.fresh => row.claim # NoWorker
    /\ \A t \in Times : /\ runs[t].status \in RunEnds \cup {"none", "running"}
                        /\ works[t] \in WorkEnds \cup {"none", "live"}
    /\ \A w \in Workers : task[w].sched \in 0 .. MaxTime
    /\ up \in {"down", "starting", "up"}

(* An active task is never stuck: finish_run and resume always leave it an  *)
(* occurrence that has not been settled, whatever the owner did meanwhile.  *)
ActiveIsScheduled == row.status = "active" => (row.next # 0 /\ row.next \notin Settled)

(* Each settled run is counted once, however many of the worker, the        *)
(* scheduler and the recovery tried to settle it.                           *)
CountsRuns == row.count = Cardinality(Settled)

(* The end of a run that had a Work is the end of that Work, unless it was  *)
(* written off as uncertain before.                                         *)
RunMatchesWork ==
    \A t \in Settled : (works[t] # "none" /\ runs[t].status # "uncertain")
                           => (works[t] \in WorkEnds /\ runs[t].status = RunEnd(works[t]))

(* A run is admitted under the definition and the limit in force then: no   *)
(* task starts an old version after update_task returned, and admitted runs *)
(* count although they are not settled.                                     *)
Admission ==
    \A t \in Times : (runs[t].status = "none" /\ runs'[t].status = "running") =>
        /\ row.status = "active" /\ runs'[t].version = row.version
        /\ row.max # 0 => row.count + Cardinality(Running) < row.max
AdmittedAsDefined == [][Admission]_vars

(* The owner's occurrence is not forgotten: a due active task gets its run, *)
(* or its owner or its limit changes it.                                    *)
DueStarts ==
    \A t \in Times :
        (row.status = "active" /\ row.next = t /\ now >= t)
            ~> (runs[t].status # "none" \/ row.next # t \/ row.status # "active")

(* A Work's end reaches the run that it belongs to. *)
WorkRunSettles == \A t \in Times : works[t] \in WorkEnds ~> t \in Settled

(* "Close unowned original occurrences": a run is written off as uncertain  *)
(* only when no live task is executing it.                                  *)
ClosedIsUnowned ==
    \A w \in Workers : task[w].pc = "executing" => runs[task[w].sched].status # "uncertain"

=============================================================================
