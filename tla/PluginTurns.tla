---------------------------- MODULE PluginTurns -----------------------------
(***************************************************************************)
(* A background turn of a plugin: the durable job that wakes the main      *)
(* agent for an external event (plugin_host/background_turns.py and the    *)
(* job half of notification_repository.py), the Work it admits, and the    *)
(* two executors that may run that Work: the job worker and the Work       *)
(* scheduler (resume_work).                                                *)
(*                                                                         *)
(* The Work is modelled by its state; its own life is the subject of       *)
(* WorkLifecycle.  One job worker per process takes one job at a time, so  *)
(* an attempt is owned while the row is in processing; attempts and        *)
(* max_attempts appear through their difference, the budget left.          *)
(***************************************************************************)
EXTENDS Integers

CONSTANTS
    MaxAttempts,  \* max_attempts of a new job
    MaxFaults,    \* exceptions of an attempt and process deaths
    MaxPauses,    \* waits, suspensions, interruptions and resumptions
    MaxChanges    \* revocation, a new generation, a later human message

TurnBounds ==
    /\ MaxAttempts \in Nat \ {0}
    /\ MaxFaults \in Nat /\ MaxPauses \in Nat /\ MaxChanges \in Nat

VARIABLES
    job,       \* plugin_background_turn_jobs: status, budget left, due, lease, bound
    work,      \* the state of the bound Work, "none" before its admission
    scope,     \* who holds the lease of the conversation
    worker,    \* where the job worker is, and the Work state it read
    resumer,   \* where the scheduler's resume of the Work is
    live,      \* authority, generation and source event of the job are current
    human,     \* a person wrote after the external event
    charged,   \* attempts that failed or were lost
    admitted,  \* Works admitted for the job
    faults, pauses, changes

vars == <<job, work, scope, worker, resumer, live, human, charged, admitted,
          faults, pauses, changes>>

WorkEnd == {"completed", "failed", "cancelled"}
Paused == {"waiting", "suspended"}
Open == {"pending", "processing"}

Init ==
    /\ job = [st |-> "pending", left |-> MaxAttempts, due |-> TRUE,
              lease |-> "none", bound |-> FALSE]
    /\ work = "none"
    /\ scope = "free"
    /\ worker = [at |-> "idle", seen |-> "none"]
    /\ resumer = "idle"
    /\ live = TRUE
    /\ human = FALSE
    /\ charged = 0 /\ admitted = 0
    /\ faults = 0 /\ pauses = 0 /\ changes = 0

Bounds == <<faults, pauses, changes>>

To(pc) == worker' = [worker EXCEPT !.at = pc]

Rest == worker' = [at |-> "idle", seen |-> "none"]

-----------------------------------------------------------------------------
(* The rules of the job row                                                *)

MutFenced == ~live \/ human

\* _turn_fence_category: a later message of a person only withdraws a job that
\* has no Work yet.
Fenced == ~live \/ (~job.bound /\ human)

\* _retire_turn with _close_linked_work: the job ends for good, and so does a
\* Work, now in state w, that is still open.
RetireTurn(st, workState, w) ==
    /\ job' = [job EXCEPT !.st = st, !.lease = "none"]
    /\ work' = IF job.bound /\ w \notin WorkEnd THEN workState ELSE w

\* Back to the queue; "kept" gives the attempt back (max_attempts + 1).
Requeue(kept, due, w) ==
    /\ job' = [job EXCEPT !.st = "pending", !.lease = "none", !.due = due,
                          !.left = IF kept THEN @ + 1 ELSE @]
    /\ work' = w

Owned == job.st = "processing"

\* fail_turn, at the end of an attempt that raised.
FailTurn(w) ==
    IF ~Owned THEN work' = w /\ UNCHANGED <<job, charged>>
    ELSE /\ charged' = charged + 1
         /\ IF job.left <= 0 THEN RetireTurn("failed", "failed", w)
                             ELSE Requeue(FALSE, FALSE, w)

\* defer_turn with preserve_budget.
DeferTurn(w) ==
    /\ IF Owned THEN Requeue(TRUE, FALSE, w) ELSE work' = w /\ UNCHANGED job
    /\ UNCHANGED charged

\* park_turn; only a bound Work reports that it paused.
ParkTurn ==
    /\ IF Owned THEN Requeue(TRUE, TRUE, work) ELSE UNCHANGED <<job, work>>
    /\ UNCHANGED charged

\* The status of a job after its Work.
EndOf == IF work = "completed" THEN "completed"
         ELSE IF work = "cancelled" THEN "cancelled" ELSE "failed"

-----------------------------------------------------------------------------
(* The job worker                                                          *)

\* _linked_work_ready
Ready ==
    \/ ~job.bound
    \/ work \in {"queued", "running"} /\ scope = "free"

\* The lease of an attempt ran out: its process is gone.
Expired == job.st = "processing" /\ job.lease = "past"

\* claim_turn, discovery and writer: an expired attempt is reconciled, a job
\* whose Work cannot go on stays parked and keeps its budget.
ClaimTurn ==
    /\ worker.at = "idle" /\ job.due
    /\ \/ /\ job.st = "pending" /\ Ready
          /\ UNCHANGED charged
       \/ /\ Expired
          /\ charged' = charged + 1
    /\ \/ /\ job.bound /\ work \in WorkEnd
          /\ job' = [job EXCEPT !.st = EndOf, !.lease = "none"]
          /\ UNCHANGED <<work, worker>>
       \/ /\ ~Ready /\ work \notin WorkEnd
          /\ job' = [job EXCEPT !.st = "pending", !.lease = "none"]
          /\ UNCHANGED <<work, worker>>
       \/ /\ Ready /\ Fenced
          /\ job' = [job EXCEPT !.st = "cancelled", !.lease = "none", !.left = @ - 1]
          /\ work' = IF job.bound THEN "cancelled" ELSE work
          /\ UNCHANGED worker
       \/ /\ Ready /\ ~Fenced
          /\ job' = [job EXCEPT !.st = "processing", !.lease = "live", !.left = @ - 1]
          /\ To("claimed")
          /\ UNCHANGED work
    /\ UNCHANGED <<scope, resumer, live, human, admitted, Bounds>>

MutReconcile ==
    /\ worker.at = "idle"
    /\ job.st = "processing" /\ job.bound /\ work \in WorkEnd
    /\ job' = [job EXCEPT !.st = EndOf, !.lease = "none"]
    /\ UNCHANGED <<work, scope, worker, resumer, live, human, charged, admitted,
                   Bounds>>

\* reconcile_terminal_turns, at the start and every 60 seconds.
Reconcile ==
    /\ worker.at = "idle"
    /\ job.st \in Open /\ job.bound /\ work \in WorkEnd
    /\ job' = [job EXCEPT !.st = EndOf, !.lease = "none"]
    /\ UNCHANGED <<work, scope, worker, resumer, live, human, charged, admitted,
                   Bounds>>

\* load_background_context and the turn token of the coordinator: the turn is
\* withdrawn, or waits for a conversation that is busy, or begins.
Begin ==
    /\ worker.at = "claimed"
    /\ \/ /\ ~Owned
          /\ Rest /\ UNCHANGED <<job, work, charged, pauses>>
       \/ /\ Owned /\ Fenced
          /\ RetireTurn("cancelled", "cancelled", work)
          /\ Rest /\ UNCHANGED <<charged, pauses>>
       \/ /\ Owned /\ ~Fenced
          /\ resumer # "idle" \/ pauses < MaxPauses
          /\ pauses' = IF resumer # "idle" THEN pauses ELSE pauses + 1
          /\ DeferTurn(work) /\ Rest
       \/ /\ Owned /\ ~Fenced /\ resumer = "idle"
          /\ To("begun") /\ UNCHANGED <<job, work, charged, pauses>>
    /\ UNCHANGED <<scope, resumer, live, human, admitted, faults, changes>>

MutAdmitUnbound ==
    /\ worker.at = "begun" /\ ~job.bound /\ scope = "free"
    /\ IF ~Owned \/ Fenced
       THEN /\ (IF Owned THEN RetireTurn("cancelled", "cancelled", work)
                         ELSE UNCHANGED <<job, work>>)
            /\ Rest /\ UNCHANGED <<scope, admitted>>
       ELSE /\ work' = "running" /\ admitted' = admitted + 1
            /\ scope' = "job" /\ To("running") /\ UNCHANGED job
    /\ UNCHANGED <<resumer, live, human, charged, Bounds>>

\* admit_background_turn_work: the first Work of the job is admitted and bound
\* in the writer that checks the attempt once more.
Admit ==
    /\ worker.at = "begun" /\ ~job.bound /\ scope = "free"
    /\ IF ~Owned \/ Fenced
       THEN /\ (IF Owned THEN RetireTurn("cancelled", "cancelled", work)
                         ELSE UNCHANGED <<job, work>>)
            /\ Rest /\ UNCHANGED <<scope, admitted>>
       ELSE /\ work' = "running" /\ admitted' = admitted + 1
            /\ job' = [job EXCEPT !.bound = TRUE]
            /\ scope' = "job" /\ To("running")
    /\ UNCHANGED <<resumer, live, human, charged, Bounds>>

\* _resume_bound_plugin_work: a Work that ended or paused since the claim is
\* only read; otherwise the same Work is activated again.
ResumeBound ==
    /\ worker.at = "begun" /\ job.bound
    /\ \/ /\ work \in Paused \cup WorkEnd
          /\ worker' = [at |-> "report", seen |-> work]
          /\ UNCHANGED <<work, scope>>
       \/ /\ work \in {"queued", "running"} /\ scope = "free"
          /\ work' = "running" /\ scope' = "job" /\ To("running")
    /\ UNCHANGED <<job, resumer, live, human, charged, admitted, Bounds>>

\* validate_turn_attempt before a model request: the attempt and its source are
\* checked and the lease renewed; a withdrawn job takes its Work with it.
Validate ==
    /\ worker.at = "running" /\ Owned
    /\ \/ /\ ~Fenced /\ job.lease = "past"
          /\ job' = [job EXCEPT !.lease = "live"]
          /\ UNCHANGED <<work, scope, worker>>
       \/ /\ Fenced
          /\ RetireTurn("cancelled", "cancelled", work)
          /\ scope' = "free" /\ Rest
    /\ UNCHANGED <<resumer, live, human, charged, admitted, Bounds>>

Outcome(s) ==
    /\ s \in WorkEnd \cup Paused \cup {"queued"}
    /\ s \in Paused \cup {"queued"} => pauses < MaxPauses
    /\ pauses' = IF s \in WorkEnd THEN pauses ELSE pauses + 1
    /\ work' = s

\* The activation settles its Work and gives the conversation back.  A Work the
\* owner cancelled meanwhile is no longer its own to settle.
Settle(s) ==
    /\ worker.at = "running"
    /\ IF work = "running" THEN Outcome(s) ELSE s = work /\ UNCHANGED <<work, pauses>>
    /\ scope' = "free" /\ To("settled")
    /\ UNCHANGED <<job, resumer, live, human, charged, admitted, faults, changes>>

\* The committed state of the Work is what the job worker goes by.
ReadResult ==
    /\ worker.at = "settled"
    /\ worker' = [at |-> "report", seen |-> work]
    /\ UNCHANGED <<job, work, scope, resumer, live, human, charged, admitted, Bounds>>

\* The end of _execute_reserved: the job waits for its Work, parks, is
\* abandoned or is finished.
Report ==
    /\ worker.at = "report"
    /\ \/ /\ worker.seen \in {"queued", "running"} /\ DeferTurn(work)
       \/ /\ worker.seen \in Paused /\ ParkTurn
       \/ /\ worker.seen \in WorkEnd \ {"completed"}
          /\ (IF Owned THEN RetireTurn("failed", "cancelled", work)
              ELSE UNCHANGED <<job, work>>)
          /\ UNCHANGED charged
       \/ /\ worker.seen = "completed"
          /\ (IF ~Owned THEN UNCHANGED <<job, work>>
              ELSE IF Fenced THEN RetireTurn("cancelled", "cancelled", work)
              ELSE job' = [job EXCEPT !.st = "completed", !.lease = "none"]
                   /\ UNCHANGED work)
          /\ UNCHANGED charged
    /\ Rest
    /\ UNCHANGED <<scope, resumer, live, human, admitted, Bounds>>

\* An attempt raises: before the Work runs (another turn holds the conversation),
\* or out of the running Work, which is then left to its recovery; or the turn
\* is interrupted by a newer one, which costs no attempt.
Raise(interrupted) ==
    /\ worker.at \in {"begun", "running"} /\ faults < MaxFaults
    /\ faults' = faults + 1
    /\ LET left == IF worker.at = "running" /\ work = "running" THEN "queued" ELSE work IN
       \/ interrupted /\ Owned /\ Fenced /\ UNCHANGED charged
          /\ RetireTurn("cancelled", "cancelled", left)
       \/ interrupted /\ ~(Owned /\ Fenced) /\ DeferTurn(left)
       \/ ~interrupted /\ FailTurn(left)
    /\ scope' = IF worker.at = "running" THEN "free" ELSE scope
    /\ Rest
    /\ UNCHANGED <<resumer, live, human, admitted, pauses, changes>>

-----------------------------------------------------------------------------
(* The Work outside its job                                                *)

\* resume_work by the Work scheduler: the queued Work is run under its own
\* ownership; a withdrawn source fails it.
ResumeWork ==
    /\ resumer = "idle" /\ worker.at \notin {"begun", "running", "settled", "report"}
    /\ work = "queued" /\ scope = "free" /\ job.bound
    /\ IF live THEN work' = "running" /\ scope' = "sched" /\ resumer' = "running"
               ELSE work' = "failed" /\ UNCHANGED <<scope, resumer>>
    /\ UNCHANGED <<job, worker, live, human, charged, admitted, Bounds>>

ResumeSettles(s) ==
    /\ resumer = "running"
    /\ IF work = "running" THEN Outcome(s) ELSE s = work /\ UNCHANGED <<work, pauses>>
    /\ scope' = "free" /\ resumer' = "idle"
    /\ UNCHANGED <<job, worker, live, human, charged, admitted, faults, changes>>

\* Orphan recovery: a running Work whose lease is lost.
RecoverOrphan ==
    /\ resumer = "idle" /\ work = "running" /\ scope = "free"
    /\ worker.at \notin {"begun", "running"}
    /\ work' \in {"queued", "suspended"}
    /\ UNCHANGED <<job, scope, worker, resumer, live, human, charged, admitted, Bounds>>

\* A signal, an answer or the owner's resume queues the Work; the owner may
\* also resume a Work that failed, or cancel one.
WorkWakes ==
    /\ pauses < MaxPauses
    /\ pauses' = pauses + 1
    /\ work \in Paused \cup {"failed"}
    /\ work' = "queued"
    /\ UNCHANGED <<job, scope, worker, resumer, live, human, charged, admitted,
                   faults, changes>>

WorkCancelled ==
    /\ changes < MaxChanges
    /\ changes' = changes + 1
    /\ work \in Paused \cup {"queued", "running"}
    /\ work' = "cancelled"
    /\ UNCHANGED <<job, scope, worker, resumer, live, human, charged, admitted,
                   faults, pauses>>

-----------------------------------------------------------------------------
(* The job's surroundings                                                  *)

\* revoke_target cancels the open job; the plugin is disabled, its approval or
\* the conversation's generation changes: the job is withdrawn at its next fence.
Withdraw(revoked) ==
    /\ live /\ changes < MaxChanges
    /\ changes' = changes + 1
    /\ live' = FALSE
    /\ job' = IF revoked /\ job.st \in Open
              THEN [job EXCEPT !.st = "cancelled", !.lease = "none"] ELSE job
    /\ UNCHANGED <<work, scope, worker, resumer, human, charged, admitted, faults,
                   pauses>>

HumanSpeaks ==
    /\ ~human /\ changes < MaxChanges
    /\ changes' = changes + 1
    /\ human' = TRUE
    /\ UNCHANGED <<job, work, scope, worker, resumer, live, charged, admitted,
                   faults, pauses>>

\* The clock.
BecomesDue ==
    /\ job.st = "pending" /\ ~job.due
    /\ job' = [job EXCEPT !.due = TRUE]
    /\ UNCHANGED <<work, scope, worker, resumer, live, human, charged, admitted,
                   Bounds>>

LeasePasses ==
    /\ job.lease = "live"
    /\ job' = [job EXCEPT !.lease = "past", !.due = TRUE]
    /\ UNCHANGED <<work, scope, worker, resumer, live, human, charged, admitted,
                   Bounds>>

ScopePasses ==
    /\ scope = "lost"
    /\ scope' = "free"
    /\ UNCHANGED <<job, work, worker, resumer, live, human, charged, admitted, Bounds>>

\* The process dies and starts again; the leases it held run out later.
Crash ==
    /\ faults < MaxFaults
    /\ faults' = faults + 1
    /\ worker.at # "idle" \/ resumer # "idle"
    /\ Rest /\ resumer' = "idle"
    /\ scope' = IF scope = "free" THEN "free" ELSE "lost"
    /\ UNCHANGED <<job, work, live, human, charged, admitted, pauses, changes>>

-----------------------------------------------------------------------------
SomeSettle == \E s \in WorkEnd \cup Paused \cup {"queued"} : Settle(s)

SomeResumeSettles == \E s \in WorkEnd \cup Paused \cup {"queued"} : ResumeSettles(s)

Next ==
    \/ ClaimTurn \/ Reconcile \/ Begin \/ Admit \/ ResumeBound \/ Validate
    \/ SomeSettle \/ ReadResult \/ Report
    \/ \E interrupted \in BOOLEAN : Raise(interrupted)
    \/ ResumeWork \/ SomeResumeSettles \/ RecoverOrphan \/ WorkWakes \/ WorkCancelled
    \/ \E revoked \in BOOLEAN : Withdraw(revoked)
    \/ HumanSpeaks \/ BecomesDue \/ LeasePasses \/ ScopePasses \/ Crash

\* The loops of the job worker and of the scheduler run, running turns end, the
\* clock advances.  Nothing is assumed of people and signals.
Fairness ==
    /\ WF_vars(ClaimTurn) /\ WF_vars(Reconcile) /\ WF_vars(Begin) /\ WF_vars(Report)
    /\ WF_vars(Admit) /\ WF_vars(ResumeBound) /\ WF_vars(SomeSettle) /\ WF_vars(ReadResult)
    /\ WF_vars(SomeResumeSettles) /\ WF_vars(RecoverOrphan)
    /\ WF_vars(BecomesDue) /\ WF_vars(LeasePasses) /\ WF_vars(ScopePasses)

Spec == Init /\ [][Next]_vars

FairSpec == Spec /\ Fairness

-----------------------------------------------------------------------------
(* Properties                                                              *)

\* The types of the state; a lease goes with processing, a Work with a bound
\* job, and only an executor holds the conversation for it.
TypeOK ==
    /\ job.st \in Open \cup WorkEnd
    /\ (job.lease # "none") = (job.st = "processing")
    /\ job.left \in -(MaxFaults + 1) .. MaxAttempts
    /\ work \in {"none", "queued", "running"} \cup Paused \cup WorkEnd
    /\ job.bound = (work # "none")
    /\ scope = "job" => worker.at = "running"
    /\ scope = "sched" => resumer = "running"

\* One external event buys one Work: through failed attempts, crashes and
\* redeliveries the job admits at most one, and the two executors never run it
\* at the same time.
OneWork ==
    /\ admitted <= 1
    /\ ~(worker.at = "running" /\ resumer = "running")

\* A completed job is one whose Work completed: the job worker goes by what the
\* Work committed, not by having come to the end of a turn.
CompletedWithWork == job.st = "completed" => work = "completed"

\* The budget counts failures: waiting for an answer, a busy conversation, an
\* interruption and a parked Work cost no attempt; an attempt is spent exactly
\* by an error, a loss or the run in progress.
BudgetIsCharged ==
    job.st \in Open =>
        job.left = MaxAttempts - charged - (IF job.st = "processing" THEN 1 ELSE 0)

\* A job that ends otherwise than by the revocation of its target takes its open
\* Work along: no step retires the job and leaves its Work to run unowned.
Retirement ==
    (job.st \in Open /\ job'.st \notin Open /\ live' = live)
        => work' \in WorkEnd \cup {"none"}
RetiresWithWork == [][Retirement]_vars

\* An admitted Work is not withdrawn because a person speaks: new input goes to
\* its mailbox.  Only lost authority, its owner or its own failure ends it.
Withdrawal ==
    (work = "waiting" /\ work' = "cancelled") => (~live \/ changes' # changes)
SpeechKeepsWork == [][Withdrawal]_vars

\* A job whose Work ended is closed, whoever ran the Work to its end, unless the
\* owner starts the Work again.
JobFollowsWork ==
    (job.st \in Open /\ work \in WorkEnd) ~> (job.st \notin Open \/ work \notin WorkEnd)

\* An event is acted upon or withdrawn: a job does not stay without a Work.
JobIsServed == (job.st \in Open /\ ~job.bound) ~> (job.bound \/ job.st \notin Open)
=============================================================================
