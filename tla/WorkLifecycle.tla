---------------------------- MODULE WorkLifecycle ----------------------------
(***************************************************************************)
(* The life of one Work: its row of runtime_work, its mailbox              *)
(* (runtime_work_inputs), its waits (runtime_work_waits), one sandbox run  *)
(* it owns, and the activation that holds the conversation's lease.        *)
(* Sources: runtime/work_repository.py, work_supervisor.py,                *)
(* work_control.py, work_wait.py, work_management.py,                      *)
(* services/turn_execution.py and services/work_resume.py.                 *)
(*                                                                         *)
(* One action is one SQLite transaction, or one read whose result a later  *)
(* transaction uses.  That only the lease holder writes is WorkLease's     *)
(* result; here an activation that loses its lease simply disappears, and  *)
(* a revision is a flag: the activation's copy of the row is current.      *)
(***************************************************************************)
EXTENDS Naturals

CONSTANTS
    MaxInputs,  \* inputs the mailbox receives
    MaxWaits,   \* waits the Work registers
    MaxRuns,    \* 0 or 1: whether the Work starts a sandbox run
    MaxFaults   \* activations that fail or die

ASSUME LifecycleAssumption ==
    MaxInputs \in Nat /\ MaxWaits \in Nat /\ MaxRuns \in Nat /\ MaxFaults \in Nat

VARIABLES
    work,       \* state and reason of the row
    accepted,   \* $.accepted_control of its checkpoint
    inbox,      \* the Work's inputs, by id
    last,       \* the last input id given out
    handed,     \* $.handoff_work_id of the checkpoint, until a journal names it
    waits,      \* status of each wait binding
    run,        \* the sandbox run and its continuation receipt
    ingress,    \* what a chat handler knows of the active binding
    pc,         \* where the activation is; "none" when nobody holds the lease
    mine,       \* accepted_control in the activation's copy of the row
    fresh,      \* that copy has the row's revision
    ending,     \* how the activation's loop ended
    pend,       \* the settlement's read of the mailbox
    target,     \* the state the settlement is about to commit
    faults      \* failures so far

local == <<mine, fresh, ending, pend, target>>

vars == <<work, accepted, handed, inbox, last, waits, run, ingress, pc, local, faults>>

-----------------------------------------------------------------------------
Terminal == {"completed", "failed", "cancelled"}
Waiting  == {"waiting_user", "waiting_external"}
State    == {"queued", "running", "suspended"} \cup Waiting \cup Terminal

(* work_input_preparing, work_owned_execution_pending, a pause settled     *)
(* without any decision, and every other reason.                           *)
Why == {"preparing", "draining", "paused", "other"}

Row(s, y) == [state |-> s, why |-> y]

Input == 1 .. MaxInputs
Wait  == 1 .. MaxWaits

(* A message is business input; completions and wait signals are not.      *)
Item(k, w, r, s) == [kind |-> k, wait |-> w, ready |-> r, st |-> s]
Items == [kind : {"message", "completion", "signal"}, wait : 0 .. MaxWaits,
          ready : BOOLEAN, st : {"absent", "pending", "staged", "consumed", "cancelled"}]
Absent == Item("completion", 0, TRUE, "absent")

Decision(a, w) == [action |-> a, wait |-> w]
Undecided == Decision("none", 0)
Decisions == [action : {"none", "complete", "need_input", "fail", "cancel", "wait"},
              wait : 0 .. MaxWaits]

(* ACCEPTED_ENDINGS *)
Ending(a) ==
    CASE a = "complete"   -> "completed"
      [] a = "fail"       -> "failed"
      [] a = "cancel"     -> "cancelled"
      [] a = "need_input" -> "waiting_user"
      [] OTHER            -> "waiting_external"

-----------------------------------------------------------------------------
(* Reading the mailbox and the waits *)

Queue    == {i \in Input : inbox[i].st \in {"pending", "staged"}}
Business == {i \in Queue : inbox[i].kind = "message"}
Pending  == {i \in Input : inbox[i].st = "pending"}

(* ORDER BY id LIMIT 1: the oldest of these inputs is prepared. *)
HeadReady(S) == \E i \in S : inbox[i].ready /\ \A j \in S : i <= j

Active == {w \in Wait : waits[w] = "active"}

(* _owned_execution_clause *)
Owned == run = "waiting"

Waits(d) == d.action = "wait" /\ d.wait \in Wait

(* The accepted wait was delivered and its signal is still in the mailbox. *)
SignalHeld ==
    /\ Waits(accepted) /\ waits[accepted.wait] = "delivered"
    /\ \E i \in Queue : inbox[i].kind = "signal" /\ inbox[i].wait = accepted.wait /\ inbox[i].ready

Marked(i, s) == Item(inbox[i].kind, inbox[i].wait, inbox[i].ready, s)

Withdrawn == [i \in Input |-> IF i \in Queue THEN Marked(i, "cancelled") ELSE inbox[i]]

NoneActive == [w \in Wait |-> IF waits[w] = "active" THEN "cancelled" ELSE waits[w]]

Insert(item) ==
    /\ last < MaxInputs
    /\ last' = last + 1
    /\ inbox' = [inbox EXCEPT ![last + 1] = item]

-----------------------------------------------------------------------------
(* commit_state: the single state writer *)

Mailbox(y) == IF y = "preparing" THEN Queue ELSE Business

Arrived(s, y) == s \in {"completed", "failed"} \cup Waiting /\ Mailbox(y) # {}

(* Mutant: a failure is final whatever is in the mailbox. *)
SettledFailed(s, y) ==
    IF s = "failed" THEN Row(s, y)
    ELSE IF Arrived(s, y)
      THEN IF HeadReady(Mailbox(y)) THEN Row("queued", "other")
           ELSE Row("waiting_external", "preparing")
    ELSE IF s = "waiting_external" /\ y = "preparing" THEN Row("queued", "other")
    ELSE Row(s, y)

(* Mutant: any prepared input counts, not the oldest one. *)
SettledAnyReady(s, y) ==
    IF Arrived(s, y)
      THEN IF \A i \in Mailbox(y) : inbox[i].ready THEN Row("queued", "other")
           ELSE Row("waiting_external", "other")
    ELSE IF s = "waiting_external" /\ y = "preparing" THEN Row("queued", "other")
    ELSE Row(s, y)

(* New input takes over any ending but a cancellation. *)
Settled(s, y) ==
    IF Arrived(s, y)
      THEN IF HeadReady(Mailbox(y)) THEN Row("queued", "other")
           ELSE Row("waiting_external", "preparing")
    ELSE IF s = "waiting_external" /\ y = "preparing" THEN Row("queued", "other")
    ELSE Row(s, y)

(* Mutant: completion does not look at owned execution. *)
OutcomeNotDrained(s, y) ==
    LET f == Settled(s, y)
    IN  IF f.state = "waiting_external" /\ ~Arrived(s, y) /\ SignalHeld
          THEN Row("queued", "other") ELSE f

(* Owned execution defers completion; a delivered wait requeues. *)
Outcome(s, y) ==
    LET f == Settled(s, y)
    IN  IF f.state = "completed" /\ Owned THEN Row("waiting_external", "draining")
        ELSE IF f.state = "waiting_external" /\ ~Arrived(s, y) /\ SignalHeld
          THEN Row("queued", "other")
        ELSE f

(* Mutant: a wait stays the decision of a waiting Work once it is accepted. *)
KeepsAnyWait(f, arrived, segment) ==
    \/ f.state = "running"
    \/ f.why \in {"draining", "preparing"}
    \/ f.state = "queued" /\ segment
    \/ f.state = "waiting_external" /\ ~arrived /\ Waits(accepted)

(* Whether the accepted decision outlives this commit. *)
Keeps(f, arrived, segment) ==
    \/ f.state = "running"
    \/ f.why \in {"draining", "preparing"}
    \/ f.state = "queued" /\ segment
    \/ /\ f.state = "waiting_external" /\ ~arrived
       /\ Waits(accepted) /\ waits[accepted.wait] = "active"

CommitState(s, y, segment) ==
    /\ work' = Outcome(s, y)
    /\ accepted' = IF Keeps(Outcome(s, y), Arrived(s, y), segment) THEN accepted ELSE Undecided
    /\ inbox' = IF Outcome(s, y).state \in {"failed", "cancelled"} THEN Withdrawn ELSE inbox
    /\ waits' = IF Outcome(s, y).state \in Terminal THEN NoneActive ELSE waits

-----------------------------------------------------------------------------
(* Ingress: work inputs by other callers *)

(* stage_work_input reads the active binding, then enqueues unprepared.    *)
SeeBinding ==
    /\ ingress = "idle" /\ pc \notin {"none", "orphan"} /\ last < MaxInputs
    /\ ingress' = "bound"
    /\ UNCHANGED <<handed, work, accepted, inbox, last, waits, run, pc, local, faults>>

StageMessage ==
    /\ ingress = "bound"
    /\ Insert(Item("message", 0, FALSE, "pending"))
    /\ ingress' = "idle"
    /\ UNCHANGED <<handed, work, accepted, waits, run, pc, local, faults>>

(* match_user_reply: a reply to a Work that asked its user. *)
StageReply ==
    /\ work.state = "waiting_user"
    /\ Insert(Item("message", 0, FALSE, "pending"))
    /\ UNCHANGED <<handed, work, accepted, waits, run, ingress, pc, local, faults>>

(* A client's prepared input to a queued or running Work. *)
ClientInput ==
    /\ work.state \in {"queued", "running"}
    /\ Insert(Item("message", 0, TRUE, "pending"))
    /\ UNCHANGED <<handed, work, accepted, waits, run, ingress, pc, local, faults>>

(* enqueue(resume=...): an input that queues the Work, under the lease.    *)
ResumeWithInput ==
    /\ pc = "none" /\ work.state \notin {"completed", "cancelled"}
    /\ Insert(Item("message", 0, TRUE, "pending"))
    /\ work' = Row("queued", "other")
    /\ accepted' = Undecided
    /\ waits' = NoneActive
    /\ UNCHANGED <<handed, run, ingress, pc, local, faults>>

(* Another writer changed the revision under the activation's copy. *)
Stale == fresh' = FALSE

Unprepared(i) == inbox[i].st = "pending" /\ ~inbox[i].ready

Woken(states) == IF work.state \in states THEN Row("queued", "other") ELSE work

(* prepare_input, by the handler or by the next process's repair. *)
PrepareInput(i) ==
    /\ Unprepared(i) /\ work.state \notin Terminal
    /\ inbox' = [inbox EXCEPT ![i] = Item(inbox[i].kind, inbox[i].wait, TRUE, "pending")]
    /\ work' = Woken(Waiting)
    /\ UNCHANGED <<handed, accepted, last, waits, run, ingress, pc, local, faults>>

(* Mutant: the Work parked behind a dropped input is not requeued. *)
DiscardInputSilently(i) ==
    /\ Unprepared(i)
    /\ inbox' = [inbox EXCEPT ![i] = Marked(i, "cancelled")]
    /\ UNCHANGED <<handed, work, accepted, last, waits, run, ingress, pc, local, faults>>

(* discard_input: only a Work parked for an unprepared input is requeued.  *)
DiscardInput(i) ==
    /\ Unprepared(i)
    /\ inbox' = [inbox EXCEPT ![i] = Marked(i, "cancelled")]
    /\ work' = IF work.why = "preparing" THEN Woken({"waiting_external"}) ELSE work
    /\ UNCHANGED <<handed, accepted, last, waits, run, ingress, pc, local, faults>>

-----------------------------------------------------------------------------
(* Signals, runs and management *)

(* _deliver, for a wait that matched or expired. *)
Deliver(w) ==
    /\ waits[w] = "active" /\ work.state \notin Terminal
    /\ waits' = [waits EXCEPT ![w] = "delivered"]
    /\ Insert(Item("signal", w, TRUE, "pending"))
    /\ work' = Woken(Waiting)
    /\ UNCHANGED <<handed, accepted, run, ingress, pc, local, faults>>

(* _deliver, for a wait whose Work is over. *)
Invalidate(w) ==
    /\ waits[w] = "active" /\ work.state \in Terminal
    /\ waits' = [waits EXCEPT ![w] = "invalidated"]
    /\ UNCHANGED <<handed, work, accepted, inbox, last, run, ingress, pc, local, faults>>

(* receive: the run's completion is recorded.  Its continuation receipt is  *)
(* ready, or blocked for good when the run was cancelled.                   *)
FinishRun ==
    /\ run = "waiting"
    /\ run' \in {"done", "cancelled"}
    /\ UNCHANGED <<handed, work, accepted, inbox, last, waits, ingress, pc, local, faults>>

(* Mutant: a notice is enough, whatever the Work is waiting for. *)
RouteCompletionQuietly ==
    /\ run = "done" /\ work.state \notin Terminal
    /\ run' = "routed"
    /\ Insert(Item("completion", 0, TRUE, "pending"))
    /\ UNCHANGED <<handed, work, accepted, waits, ingress, pc, local, faults>>

(* route_child_completion: only a Work waiting without a wait is woken.    *)
RouteCompletion ==
    /\ run = "done" /\ work.state \notin Terminal
    /\ run' = "routed"
    /\ Insert(Item("completion", 0, TRUE, "pending"))
    /\ work' = IF work.state = "waiting_external" /\ Active = {}
                THEN Row("queued", work.why) ELSE work
    /\ UNCHANGED <<handed, accepted, waits, ingress, pc, local, faults>>

(* The receipt of a run whose Work is over is blocked. *)
BlockCompletion ==
    /\ run = "done" /\ work.state \in Terminal
    /\ run' = "routed"
    /\ UNCHANGED <<handed, work, accepted, inbox, last, waits, ingress, pc, local, faults>>

(* manage_work cancel or fail: revokes the tree, not the root's lease.     *)
ManageStop(s) ==
    /\ s \in {"cancelled", "failed"} /\ work.state \notin Terminal
    /\ work' = Row(s, "other")
    /\ accepted' = Undecided
    /\ inbox' = Withdrawn
    /\ waits' = NoneActive
    /\ Stale
    /\ UNCHANGED <<handed, last, run, ingress, pc, mine, ending, pend, target, faults>>

(* manage_work resume *)
ManageResume ==
    /\ work.state \in {"suspended", "failed"} \cup Waiting
    /\ work' = Row("queued", "other")
    /\ accepted' = Undecided
    /\ waits' = NoneActive
    /\ Stale
    /\ UNCHANGED <<handed, inbox, last, run, ingress, pc, mine, ending, pend, target, faults>>

(* No activation holds the lease any more. *)
Gone ==
    /\ pc' = "none"
    /\ mine' = Undecided /\ fresh' = FALSE /\ ending' = "none" /\ pend' = FALSE
    /\ target' = "queued"

(* cancel_in_session: the lease goes too; waits stay for Invalidate.       *)
HardBoundary ==
    /\ work.state \notin Terminal
    /\ work' = Row("cancelled", "other")
    /\ accepted' = Undecided
    /\ inbox' = Withdrawn
    /\ Gone
    /\ UNCHANGED <<handed, last, waits, run, ingress, faults>>

-----------------------------------------------------------------------------
(* An activation: activate_work, the turn loop, settlement *)

(* Everything but the control point of an activation. *)
Elsewhere == <<work, accepted, handed, inbox, last, waits, run, ingress, faults>>

Activate ==
    /\ pc = "none" /\ work.state = "queued"
    /\ work' = Row("running", "other")
    /\ pc' = "restore" /\ mine' = accepted /\ fresh' = TRUE
    /\ UNCHANGED <<accepted, handed, inbox, last, waits, run, ingress, ending, pend, target, faults>>

Staged == {i \in Input : inbox[i].st = "staged"}

(* recovered_inputs, S being the staged inputs in the saved transcript,     *)
(* and restore_handoff.                                                     *)
Restore(S) ==
    /\ pc = "restore" /\ S \subseteq Staged
    /\ inbox' = [i \in Input |-> IF i \in S THEN Marked(i, "consumed")
                                 ELSE IF i \in Staged THEN Marked(i, "pending") ELSE inbox[i]]
    /\ ending' = IF handed THEN "handoff" ELSE "none"
    /\ pc' = "start"
    /\ UNCHANGED <<work, accepted, handed, last, waits, run, ingress, mine, fresh, pend, target, faults>>

Writable == work.state \notin Terminal

(* set_accepted_control: the row it returns is the activation's new copy.  *)
SetAccepted(d) ==
    /\ Writable
    /\ accepted' = d /\ mine' = d /\ fresh' = TRUE

Fulfilled == Waits(mine) /\ waits[mine.wait] = "delivered"

(* retire_fulfilled_wait *)
RetireFulfilled ==
    IF Fulfilled THEN SetAccepted(Undecided) ELSE UNCHANGED <<accepted, mine, fresh>>

StartRetire ==
    /\ pc = "start" /\ RetireFulfilled /\ pc' = "admit"
    /\ UNCHANGED <<work, handed, inbox, last, waits, run, ingress, ending, pend, target, faults>>

Superseded == HeadReady(Pending) /\ Business # {} /\ mine # Undecided

(* New input retires a decision taken over from an earlier activation.      *)
StartAdmit ==
    /\ pc = "admit"
    /\ IF Superseded THEN SetAccepted(Undecided) ELSE UNCHANGED <<accepted, mine, fresh>>
    /\ pc' = "begin"
    /\ UNCHANGED <<work, handed, inbox, last, waits, run, ingress, ending, pend, target, faults>>

Ended == mine # Undecided \/ ending = "handoff"

(* A decision or a handoff already taken ends the turn without a request.   *)
Begin ==
    /\ pc = "begin"
    /\ pc' = IF Ended THEN "closing" ELSE "loop"
    /\ handed' = IF Ended THEN FALSE ELSE handed
    /\ UNCHANGED <<work, accepted, inbox, last, waits, run, ingress, local, faults>>

(* take_inputs when the oldest pending input is not prepared. *)
InputsPreparing ==
    /\ pc = "loop" /\ Pending # {} /\ ~HeadReady(Pending)
    /\ ending' = "preparing" /\ pc' = "closing"
    /\ UNCHANGED <<Elsewhere, mine, fresh, pend, target>>

(* A batch: the oldest pending inputs, up to an unprepared one. *)
Batch(S) ==
    /\ S \subseteq Pending /\ (Pending # {} => S # {})
    /\ \A i \in S : inbox[i].ready /\ \A j \in Pending : j <= i => j \in S

(* take_inputs; business input also retires the decision (nothing does at   *)
(* this point: the loop runs only undecided).                               *)
TakeInputs(S) ==
    /\ pc = "loop" /\ Batch(S)
    /\ inbox' = [i \in Input |-> IF i \in S THEN Marked(i, "staged") ELSE inbox[i]]
    /\ pc' = "staged"
    /\ UNCHANGED <<work, accepted, handed, last, waits, run, ingress, local, faults>>

(* confirm_inputs, once the model's response is persisted: the inputs of    *)
(* this attempt are the only staged ones, since Restore left none.          *)
Respond ==
    /\ pc = "staged"
    /\ inbox' = [i \in Input |-> IF i \in Staged THEN Marked(i, "consumed") ELSE inbox[i]]
    /\ pc' = "tools"
    /\ UNCHANGED <<work, accepted, handed, last, waits, run, ingress, local, faults>>

-----------------------------------------------------------------------------
(* What the tools of one response do to the Work *)

Accept(a) ==
    /\ pc = "tools" /\ SetAccepted(Decision(a, 0))
    /\ UNCHANGED <<work, handed, inbox, last, waits, run, ingress, pc, ending, pend, target, faults>>

(* register: the binding and the decision commit together. *)
RegisterWait(w) ==
    /\ pc = "tools" /\ waits[w] = "none" /\ SetAccepted(Decision("wait", w))
    /\ waits' = [v \in Wait |-> IF v = w THEN "active" ELSE NoneActive[v]]
    /\ UNCHANGED <<work, handed, inbox, last, run, ingress, pc, ending, pend, target, faults>>

(* cancel_wait; the decision is retired by a second transaction. *)
CancelWait ==
    /\ pc = "tools" /\ Active # {}
    /\ waits' = NoneActive
    /\ pc' = "retiring"
    /\ UNCHANGED <<work, accepted, handed, inbox, last, run, ingress, local, faults>>

(* update(goal): transition to running under the row's revision. *)
UpdateGoal ==
    /\ pc = "tools" /\ fresh /\ Writable
    /\ work' = Row("running", "other")
    /\ waits' = NoneActive
    /\ pc' = "retiring"
    /\ UNCHANGED <<accepted, handed, inbox, last, run, ingress, local, faults>>

(* retire_accepted, the second half of both. *)
Retire ==
    /\ pc = "retiring"
    /\ IF mine = Undecided THEN UNCHANGED <<accepted, mine, fresh>> ELSE SetAccepted(Undecided)
    /\ pc' = "tools"
    /\ UNCHANGED <<work, handed, inbox, last, waits, run, ingress, ending, pend, target, faults>>

(* _queue_work: the new Work and the mark on this one commit together. *)
Handoff ==
    /\ pc = "tools" /\ ending = "none" /\ Writable
    /\ handed' = TRUE /\ ending' = "handoff"
    /\ UNCHANGED <<work, accepted, inbox, last, waits, run, ingress, pc, mine, fresh, pend, target, faults>>

(* prepare: a tool starts a sandbox run that may outlive the call. *)
StartRun ==
    /\ pc = "tools" /\ run = "none" /\ MaxRuns > 0 /\ Writable
    /\ run' = "waiting"
    /\ UNCHANGED <<work, accepted, handed, inbox, last, waits, ingress, pc, local, faults>>

(* confirm_child_completion: the tool result already showed the outcome.    *)
ConfirmCompletion ==
    /\ pc = "tools" /\ run \in {"done", "routed"}
    /\ run' = "routed"
    /\ inbox' = [i \in Input |-> IF i \in Pending /\ inbox[i].kind = "completion"
                                 THEN Marked(i, "cancelled") ELSE inbox[i]]
    /\ UNCHANGED <<work, accepted, handed, last, waits, ingress, pc, local, faults>>

(* A program's segment or the activation's request budget is used up. *)
YieldSegment ==
    /\ pc = "tools"
    /\ ending' = "segment" /\ pc' = "closing"
    /\ UNCHANGED <<Elsewhere, mine, fresh, pend, target>>

(* finish_tool_turn, after the batch is saved as paired. *)
EndBatch ==
    /\ pc = "tools"
    /\ pc' = IF Ended THEN "closing" ELSE "loop"
    /\ handed' = FALSE
    /\ UNCHANGED <<work, accepted, inbox, last, waits, run, ingress, local, faults>>

-----------------------------------------------------------------------------
(* Settlement *)

Close ==
    /\ pc = "closing"
    /\ pend' = (Pending # {}) /\ pc' = "settling"
    /\ UNCHANGED <<Elsewhere, mine, fresh, ending, target>>

SettleRetire ==
    /\ pc = "settling" /\ RetireFulfilled
    /\ pend' = IF Fulfilled THEN Pending # {} ELSE pend
    /\ pc' = "choosing"
    /\ UNCHANGED <<work, handed, inbox, last, waits, run, ingress, ending, target, faults>>

Background == IF Owned THEN "waiting_external" ELSE "suspended"

Choice ==
    IF mine.action \in {"fail", "cancel"} THEN Ending(mine.action)
    ELSE IF ending = "segment" THEN "queued"
    ELSE IF ending = "handoff" THEN IF pend THEN "queued" ELSE Background
    ELSE IF mine # Undecided THEN Ending(mine.action)
    ELSE IF pend THEN IF HeadReady(Pending) THEN "queued" ELSE "waiting_external"
    ELSE IF ending = "preparing" THEN "waiting_external"
    ELSE Background

Choose ==
    /\ pc = "choosing"
    /\ target' = Choice /\ pc' = "committing"
    /\ UNCHANGED <<Elsewhere, mine, fresh, ending, pend>>

Reason ==
    IF ending = "preparing" /\ mine = Undecided THEN "preparing"
    ELSE IF target = "suspended" THEN "paused" ELSE "other"

(* Mutant: the settlement does not check that its copy is current. *)
SettleCommitUnchecked ==
    /\ pc = "committing"
    /\ CommitState(target, Reason, ending = "segment" /\ target = "queued")
    /\ pc' = "release"
    /\ UNCHANGED <<handed, last, run, ingress, local, faults>>

(* The settlement's transition; a conflict defers to the next activation.   *)
SettleCommit ==
    /\ pc = "committing"
    /\ IF fresh /\ Writable
         THEN CommitState(target, Reason, ending = "segment" /\ target = "queued")
         ELSE UNCHANGED <<work, accepted, inbox, waits>>
    /\ pc' = "release"
    /\ UNCHANGED <<handed, last, run, ingress, local, faults>>

Release ==
    /\ pc = "release" /\ Gone
    /\ UNCHANGED Elsewhere

-----------------------------------------------------------------------------
(* Failures, crashes and the recovery of an abandoned Work *)

InTurn == {"restore", "start", "admit", "begin", "loop", "staged", "tools", "retiring"}

(* A conflict with a Work that is over costs no fault of the budget.        *)
Fail ==
    /\ pc \in InTurn
    /\ Writable => faults < MaxFaults
    /\ faults' = IF Writable THEN faults + 1 ELSE faults
    /\ pc' = "failing"
    /\ UNCHANGED <<work, accepted, handed, inbox, last, waits, run, ingress, local>>

FailureState(kind) ==
    CASE kind = "budget" -> "suspended" [] kind = "failed" -> "failed" [] OTHER -> "queued"

(* recover_failure: the accepted decision survives the failure. *)
Overrides(kind) ==
    /\ accepted # Undecided
    /\ kind = "segment" => Ending(accepted.action) \in {"failed", "cancelled"}

Recovered(kind) == IF Overrides(kind) THEN Ending(accepted.action) ELSE FailureState(kind)

FailCommit(kind) ==
    /\ pc = "failing"
    /\ IF Writable
         THEN CommitState(Recovered(kind), "other", kind = "segment" /\ ~Overrides(kind))
         ELSE UNCHANGED <<work, accepted, inbox, waits>>
    /\ pc' = "release"
    /\ UNCHANGED <<handed, last, run, ingress, local, faults>>

(* The recovery itself fails: the Work stays running without an owner. *)
FailDeferred ==
    /\ pc = "failing" /\ pc' = "release"
    /\ UNCHANGED <<Elsewhere, local>>

Crash ==
    /\ pc # "none" /\ faults < MaxFaults
    /\ faults' = faults + 1
    /\ Gone
    /\ UNCHANGED <<work, accepted, handed, inbox, last, waits, run, ingress>>

(* resume: the scheduler selects a running Work whose lease is gone. *)
Adopt ==
    /\ pc = "none" /\ work.state = "running"
    /\ pc' = "orphan" /\ mine' = accepted /\ fresh' = TRUE
    /\ UNCHANGED <<Elsewhere, ending, pend, target>>

(* A request was in flight: its response is lost and the Work failed.       *)
AdoptDispatched ==
    /\ pc = "orphan"
    /\ IF Writable THEN CommitState(Recovered("failed"), "other", FALSE)
       ELSE UNCHANGED <<work, accepted, inbox, waits>>
    /\ pc' = "release"
    /\ UNCHANGED <<handed, last, run, ingress, local, faults>>

(* has_pending_business_inputs *)
AdoptRead ==
    /\ pc = "orphan"
    /\ pc' = IF Business = {} THEN "interrupted" ELSE "adopting"
    /\ UNCHANGED <<Elsewhere, local>>

(* New input continues the interrupted Work. *)
AdoptCommit ==
    /\ pc = "adopting"
    /\ IF fresh /\ Writable THEN CommitState("waiting_external", "other", FALSE)
       ELSE UNCHANGED <<work, accepted, inbox, waits>>
    /\ pc' = "release"
    /\ UNCHANGED <<handed, last, run, ingress, local, faults>>

(* recover_failure with a deferred failure: refused once anything changed.  *)
InterruptedCommit ==
    /\ pc = "interrupted"
    /\ IF fresh /\ work.state = "running" /\ Business \cap Pending = {}
         THEN CommitState(Recovered("failed"), "other", FALSE)
         ELSE UNCHANGED <<work, accepted, inbox, waits>>
    /\ pc' = "release"
    /\ UNCHANGED <<handed, last, run, ingress, local, faults>>

-----------------------------------------------------------------------------
Init ==
    /\ work = Row("queued", "other") /\ accepted = Undecided /\ handed = FALSE
    /\ inbox = [i \in Input |-> Absent] /\ last = 0
    /\ waits = [w \in Wait |-> "none"] /\ run = "none"
    /\ ingress = "idle" /\ faults = 0
    /\ pc = "none" /\ mine = Undecided /\ fresh = FALSE
    /\ ending = "none" /\ pend = FALSE /\ target = "queued"

Mail ==
    \/ SeeBinding \/ StageMessage \/ StageReply \/ ClientInput \/ ResumeWithInput
    \/ \E i \in Input : PrepareInput(i) \/ DiscardInput(i)

Outside ==
    \/ \E w \in Wait : Deliver(w) \/ Invalidate(w)
    \/ FinishRun \/ RouteCompletion \/ BlockCompletion
    \/ ManageStop("cancelled") \/ ManageStop("failed") \/ ManageResume \/ HardBoundary

Tools ==
    \/ \E a \in {"complete", "need_input", "fail", "cancel"} : Accept(a)
    \/ \E w \in Wait : RegisterWait(w)
    \/ CancelWait \/ UpdateGoal \/ Handoff \/ StartRun \/ ConfirmCompletion

Turn ==
    \/ Activate \/ \E S \in SUBSET Input : Restore(S)
    \/ StartRetire \/ StartAdmit \/ Begin
    \/ InputsPreparing \/ \E S \in SUBSET Input : TakeInputs(S)
    \/ Respond \/ Retire \/ YieldSegment \/ EndBatch

Settle == Close \/ SettleRetire \/ Choose \/ SettleCommit \/ Release

Recover ==
    \/ \E kind \in {"retry", "segment", "budget", "failed"} : FailCommit(kind)
    \/ FailDeferred
    \/ Adopt \/ AdoptDispatched \/ AdoptRead \/ AdoptCommit \/ InterruptedCommit

Next == Mail \/ Outside \/ Tools \/ Turn \/ Settle \/ Recover \/ Fail \/ Crash

Spec == Init /\ [][Next]_vars

(* A live process keeps running the activation it holds and schedules the   *)
(* Work it finds runnable; a response holds finitely many tool calls; the   *)
(* handler of an unprepared input, or the next process's repair, either     *)
(* prepares or drops it.                                                    *)
Fairness ==
    /\ WF_vars(Turn \/ Settle \/ Recover)
    /\ SF_vars(YieldSegment \/ EndBatch)
    /\ \A i \in Input : WF_vars(PrepareInput(i) \/ DiscardInput(i))

LiveSpec == Spec /\ Fairness

-----------------------------------------------------------------------------
Points == {"none", "closing", "settling", "choosing", "committing", "release", "failing",
           "orphan", "adopting", "interrupted"} \cup InTurn

(* The types of the rows, and the inputs are dense in arrival order. *)
TypeOK ==
    /\ work \in [state : State, why : Why]
    /\ accepted \in Decisions /\ mine \in Decisions
    /\ handed \in BOOLEAN /\ fresh \in BOOLEAN /\ pend \in BOOLEAN
    /\ inbox \in [Input -> Items]
    /\ last \in 0 .. MaxInputs
    /\ \A i \in Input : inbox[i].st = "absent" <=> i > last
    /\ waits \in [Wait -> {"none", "active", "delivered", "cancelled", "invalidated"}]
    /\ run \in {"none", "waiting", "done", "cancelled", "routed"}
    /\ ingress \in {"idle", "bound"}
    /\ pc \in Points
    /\ ending \in {"none", "preparing", "segment", "handoff"}
    /\ target \in State
    /\ faults \in 0 .. MaxFaults

(* Admitted input keeps a live owner: a Work that waits is not waiting in   *)
(* front of a prepared input, and one that is over holds none.              *)
InputOwned ==
    /\ work.state \in Waiting => ~HeadReady(Business)
    /\ work.state \in Terminal => \A i \in Business : ~inbox[i].ready

(* A settled Work still committed to a wait is committed to a live one, so  *)
(* the decision ends with the wait that took it.                            *)
WaitDecisionLive ==
    work.state = "waiting_external" /\ work.why # "preparing" /\ Waits(accepted)
        => waits[accepted.wait] = "active"

(* A failure is no answer: recovering or settling one never withdraws a      *)
(* message the Work had admitted; only the operator's stop does.            *)
FailureKeepsInput ==
    [][\A i \in Business :
         work'.state = "failed" /\ inbox'[i].st = "cancelled" => pc' = pc]_vars

Finishes == work.state # "completed" /\ work'.state = "completed"

(* A Work completes by its own decision only, with nothing left to answer   *)
(* and nothing it started still running.                                    *)
CompletesClean ==
    [][Finishes => accepted.action = "complete" /\ Business = {} /\ ~Owned]_vars

(* What was cancelled or completed never comes back, and what failed comes  *)
(* back only by an operator or an explicit input, undecided and queued.     *)
OverIsOver ==
    [][/\ work.state \in {"completed", "cancelled"} => work'.state = work.state
       /\ work.state = "failed" /\ work' # work
            => work' = Row("queued", "other") /\ accepted' = Undecided]_vars

(* A Work that decided to complete and only drains what it started is woken  *)
(* by that completion, unless a wait left over from an earlier decision is   *)
(* still active: then it is parked behind that wait and nothing else.  The   *)
(* completion of a cancelled run wakes nobody: its receipt is blocked.       *)
DrainedBehindWait ==
    work.state = "waiting_external" /\ work.why = "draining" /\ ~Owned
        => run \in {"done", "cancelled"} \/ Active # {}

(* Documented: every wait has a real source of wakeup: an active wait, owned *)
(* execution or its unrouted completion, or an input still being prepared.   *)
(* A cancelled run, whose receipt is not meant to wake, is not counted here. *)
WaitHasSource ==
    work.state = "waiting_external" =>
        Active # {} \/ run \in {"waiting", "done", "cancelled"} \/ \E i \in Pending : ~inbox[i].ready

(* Documented: preparation and settlement are serialised, and whichever comes *)
(* first the Work is queued; so no settlement suspends it in front of input.  *)
SettledBeforeInput ==
    [][work'.state = "suspended" /\ work'.why = "paused" /\ work' # work
         => ~HeadReady(Business)]_vars

(* A prepared message is shown to the model, unless the Work is stopped or  *)
(* left suspended.                                                          *)
InputServed ==
    \A i \in Input :
        (inbox[i].kind = "message" /\ inbox[i].ready /\ inbox[i].st = "pending")
            ~> (inbox[i].st \in {"consumed", "cancelled"} \/ work.state = "suspended")
=============================================================================
