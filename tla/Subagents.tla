------------------------------ MODULE Subagents ------------------------------
(***************************************************************************)
(* Workers: the child Works of one parent (runtime_subagents joined with   *)
(* their rows of runtime_work), the scheduler and the executor that run    *)
(* them, the results they post to the parent's mailbox, and the            *)
(* maintenance pass that repairs a result a crash kept back.  Sources:     *)
(* runtime/subagent_repository.py, subagent_scheduler.py,                  *)
(* subagent_tools.py, services/subagent_execution.py, and the parts of     *)
(* work_management.py, work_activation.py and work_repository.py they      *)
(* call.                                                                   *)
(*                                                                         *)
(* One action is one SQLite transaction, or one read a later transaction   *)
(* uses.  One process runs at a time, so a child has at most one executor; *)
(* its lease may be lost under it all the same.  Revisions count the       *)
(* commits that change a state; the saves of a running activation are      *)
(* left out.  Nested workers are left out.                                 *)
(***************************************************************************)
EXTENDS Naturals, Sequences, FiniteSets

CONSTANTS
    Child,           \* child Works the parent may start
    MaxConcurrency,  \* executors of the scheduler
    MaxCommands,     \* messages, resumes, stops, questions and wake-ups
    MaxFaults        \* crashes, failed cleanups and stalls past a lease

SubagentsAssumption ==
    /\ IsFiniteSet(Child)
    /\ MaxConcurrency \in Nat \ {0}
    /\ MaxCommands \in Nat /\ MaxFaults \in Nat

VARIABLES
    child,    \* the child's Work row and its row of runtime_subagents
    exec,     \* the executor of each child and the lease it was given
    phase,    \* what a pass of maintain does next
    page,     \* what maintain has read of the missed results
    reports,  \* worker-result inputs of the parent, per child, in order
    parent,   \* state, an active wait, a question pending, ended a week ago
    current,  \* the conversation still has the generation of these Works
    left,     \* commands left
    faults    \* faults so far

vars == <<child, exec, phase, page, reports, parent, current, left, faults>>

-----------------------------------------------------------------------------
Terminal == {"completed", "failed", "cancelled"}
Waiting  == {"waiting_user", "waiting_external"}
State    == {"absent", "queued", "running", "suspended"} \cup Waiting \cup Terminal

(* _RESULT_STATES *)
ResultStates == Terminal \cup {"suspended", "waiting_user"}

NewChild == [state |-> "absent", rev |-> 0, owner |-> 0, fence |-> 0, live |-> FALSE,
             epoch |-> 0, notified |-> 0, result |-> "none", archived |-> FALSE, msg |-> FALSE]

Idle == [pc |-> "idle", fence |-> 0, epoch |-> 0, rev |-> 0, read |-> "none",
         first |-> FALSE]

Init ==
    /\ child = [c \in Child |-> NewChild]
    /\ exec = [c \in Child |-> Idle]
    /\ phase = "repair"
    /\ page = [c \in Child |-> [rev |-> 0, read |-> "none"]]
    /\ reports = [c \in Child |-> <<>>]
    /\ parent = [state |-> "running", wait |-> FALSE, asked |-> FALSE, old |-> FALSE]
    /\ current = TRUE
    /\ left = MaxCommands
    /\ faults = 0

-----------------------------------------------------------------------------
Enter(k, s) == [k EXCEPT !.state = s, !.rev = @ + 1]

(* stop_owned_execution: what it does to the runtime_subagents row and the *)
(* mailbox of a Work of the stopped tree, the stopped Work included.       *)
Revoke(k) == [k EXCEPT !.owner = 0, !.live = FALSE, !.epoch = @ + 1, !.msg = FALSE]

(* What the end of its parent, or of the conversation, does to a child.    *)
Stopped(k) ==
    CASE k.state = "absent"    -> k
      [] k.state \in Terminal -> Revoke(k)
      [] OTHER                 -> Enter(Revoke(k), "cancelled")

(* _fence: the lease an executor was given is still the child's lease.     *)
Valid(c) ==
    /\ exec[c].epoch = child[c].epoch
    /\ exec[c].fence = child[c].fence
    /\ exec[c].fence = child[c].owner
    /\ child[c].live
    /\ ~child[c].archived
    /\ current

(* A notice wakes a parent that waits without an active wait.              *)
Notice(p) == IF p.state = "waiting_external" /\ ~p.wait
             THEN [p EXCEPT !.state = "queued"] ELSE p

Reported(c, r) == \E i \in DOMAIN reports[c] : reports[c][i].rev = r

(* insert ... on conflict do nothing, with the key worker-result:id:rev;   *)
(* of the receipt's state only a cancellation is told apart.               *)
Posted(c, r, s) ==
    IF Reported(c, r) THEN reports[c] ELSE Append(reports[c], [rev |-> r, cancelled |-> s = "cancelled"])

Command == left > 0 /\ left' = left - 1
Fault   == faults < MaxFaults /\ faults' = faults + 1

-----------------------------------------------------------------------------
(* The parent and whoever else may manage a child of this conversation.    *)

(* subagent_start under the parent's activation.  A replay of the same     *)
(* call returns the child its key names and changes nothing.               *)
Start(c) ==
    /\ current /\ parent.state = "running"
    /\ child[c].state = "absent"
    /\ child' = [child EXCEPT ![c].state = "queued", ![c].rev = 1]
    /\ UNCHANGED <<exec, phase, page, reports, parent, current, left, faults>>

(* message to a child: any child that is not running is queued again, a    *)
(* finished one too, but never a cancelled one.                            *)
Message(c) ==
    /\ Command
    /\ current /\ ~child[c].archived
    /\ child[c].state \notin {"absent", "cancelled"}
    /\ child' = [child EXCEPT ![c] =
                    [(IF child[c].state = "running" THEN child[c]
                      ELSE Enter(child[c], "queued")) EXCEPT !.msg = TRUE]]
    /\ UNCHANGED <<exec, phase, page, reports, parent, current, faults>>

(* resume without an instruction *)
Resume(c) ==
    /\ Command
    /\ current /\ ~child[c].archived
    /\ child[c].state \notin {"absent", "cancelled", "running"}
    /\ child' = [child EXCEPT ![c] = Enter(child[c], "queued")]
    /\ UNCHANGED <<exec, phase, page, reports, parent, current, faults>>

(* manage_work cancel or fail of one child, by the operator or by the      *)
(* cancel of subagent_control: the stop is posted by the same transaction. *)
Stop(c, s) ==
    /\ Command
    /\ child[c].state \notin Terminal \cup {"absent"}
    /\ child' = [child EXCEPT ![c] = Enter(Revoke(child[c]), s)]
    /\ reports' = [reports EXCEPT ![c] = Posted(c, child[c].rev + 1, s)]
    /\ parent' = Notice(parent)
    /\ UNCHANGED <<exec, phase, page, current, faults>>

(* manage_work resume of a child nobody executes *)
OperatorResume(c) ==
    /\ Command
    /\ current /\ ~child[c].archived
    /\ child[c].state \in {"suspended", "failed"} \cup Waiting
    /\ ~(child[c].owner # 0 /\ child[c].live)
    /\ child' = [child EXCEPT ![c] = Enter(child[c], "queued")]
    /\ UNCHANGED <<exec, phase, page, reports, parent, current, faults>>

(* a wait or a sandbox run of the child ends *)
Event(c) ==
    /\ Command
    /\ child[c].state = "waiting_external"
    /\ child' = [child EXCEPT ![c] = Enter(child[c], "queued")]
    /\ UNCHANGED <<exec, phase, page, reports, parent, current, faults>>

-----------------------------------------------------------------------------
(* The parent's own life, as far as its children meet it.                  *)

ParentRuns ==
    /\ parent.state = "queued" /\ current
    /\ parent' = [parent EXCEPT !.state = "running"]
    /\ UNCHANGED <<child, exec, phase, page, reports, current, left, faults>>

ParentReads ==
    /\ parent.state = "running" /\ parent.asked
    /\ parent' = [parent EXCEPT !.asked = FALSE]
    /\ UNCHANGED <<child, exec, phase, page, reports, current, left, faults>>

(* a child of the parent is being executed (_owned_execution_clause)       *)
Draining == \E c \in Child : /\ child[c].owner # 0 /\ child[c].live
                             /\ child[c].state \notin Terminal \cup {"absent"}

(* commit_state of the parent: a pending question is business input and    *)
(* keeps it from ending or waiting; running children keep it from          *)
(* completing; a failure or a cancellation stops the tree.                 *)
ParentSettles(s, w) ==
    LET deferred == parent.asked /\ s \in {"completed", "failed"} \cup Waiting
        to == IF deferred THEN "queued"
              ELSE IF s = "completed" /\ Draining THEN "waiting_external" ELSE s
        stops == to \in {"failed", "cancelled"}
    IN  /\ parent.state = "running"
        /\ w => s = "waiting_external"
        /\ parent' = [state |-> to, wait |-> w /\ to = "waiting_external",
                      asked |-> parent.asked /\ ~stops, old |-> FALSE]
        /\ child' = IF stops THEN [c \in Child |-> Stopped(child[c])] ELSE child
        /\ UNCHANGED <<exec, phase, page, reports, current, faults>>
        /\ Command

(* the parent's wait is delivered, a user answers, an operator resumes it; *)
(* never a Work of an old generation (resume_blocker)                      *)
ParentWakes ==
    /\ Command /\ current
    /\ parent.state \in Waiting \cup {"suspended", "failed"}
    /\ parent' = [parent EXCEPT !.state = "queued", !.wait = FALSE, !.old = FALSE]
    /\ UNCHANGED <<child, exec, phase, page, reports, current, faults>>

(* bump_canonical_generation: the conversation's generation moves on, and  *)
(* cancel_in_session, in the same transaction, stops every Work of it and  *)
(* withdraws what its mailboxes hold.  Executors learn of it later.        *)
Reset ==
    /\ Fault
    /\ current /\ current' = FALSE
    /\ child' = [c \in Child |-> Stopped(child[c])]
    /\ parent' = IF parent.state \in Terminal THEN [parent EXCEPT !.asked = FALSE]
                 ELSE [state |-> "cancelled", wait |-> FALSE, asked |-> FALSE, old |-> FALSE]
    /\ UNCHANGED <<exec, phase, page, reports, left>>

-----------------------------------------------------------------------------
(* The scheduler and the executor.                                         *)

Running == {c \in Child : exec[c].pc # "idle"}

(* one pass of the loop picks a child that is ready and not yet running *)
Select(c) ==
    /\ exec[c].pc = "idle"
    /\ Cardinality(Running) < MaxConcurrency
    /\ child[c].state \in {"queued", "running"} /\ ~child[c].archived
    /\ exec' = [exec EXCEPT ![c].pc = "picked"]
    /\ UNCHANGED <<child, phase, page, reports, parent, current, left, faults>>

(* acquire: a child that settled meanwhile or whose lease still runs is    *)
(* left alone.  It would cancel one of an old generation, its revision     *)
(* kept, but a reset leaves none that is ready.                            *)
Acquire(c) ==
    /\ exec[c].pc = "picked"
    /\ \/ /\ child[c].state \in {"queued", "running"} /\ current
          /\ ~child[c].live /\ ~child[c].archived
          /\ child' = [child EXCEPT ![c].state = "running", ![c].live = TRUE,
                                    ![c].fence = @ + 1, ![c].owner = child[c].fence + 1]
          /\ exec' = [exec EXCEPT ![c] = [Idle EXCEPT !.pc = "active",
                         !.fence = child[c].fence + 1, !.epoch = child[c].epoch,
                         !.rev = child[c].rev, !.first = child[c].msg]]
       \/ /\ \/ child[c].state \notin {"queued", "running"}
             \/ ~current \/ child[c].live \/ child[c].archived
          /\ exec' = [exec EXCEPT ![c] = Idle]
          /\ child' = IF child[c].state \in {"queued", "running"} /\ ~current
                      THEN [child EXCEPT ![c].state = "cancelled"] ELSE child
    /\ UNCHANGED <<phase, page, reports, parent, current, left, faults>>

(* the activation takes the messages of its mailbox into a request; what   *)
(* it found there at its start it takes before it can end (first).         *)
Take(c) ==
    /\ exec[c].pc = "active" /\ Valid(c) /\ child[c].msg
    /\ child' = [child EXCEPT ![c].msg = FALSE]
    /\ exec' = [exec EXCEPT ![c].first = FALSE]
    /\ UNCHANGED <<phase, page, reports, parent, current, left, faults>>

(* message to the parent with ask: a question is business input of the     *)
(* parent, which it reaches past any active wait.                          *)
Ask(c) ==
    /\ Command
    /\ exec[c].pc = "active" /\ Valid(c)
    /\ parent' = IF parent.state \in Waiting
                 THEN [parent EXCEPT !.state = "queued", !.wait = FALSE, !.asked = TRUE]
                 ELSE [parent EXCEPT !.asked = TRUE]
    /\ UNCHANGED <<child, exec, phase, page, reports, current, faults>>

(* message to the parent without ask: progress, an auxiliary notice *)
Tell(c) ==
    /\ Command
    /\ exec[c].pc = "active" /\ Valid(c)
    /\ parent' = Notice(parent)
    /\ UNCHANGED <<child, exec, phase, page, reports, current, faults>>

(* commit_state of a child: a message that arrived requeues it instead; a  *)
(* failure or a cancellation withdraws the child's own lease as well.      *)
Land(k, s) ==
    IF k.msg /\ s \in {"completed", "failed"} \cup Waiting THEN Enter(k, "queued")
    ELSE IF s \in {"failed", "cancelled"} THEN Enter(Revoke(k), s)
    ELSE Enter(k, s)

(* settle: the row must have the revision the activation knows *)
Settle(c, s) ==
    /\ exec[c].pc = "active" /\ Valid(c) /\ ~exec[c].first
    /\ child[c].state \notin Terminal
    /\ child[c].rev = exec[c].rev
    /\ child' = [child EXCEPT ![c] = Land(child[c], s)]
    /\ exec' = [exec EXCEPT ![c].pc = "settled"]
    /\ IF s = "queued" THEN Command ELSE UNCHANGED left
    /\ UNCHANGED <<phase, page, reports, parent, current, faults>>

(* recover_failure: a retry or a segment queues the child again, a budget  *)
(* suspends it, anything else fails it; no revision is asked for.          *)
Recover(c, s) ==
    /\ Fault
    /\ exec[c].pc = "active" /\ Valid(c)
    /\ child[c].state \notin Terminal
    /\ child' = [child EXCEPT ![c] = Land(child[c], s)]
    /\ exec' = [exec EXCEPT ![c].pc = "settled"]
    /\ UNCHANGED <<phase, page, reports, parent, current, left>>

(* bind_work_activation: no settlement and no finish under a lost lease *)
Abandon(c) ==
    /\ exec[c].pc \in {"active", "settled"} /\ ~Valid(c)
    /\ exec' = [exec EXCEPT ![c].pc = "release"]
    /\ UNCHANGED <<child, phase, page, reports, parent, current, left, faults>>

(* finish, the read: the result is prepared outside the writer *)
ReadResult(c) ==
    /\ exec[c].pc = "settled" /\ Valid(c)
    /\ exec' = [exec EXCEPT ![c].pc = "prepared", ![c].rev = child[c].rev,
                            ![c].read = child[c].state]
    /\ UNCHANGED <<child, phase, page, reports, parent, current, left, faults>>

(* the statement of _result_publication, for the executor and for maintain *)
Unchanged(c, r) == child[c].rev = r.rev /\ child[c].state = r.read

(* Mutant: the executor publishes what it has read, whatever happened since. *)
FinishUnfenced(c) == current

FinishOK(c) == Valid(c) /\ Unchanged(c, exec[c])
RepairOK(c) ==
    /\ ~child[c].live /\ ~child[c].archived /\ current
    /\ child[c].notified < page[c].rev
    /\ Unchanged(c, page[c])

(* finish, the write: published, read again when the row changed, given up *)
(* when the lease is gone.                                                 *)
Publish(c) ==
    /\ exec[c].pc = "prepared"
    /\ \/ /\ FinishOK(c)
          /\ child' = [child EXCEPT ![c].result = exec[c].read, ![c].notified = exec[c].rev]
          /\ exec' = [exec EXCEPT ![c].pc = "release"]
          /\ \/ /\ exec[c].read \in ResultStates
                /\ reports' = [reports EXCEPT ![c] = Posted(c, exec[c].rev, exec[c].read)]
                /\ parent' = Notice(parent)
             \/ /\ exec[c].read \notin ResultStates
                /\ UNCHANGED <<reports, parent>>
       \/ /\ ~FinishOK(c)
          /\ exec' = [exec EXCEPT ![c].pc = IF Valid(c) THEN "settled" ELSE "release"]
          /\ UNCHANGED <<child, reports, parent>>
    /\ UNCHANGED <<phase, page, current, left, faults>>

(* release; the task leaves the scheduler's table *)
Release(c) ==
    /\ exec[c].pc = "release"
    /\ child' = IF Valid(c) THEN [child EXCEPT ![c].owner = 0, ![c].live = FALSE] ELSE child
    /\ exec' = [exec EXCEPT ![c] = Idle]
    /\ UNCHANGED <<phase, page, reports, parent, current, left, faults>>

(* settlement, finish or release meets a database error and is deferred *)
CleanupFails(c) ==
    /\ Fault
    /\ \/ /\ exec[c].pc \in {"active", "settled", "prepared"}
          /\ exec' = [exec EXCEPT ![c].pc = "release"]
       \/ /\ exec[c].pc = "release"
          /\ exec' = [exec EXCEPT ![c] = Idle]
    /\ UNCHANGED <<child, phase, page, reports, parent, current, left>>

(* the process dies and starts again *)
Crash ==
    /\ Fault
    /\ exec' = [c \in Child |-> Idle]
    /\ phase' = "repair"
    /\ page' = [c \in Child |-> [rev |-> 0, read |-> "none"]]
    /\ UNCHANGED <<child, reports, parent, current, left>>

(* a lease nobody renews runs out; under a live executor that is a stall *)
Expire(c) ==
    /\ child[c].live /\ exec[c].pc \in {"idle", "picked"}
    /\ child' = [child EXCEPT ![c].live = FALSE]
    /\ UNCHANGED <<exec, phase, page, reports, parent, current, left, faults>>

Stall(c) ==
    /\ Fault
    /\ child[c].live /\ exec[c].pc \notin {"idle", "picked"}
    /\ child' = [child EXCEPT ![c].live = FALSE]
    /\ UNCHANGED <<exec, phase, page, reports, parent, current, left>>

-----------------------------------------------------------------------------
(* maintain, called by every pass of the loop.                             *)

(* Mutant: only an execution that left its owner behind is repaired. *)
MissedByOwner(c) ==
    /\ ~child[c].archived /\ ~child[c].live /\ current
    /\ child[c].owner # 0
    /\ child[c].state \in ResultStates
    /\ child[c].notified < child[c].rev

(* _missed_results *)
Missed(c) ==
    /\ ~child[c].archived /\ ~child[c].live /\ current
    /\ child[c].state \in ResultStates
    /\ child[c].notified < child[c].rev

NoPage == \A c \in Child : page[c].rev = 0

ReadMissed ==
    /\ phase = "repair" /\ NoPage
    /\ page' = [c \in Child |-> IF Missed(c)
                                THEN [rev |-> child[c].rev, read |-> child[c].state]
                                ELSE [rev |-> 0, read |-> "none"]]
    /\ phase' = IF \E c \in Child : Missed(c) THEN "repair" ELSE "archive"
    /\ UNCHANGED <<child, exec, reports, parent, current, left, faults>>

(* one transaction publishes the page; what changed is read again *)
Repair ==
    LET ok == {c \in Child : page[c].rev # 0 /\ RepairOK(c)}
    IN  /\ ~NoPage
        /\ child' = [c \in Child |-> IF c \in ok
                        THEN [child[c] EXCEPT !.result = page[c].read, !.owner = 0,
                                              !.notified = page[c].rev]
                        ELSE child[c]]
        /\ reports' = [c \in Child |-> IF c \in ok THEN Posted(c, page[c].rev, page[c].read)
                                       ELSE reports[c]]
        /\ parent' = IF ok # {} THEN Notice(parent) ELSE parent
        /\ page' = [c \in Child |-> [rev |-> 0, read |-> "none"]]
        /\ UNCHANGED <<exec, phase, current, left, faults>>

(* seven days after the end of the root, in which many passes are made *)
WeekPasses ==
    /\ parent.state \in Terminal /\ ~parent.old
    /\ phase = "repair" /\ NoPage
    /\ \A c \in Child : ~Missed(c) /\ child[c].state # "queued"
    /\ parent' = [parent EXCEPT !.old = TRUE]
    /\ UNCHANGED <<child, exec, phase, page, reports, current, left, faults>>

(* the second half of the pass: when the whole tree has ended, and its     *)
(* root a week ago, the children without a lease are archived.             *)
Due == {c \in Child : child[c].state \in Terminal /\ ~child[c].archived /\ ~child[c].live}

Archive ==
    /\ phase = "archive" /\ phase' = "repair"
    /\ LET ended == \A c \in Child : child[c].state \in Terminal \cup {"absent"}
       IN  child' = [c \in Child |-> IF parent.old /\ ended /\ c \in Due
                          THEN [child[c] EXCEPT !.archived = TRUE, !.owner = 0, !.msg = FALSE]
                          ELSE child[c]]
    /\ UNCHANGED <<exec, page, reports, parent, current, left, faults>>

-----------------------------------------------------------------------------
SettleTo  == State \ {"absent", "running"}
RecoverTo == {"queued", "suspended", "failed"}
ParentTo  == State \ {"absent", "running"}

Next ==
    \/ \E c \in Child :
        \/ Start(c) \/ Message(c) \/ Resume(c) \/ OperatorResume(c) \/ Event(c)
        \/ \E s \in {"cancelled", "failed"} : Stop(c, s)
        \/ Select(c) \/ Acquire(c) \/ Take(c) \/ Ask(c) \/ Tell(c)
        \/ \E s \in SettleTo : Settle(c, s)
        \/ \E s \in RecoverTo : Recover(c, s)
        \/ Abandon(c) \/ ReadResult(c) \/ Publish(c) \/ Release(c)
        \/ CleanupFails(c) \/ Expire(c) \/ Stall(c)
    \/ ParentRuns \/ ParentReads \/ ParentWakes
    \/ \E s \in ParentTo, w \in BOOLEAN : ParentSettles(s, w)
    \/ Reset \/ Crash \/ ReadMissed \/ Repair \/ WeekPasses \/ Archive

Spec == Init /\ [][Next]_vars

(* The loop never stops, so every pass is made; a turn ends, by a          *)
(* settlement or a failure; a lease nobody renews runs out.                *)
Fairness ==
    /\ WF_vars(ReadMissed) /\ WF_vars(Repair) /\ WF_vars(Archive)
    /\ \A c \in Child :
        /\ SF_vars(Select(c)) /\ WF_vars(Acquire(c)) /\ WF_vars(Expire(c))
        /\ WF_vars(\E s \in SettleTo : Settle(c, s))
        /\ WF_vars(Take(c)) /\ WF_vars(Abandon(c)) /\ WF_vars(ReadResult(c))
        /\ WF_vars(Publish(c)) /\ WF_vars(Release(c))

LiveSpec == Spec /\ Fairness

-----------------------------------------------------------------------------
(* A revision is never ahead of the row it was read from, and no more      *)
(* children execute than the scheduler allows.                             *)
TypeOK ==
    /\ \A c \in Child :
        /\ child[c].state \in State
        /\ child[c].notified \in 0 .. child[c].rev
        /\ child[c].owner \in {0, child[c].fence}
        /\ child[c].result \in State \cup {"none"}
        /\ {child[c].live, child[c].archived, child[c].msg} \subseteq BOOLEAN
        /\ exec[c].pc \in {"idle", "picked", "active", "settled", "prepared", "release"}
        /\ exec[c].fence \in 0 .. child[c].fence /\ exec[c].epoch \in 0 .. child[c].epoch
        /\ page[c].rev \in 0 .. child[c].rev
        /\ \A i \in DOMAIN reports[c] :
            reports[c][i].rev \in 1 .. child[c].rev /\ reports[c][i].cancelled \in BOOLEAN
    /\ Cardinality(Running) <= MaxConcurrency
    /\ parent.state \in State \ {"absent"}
    /\ parent.wait => parent.state = "waiting_external"
    /\ phase \in {"repair", "archive"}
    /\ left \in 0 .. MaxCommands /\ faults \in 0 .. MaxFaults

(* The parent reads the results of a child in the order they were          *)
(* committed, each revision once, however the executor's own finish, the   *)
(* repair of maintain and an operator's stop interleave.                   *)
ReportsInOrder ==
    \A c \in Child : \A i, j \in DOMAIN reports[c] :
        i < j => reports[c][i].rev < reports[c][j].rev

(* related shows a result together with the checkpoint of the row when     *)
(* notified_revision is the row's revision: the row is then still in the   *)
(* state the result names, never in the one a resume has led to.           *)
ResultDescribesRow ==
    \A c \in Child :
        (child[c].notified = child[c].rev /\ child[c].result \in ResultStates) =>
            child[c].state = child[c].result

(* A message a child has not taken yet keeps it queued or running: it is   *)
(* never left on a child that ended or waits, whether the message came     *)
(* before, during or after the settlement.  Only a pause (suspended) may   *)
(* keep it back.                                                           *)
MessageKeepsChild ==
    \A c \in Child :
        current /\ child[c].msg => child[c].state \in {"queued", "running", "suspended"}

(* A child's question reaches a parent that waits, an active wait or not,  *)
(* and a parent that is about to wait or to end: the parent never waits    *)
(* while a question of its child is unread.                                *)
QuestionReachesParent == parent.asked => parent.state \notin Waiting

(* Only a child that runs is settled by an execution.  An activation that  *)
(* lost its child, to a stop, an expired lease or a resume after it,       *)
(* commits nothing: a queued child only starts to run, or is stopped by a  *)
(* stop that posts itself or by the end of its parent or conversation.     *)
Settlement ==
    \A c \in Child :
        child[c].state # "running" /\ child'[c].state # child[c].state =>
            \/ child'[c].state \in {"queued", "running", "cancelled"}
            \/ child'[c].state = "failed" /\ reports'[c] # reports[c]
OnlyRunnersSettle == [][Settlement]_vars

(* A cancelled child and an archived one stay so, whatever is sent to them *)
(* or was still executing, and the only result a cancelled child can still *)
(* post is its cancellation.                                               *)
Finality ==
    \A c \in Child :
        /\ child[c].state = "cancelled" =>
             /\ child'[c].state = "cancelled"
             /\ reports'[c] # reports[c] =>
                    reports'[c][Len(reports'[c])].cancelled
        /\ child[c].archived =>
             /\ child'[c].archived /\ child'[c].state = child[c].state
             /\ reports'[c] = reports[c]
EndIsFinal == [][Finality]_vars

(* Every result a child settles on reaches its parent's mailbox, through a *)
(* crash or a lost lease between the settlement and the notice, unless the *)
(* child has moved on, the conversation was reset or the child archived.   *)
Unreported(c) ==
    /\ child[c].state \in ResultStates /\ ~Reported(c, child[c].rev)
    /\ current /\ ~child[c].archived
ResultIsReported ==
    \A c \in Child : Unreported(c) ~> ~Unreported(c)

(* A child that is queued, or was running when its executor died, is       *)
(* executed until it settles.                                              *)
ChildSettles ==
    \A c \in Child :
        child[c].state \in {"queued", "running"} ~> child[c].state \notin {"queued", "running"}
==============================================================================
