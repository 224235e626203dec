--------------------------- MODULE SocialSendProofs ---------------------------
(***************************************************************************)
(* Proofs about SocialSend for any callers, any number of parts and calls, *)
(* any route and any number of faults: type correctness, SentOnce,         *)
(* ReceiptIsTrue, PartsInOrder, LedgerIsConfirmed and DeliveryAgrees; and  *)
(* OrderIsKept, for executions of the call that do not overlap.            *)
(*                                                                         *)
(* What makes them inductive is the claim.  RunInv says where a task may   *)
(* be, TaskInv what the rows say while a task is there: between its claim  *)
(* and its settlement the row is executing, no other task has it, and the  *)
(* count of gateway calls is the one its position tells.  PlanInv says     *)
(* that no part has begun before the plan of a sequence is frozen.         *)
(***************************************************************************)
EXTENDS SocialSend, TLAPS

Busy == {"dispatch", "unentered", "reached", "settle", "repair"}
Loop == {"open", "claim"} \cup Busy
Pc   == {"idle", "prepare", "stop", "begin", "select", "check", "close", "done"} \cup Loop

Run == [pc : Pc, part : Op, outcome : Sent \cup {"none"}, stop : BOOLEAN]

(* Where a task may be: callers walk the text parts, the worker serves the *)
(* illustration of an intent that exists, and a dead process runs nothing. *)
RunInv ==
    /\ run \in [Task -> Run]
    /\ ~up => \A t \in Task : run[t] = Idle
    /\ run[Worker].part = 0
    /\ run[Worker].pc # "prepare"
    /\ run[Worker].pc # "idle" => intent # "none"
    /\ \A t \in Caller : /\ run[t].pc \in Loop => run[t].part \in Text
                         /\ run[t].pc = "prepare" => Sequence /\ run[t].part = 1

(* What the rows say of the part a task is at. *)
TaskInv(t) ==
    LET part == run[t].part IN
    /\ run[t].pc \in Busy => op[part] = "executing" /\ ~Local
    /\ run[t].pc = "claim" => op[part] # "absent"
    /\ run[t].pc \in {"dispatch", "unentered"} => sent[part] = 0
    /\ run[t].pc \in {"reached", "settle"} => sent[part] = 1
    /\ run[t].pc = "settle" => run[t].outcome = "confirmed"
    /\ run[t].pc = "repair" => /\ run[t].outcome = "confirmed" => sent[part] = 1
                               /\ run[t].outcome = "refused" => sent[part] = 0
    /\ run[t].pc \in Loop /\ part > 1 => op[part - 1] = "succeeded"

(* One dispatcher per claim. *)
OneDispatcher ==
    \A t, u \in Task :
        run[t].pc \in Busy /\ run[u].pc \in Busy /\ run[t].part = run[u].part => t = u

(* Nothing of a sequence begins before its plan is there. *)
PlanInv ==
    Sequence /\ parent = "absent" =>
        /\ \A i \in Text : op[i] = "absent"
        /\ \A t \in Caller : run[t].pc \notin Loop

RowInv == SentOnce /\ ReceiptIsTrue /\ PartsInOrder /\ LedgerIsConfirmed /\ DeliveryAgrees

IInv ==
    /\ TypeOK
    /\ RunInv
    /\ \A t \in Task : TaskInv(t)
    /\ OneDispatcher
    /\ PlanInv
    /\ RowInv

-----------------------------------------------------------------------------
(* Where a task goes.                                                      *)

LEMMA IdleIsRun == ASSUME SocialSendAssumption PROVE Idle \in Run
PROOF BY DEF SocialSendAssumption, Idle, Run, Pc, Loop, Busy, Op, Sent

(* An execution without a result never goes on with a part.                *)
LEMMA AfterErrorLeaves ==
    ASSUME SocialSendAssumption, RunInv, NEW t \in Task
    PROVE  /\ AfterError(t) \in Run
           /\ AfterError(t).pc \in {"close", "stop", "idle"}
           /\ t = Worker => AfterError(t).part = 0
PROOF
  <1>1. run[t] \in Run /\ Idle \in Run
    BY IdleIsRun DEF RunInv
  <1>2. CASE t = Worker
    BY <1>1, <1>2 DEF AfterError, Run, Pc, Idle
  <1>3. CASE t # Worker
    BY <1>1, <1>3 DEF AfterError, Run, Pc, Idle
  <1> QED BY <1>2, <1>3

(* An execution with a result goes on only after a success, with the next  *)
(* part of the text.                                                       *)
LEMMA AfterResultMoves ==
    ASSUME SocialSendAssumption, RunInv, NEW t \in Task, NEW status
    PROVE  /\ AfterResult(t, status) \in Run
           /\ AfterResult(t, status).pc \in {"close", "stop", "idle", "open"}
           /\ t = Worker => AfterResult(t, status).part = 0 /\ AfterResult(t, status).pc = "close"
           /\ AfterResult(t, status).pc = "open" =>
                /\ t # Worker /\ status = "succeeded"
                /\ AfterResult(t, status).part = run[t].part + 1
                /\ AfterResult(t, status).part \in Text
PROOF
  <1>1. run[t] \in Run /\ Idle \in Run /\ Parts \in Nat
    BY IdleIsRun DEF RunInv, SocialSendAssumption
  <1>2. CASE t = Worker
    BY <1>1, <1>2 DEF AfterResult, Run, Pc, Idle
  <1>3. CASE t # Worker /\ run[t].stop
    BY <1>3, AfterErrorLeaves DEF AfterResult
  <1>4. CASE t # Worker /\ ~run[t].stop
    <2>1. CASE status = "succeeded" /\ run[t].part < Parts
      <3>1. AfterResult(t, status) = [pc |-> "open", part |-> run[t].part + 1,
                                      outcome |-> "none", stop |-> FALSE]
        BY <1>4, <2>1 DEF AfterResult, Idle
      <3>2. run[t].part \in 0..Parts
        BY <1>1 DEF Run, Op
      <3>3. run[t].part + 1 \in 1..Parts /\ run[t].part + 1 \in 0..Parts
        BY <1>1, <2>1, <3>2
      <3>4. AfterResult(t, status) \in Run
        BY <3>1, <3>3 DEF Run, Pc, Loop, Op
      <3>5. AfterResult(t, status).part \in Text
        BY <3>1, <3>3 DEF Text
      <3>6. AfterResult(t, status).pc = "open" /\ AfterResult(t, status).part = run[t].part + 1
        BY <3>1
      <3> QED BY <1>4, <2>1, <3>4, <3>5, <3>6
    <2>2. CASE ~(status = "succeeded" /\ run[t].part < Parts)
      <3>1. AfterResult(t, status) = Idle
        BY <1>4, <2>2 DEF AfterResult
      <3> QED BY <1>1, <1>4, <3>1 DEF Idle
    <2> QED BY <2>1, <2>2
  <1> QED BY <1>2, <1>3, <1>4

-----------------------------------------------------------------------------
(* One task moves, the others stay.                                        *)

(* What a step must show of the record it gives a task to keep RunInv.     *)
LEMMA MoveKeepsRunInv ==
    ASSUME SocialSendAssumption, RunInv, NEW t \in Task, up, up', NEW r \in Run,
           run' = [run EXCEPT ![t] = r],
           intent # "none" => intent' # "none",
           t = Worker => r.part = 0 /\ r.pc # "prepare" /\ (r.pc # "idle" => intent' # "none"),
           t # Worker => /\ r.pc \in Loop => r.part \in Text
                         /\ r.pc = "prepare" => Sequence /\ r.part = 1
    PROVE  RunInv'
PROOF
  <1>1. Worker \in Task /\ Caller \subseteq Task /\ Worker \notin Caller
    BY DEF Task, SocialSendAssumption
  <1>2. run' \in [Task -> Run]
    BY DEF RunInv
  <1>3. \A u \in Task : run'[u] = IF u = t THEN r ELSE run[u]
    BY DEF RunInv
  <1> QED BY <1>1, <1>2, <1>3 DEF RunInv, Sequence

(* A step that leaves the rows and the count of calls alone keeps what the *)
(* other tasks know; it has to show it of the task that moves.             *)
LEMMA MoveKeepsTasks ==
    ASSUME SocialSendAssumption, RunInv, \A u \in Task : TaskInv(u), OneDispatcher, PlanInv,
           NEW t \in Task, NEW r \in Run, run' = [run EXCEPT ![t] = r],
           UNCHANGED <<op, sent>>, parent = "absent" \/ parent' # "absent",
           TaskInv(t)',
           r.pc \in Busy => run[t].pc \in Busy /\ r.part = run[t].part,
           r.pc \in Loop /\ t # Worker => \/ run[t].pc \in Loop
                                          \/ ~Sequence \/ parent' # "absent"
    PROVE  (\A u \in Task : TaskInv(u))' /\ OneDispatcher' /\ PlanInv'
PROOF
  <1>1. \A u \in Task : run'[u] = IF u = t THEN r ELSE run[u]
    BY DEF RunInv
  <1>2. ASSUME NEW u \in Task  PROVE TaskInv(u)'
    <2>1. CASE u = t
      BY <2>1
    <2>2. CASE u # t
      BY <1>1, <2>2 DEF TaskInv
    <2> QED BY <2>1, <2>2
  <1>3. OneDispatcher'
    BY <1>1 DEF OneDispatcher
  <1>4. PlanInv'
    <2>1. Caller \subseteq Task /\ Worker \notin Caller
      BY DEF Task, SocialSendAssumption
    <2> QED BY <1>1, <2>1 DEF PlanInv, Sequence
  <1> QED BY <1>2, <1>3, <1>4

(* The rows stay true as long as they and the count of calls stay.         *)
LEMMA SameRows ==
    ASSUME RowInv, UNCHANGED <<op, delivery, ledger, sent>>
    PROVE  RowInv'
PROOF BY DEF RowInv, SentOnce, ReceiptIsTrue, PartsInOrder, LedgerIsConfirmed, DeliveryAgrees

(* Types of the columns, from the records of the tasks.                    *)
LEMMA TypeFromRun ==
    ASSUME RunInv', TypeOK,
           parent' \in {"absent", "prepared", "failed"},
           op' \in [Op -> Status],
           op'[0] # "absent" => intent' # "none",
           delivery' \in [Op -> {"none", "reserved", "accepted", "failed", "unknown"}],
           ledger' \in [Op -> 0..1], sent' \in [Op -> Nat],
           intent' \in {"none", "open", "selected", "closed"},
           woken' \in BOOLEAN, allowed' \in BOOLEAN, up' \in BOOLEAN,
           calls' \in 0..MaxCalls, faults' \in 0..MaxFaults
    PROVE  TypeOK'
PROOF
  <1>1. ASSUME NEW t \in Task
        PROVE  /\ run'[t].pc \in {"idle", "prepare", "open", "claim", "dispatch", "unentered",
                                  "reached", "settle", "repair", "stop", "begin", "select",
                                  "check", "close", "done"}
               /\ run'[t].part \in Op /\ run'[t].outcome \in Sent \cup {"none"}
               /\ run'[t].stop \in BOOLEAN
    <2>1. run'[t] \in Run
      BY DEF RunInv
    <2> QED BY <2>1 DEF Run, Pc, Loop, Busy
  <1> QED BY <1>1 DEF TypeOK

-----------------------------------------------------------------------------
(* Steps that write no row of an operation and call nobody.                *)

(* What such a step may do to the control variables.                       *)
Quiet ==
    /\ UNCHANGED <<op, delivery, ledger, sent, up, calls>>
    /\ parent' \in {parent, "failed"}
    /\ intent' \in {intent, "selected", "closed"}
    /\ woken' \in BOOLEAN /\ allowed' \in BOOLEAN
    /\ faults' \in 0..MaxFaults

LEMMA QuietMove ==
    ASSUME SocialSendAssumption, IInv, Quiet, up,
           NEW t \in Task, NEW r \in Run, run' = [run EXCEPT ![t] = r],
           t = Worker => r.part = 0 /\ r.pc # "prepare" /\ (r.pc # "idle" => intent' # "none"),
           t # Worker => /\ r.pc \in Loop => r.part \in Text
                         /\ r.pc = "prepare" => Sequence /\ r.part = 1,
           TaskInv(t)',
           r.pc \in Busy => run[t].pc \in Busy /\ r.part = run[t].part,
           r.pc \in Loop /\ t # Worker => run[t].pc \in Loop
    PROVE  IInv'
PROOF
  <1>1. RunInv'
    <2>1. up' /\ (intent # "none" => intent' # "none")
      BY DEF Quiet
    <2> QED BY <2>1, MoveKeepsRunInv DEF IInv
  <1>2. (\A u \in Task : TaskInv(u))' /\ OneDispatcher' /\ PlanInv'
    <2>1. UNCHANGED <<op, sent>> /\ (parent = "absent" \/ parent' # "absent")
      BY DEF Quiet
    <2> QED BY <2>1, MoveKeepsTasks DEF IInv
  <1>3. RowInv'
    BY SameRows DEF IInv, Quiet
  <1>4. TypeOK'
    <2>1. TypeOK
      BY DEF IInv
    <2> QED BY <1>1, <2>1, TypeFromRun DEF TypeOK, Quiet
  <1> QED BY <1>1, <1>2, <1>3, <1>4 DEF IInv

(* A task that leaves the parts knows nothing of them.                     *)
LEMMA QuietLeave ==
    ASSUME SocialSendAssumption, IInv, Quiet, up,
           NEW t \in Task, NEW r \in Run, run' = [run EXCEPT ![t] = r],
           r.pc \notin Loop \cup {"prepare"},
           t = Worker => r.part = 0 /\ (r.pc # "idle" => intent' # "none")
    PROVE  IInv'
PROOF
  <1>1. run'[t] = r
    BY DEF IInv, RunInv
  <1>2. TaskInv(t)'
    BY <1>1 DEF TaskInv, Loop, Busy
  <1>3. r.pc \notin Busy
    BY DEF Loop
  <1> QED BY <1>2, <1>3, QuietMove

(* One more fault is within the bound.                                     *)
LEMMA FaultBound ==
    ASSUME SocialSendAssumption, TypeOK, Fault
    PROVE  faults' \in 0..MaxFaults
PROOF BY DEF SocialSendAssumption, TypeOK, Fault

(* The worker is at work only for an intent.                               *)
LEMMA WorkerHasIntent ==
    ASSUME RunInv, run[Worker].pc # "idle"
    PROVE  intent # "none"
PROOF BY DEF RunInv

LEMMA PreflightKeepsIInv ==
    ASSUME SocialSendAssumption, IInv, NEW t \in Task, Preflight(t)
    PROVE  IInv'
PROOF
  <1> DEFINE r == IF t = Worker THEN [Idle EXCEPT !.pc = "begin"] ELSE AfterError(t)
  <1>1. run' = [run EXCEPT ![t] = r] /\ up /\ run[t].pc # "idle"
    BY DEF Preflight
  <1>2. r \in Run /\ r.pc \notin Loop \cup {"prepare"} /\ (t = Worker => r.part = 0)
    <2>1. Idle \in Run /\ AfterError(t) \in Run /\ AfterError(t).pc \in {"close", "stop", "idle"}
      BY IdleIsRun, AfterErrorLeaves DEF IInv
    <2> QED BY <2>1 DEF Idle, Run, Pc, Loop, Busy
  <1>3. Quiet
    BY FaultBound DEF IInv, TypeOK, Quiet, Preflight
  <1>4. t = Worker => intent' # "none"
    BY <1>1, WorkerHasIntent DEF IInv, Preflight
  <1> HIDE DEF r
  <1> QED BY <1>1, <1>2, <1>3, <1>4, QuietLeave

LEMMA RefusedKeepsIInv ==
    ASSUME SocialSendAssumption, IInv, NEW t \in Task, Refused(t)
    PROVE  IInv'
PROOF
  <1>1. run' = [run EXCEPT ![t] = AfterError(t)] /\ up /\ run[t].pc # "idle"
    BY DEF Refused, At
  <1>2. /\ AfterError(t) \in Run /\ AfterError(t).pc \notin Loop \cup {"prepare"}
        /\ t = Worker => AfterError(t).part = 0
    BY AfterErrorLeaves DEF IInv, Loop, Busy
  <1>3. Quiet
    BY DEF IInv, TypeOK, Quiet, Refused
  <1>4. t = Worker => intent' # "none"
    BY <1>1, WorkerHasIntent DEF IInv, Refused
  <1> QED BY <1>1, <1>2, <1>3, <1>4, QuietLeave

LEMMA DeferredKeepsIInv ==
    ASSUME SocialSendAssumption, IInv, NEW t \in Task, Deferred(t)
    PROVE  IInv'
PROOF
  <1>1. run' = [run EXCEPT ![t] = AfterError(t)] /\ up /\ run[t].pc # "idle"
    BY DEF Deferred
  <1>2. /\ AfterError(t) \in Run /\ AfterError(t).pc \notin Loop \cup {"prepare"}
        /\ t = Worker => AfterError(t).part = 0
    BY AfterErrorLeaves DEF IInv, Loop, Busy
  <1>3. Quiet
    BY FaultBound DEF IInv, TypeOK, Quiet, Deferred, rows
  <1>4. t = Worker => intent' # "none"
    BY <1>1, WorkerHasIntent DEF IInv, Deferred, rows
  <1> QED BY <1>1, <1>2, <1>3, <1>4, QuietLeave

LEMMA StopSequenceKeepsIInv ==
    ASSUME SocialSendAssumption, IInv, NEW t \in Task, StopSequence(t)
    PROVE  IInv'
PROOF
  <1>1. run' = [run EXCEPT ![t] = Idle] /\ up
    BY DEF StopSequence, At
  <1>2. Idle \in Run /\ Idle.pc \notin Loop \cup {"prepare"} /\ Idle.part = 0 /\ Idle.pc = "idle"
    BY IdleIsRun DEF Idle, Loop, Busy
  <1>3. Quiet
    BY DEF IInv, TypeOK, Quiet, StopSequence
  <1> QED BY <1>1, <1>2, <1>3, QuietLeave

(* What the gateway answers, before the settlement is written.             *)
LEMMA ReturnKeepsIInv ==
    ASSUME SocialSendAssumption, IInv, NEW t \in Task, Return(t)
    PROVE  IInv'
PROOF
  <1>1. PICK reached \in BOOLEAN, outcome \in Sent : Answer(t, reached, outcome)
    BY DEF Return
  <1> DEFINE r == [run[t] EXCEPT !.pc = IF outcome = "confirmed" THEN "settle" ELSE "repair",
                                 !.outcome = outcome]
  <1>2. up /\ run' = [run EXCEPT ![t] = r] /\ run[t] \in Run
    BY <1>1 DEF Answer, At, IInv, RunInv
  <1>3. r \in Run /\ r.pc \in {"settle", "repair"} /\ r.part = run[t].part
        /\ r.outcome = outcome /\ (outcome = "confirmed" <=> r.pc = "settle")
    BY <1>2 DEF Run, Pc, Loop, Busy
  <1>4. run[t].pc \in {"dispatch", "reached"} /\ (outcome = "confirmed" => run[t].pc = "reached")
        /\ (outcome = "refused" => run[t].pc = "dispatch")
    BY <1>1 DEF Answer, At
  <1>5. Quiet
    BY DEF IInv, TypeOK, Quiet, Return, rows
  <1>6. run'[t] = r
    BY <1>2 DEF IInv, RunInv
  <1>7. TaskInv(t)'
    <2>1. TaskInv(t) /\ UNCHANGED <<op, sent>>
      BY <1>5 DEF IInv, Quiet
    <2> HIDE DEF r
    <2> QED BY <1>3, <1>4, <1>6, <2>1 DEF TaskInv, Loop, Busy
  <1>8. t # Worker => t \in Caller
    BY DEF Task
  <1>9. run[t].pc \in Loop /\ run[t].pc \in Busy /\ run[t].pc # "idle"
    BY <1>4 DEF Loop, Busy
  <1>10. t = Worker => run[t].part = 0 /\ intent' # "none"
    BY <1>9, WorkerHasIntent DEF IInv, RunInv, Return, rows
  <1>11. t # Worker => run[t].part \in Text
    BY <1>8, <1>9 DEF IInv, RunInv
  <1> HIDE DEF r
  <1> QED BY <1>2, <1>3, <1>5, <1>7, <1>9, <1>10, <1>11, QuietMove

(* A rolled back settlement leaves the part to the second one.             *)
LEMMA SettleFailsKeepsIInv ==
    ASSUME SocialSendAssumption, IInv, NEW t \in Task, SettleFails(t)
    PROVE  IInv'
PROOF
  <1> DEFINE r == [run[t] EXCEPT !.pc = "repair"]
  <1>1. up /\ run[t].pc = "settle" /\ run' = [run EXCEPT ![t] = r] /\ run[t] \in Run
    BY DEF SettleFails, At, GoTo, IInv, RunInv
  <1>2. r \in Run /\ r.pc = "repair" /\ r.part = run[t].part /\ r.outcome = run[t].outcome
    BY <1>1 DEF Run, Pc, Loop, Busy
  <1>3. Quiet
    BY FaultBound DEF IInv, TypeOK, Quiet, SettleFails, rows
  <1>4. run'[t] = r
    BY <1>1 DEF IInv, RunInv
  <1>5. run[t].outcome # "refused"
    BY <1>1 DEF IInv, TaskInv
  <1>6. TaskInv(t)'
    <2>1. TaskInv(t) /\ UNCHANGED <<op, sent>>
      BY <1>3 DEF IInv, Quiet
    <2> HIDE DEF r
    <2> QED BY <1>1, <1>2, <1>4, <1>5, <2>1 DEF TaskInv, Loop, Busy
  <1>7. run[t].pc \in Loop /\ run[t].pc \in Busy /\ (t # Worker => t \in Caller)
    BY <1>1 DEF Loop, Busy, Task
  <1>8. t = Worker => run[t].part = 0 /\ intent' # "none"
    BY <1>1, WorkerHasIntent DEF IInv, RunInv, SettleFails, rows
  <1>9. t # Worker => run[t].part \in Text
    BY <1>7 DEF IInv, RunInv
  <1> HIDE DEF r
  <1> QED BY <1>1, <1>2, <1>3, <1>6, <1>7, <1>8, <1>9, QuietMove

(* A caller that is cancelled: between parts, in the call, or in a         *)
(* transaction that commits all the same.                                  *)
LEMMA CancelKeepsIInv ==
    ASSUME SocialSendAssumption, IInv, NEW t \in Task, Cancel(t)
    PROVE  IInv'
PROOF
  <1>1. up /\ t # Worker /\ t \in Caller /\ run[t] \in Run /\ TaskInv(t)
    BY DEF Cancel, Task, IInv, RunInv
  <1>2. Quiet
    BY FaultBound DEF IInv, TypeOK, Quiet, Cancel, rows
  <1>3. CASE /\ run[t].pc \in {"open", "claim"}
             /\ run' = [run EXCEPT ![t] = IF Sequence THEN [@ EXCEPT !.pc = "stop"] ELSE Idle]
    <2> DEFINE r == IF Sequence THEN [run[t] EXCEPT !.pc = "stop"] ELSE Idle
    <2>1. r \in Run /\ r.pc \notin Loop \cup {"prepare"}
      BY <1>1, IdleIsRun DEF Idle, Run, Pc, Loop, Busy
    <2>2. run' = [run EXCEPT ![t] = r]
      BY <1>3 DEF IInv, RunInv
    <2> HIDE DEF r
    <2> QED BY <1>1, <1>2, <2>1, <2>2, QuietLeave
  <1>4. CASE /\ run[t].pc \in {"dispatch", "reached"}
             /\ run' = [run EXCEPT ![t].pc = "repair", ![t].outcome = "unknown", ![t].stop = TRUE]
    <2> DEFINE r == [run[t] EXCEPT !.pc = "repair", !.outcome = "unknown", !.stop = TRUE]
    <2>1. r \in Run /\ r.pc = "repair" /\ r.part = run[t].part /\ r.outcome = "unknown"
      BY <1>1 DEF Run, Pc, Loop, Busy, Sent
    <2>2. run' = [run EXCEPT ![t] = r] /\ run'[t] = r
      BY <1>4 DEF IInv, RunInv
    <2>3. UNCHANGED <<op, sent>>
      BY <1>2 DEF Quiet
    <2>4. run[t].pc \in Busy /\ run[t].pc \in Loop /\ run[t].part \in Text
      BY <1>1, <1>4 DEF IInv, RunInv, Loop, Busy
    <2> HIDE DEF r
    <2>5. TaskInv(t)'
      BY <1>1, <2>1, <2>2, <2>3, <2>4 DEF TaskInv
    <2> QED BY <1>1, <1>2, <2>1, <2>2, <2>4, <2>5, QuietMove
  <1>5. CASE /\ run[t].pc \in {"claim", "unentered", "settle"}
             /\ run' = [run EXCEPT ![t].stop = TRUE]
    <2> DEFINE r == [run[t] EXCEPT !.stop = TRUE]
    <2>1. r \in Run /\ r.pc = run[t].pc /\ r.part = run[t].part /\ r.outcome = run[t].outcome
      BY <1>1 DEF Run
    <2>2. run' = [run EXCEPT ![t] = r] /\ run'[t] = r
      BY <1>5 DEF IInv, RunInv
    <2>3. UNCHANGED <<op, sent>>
      BY <1>2 DEF Quiet
    <2>4. run[t].pc \in Loop /\ run[t].pc # "prepare" /\ run[t].part \in Text
      BY <1>1, <1>5 DEF IInv, RunInv, Loop, Busy
    <2> HIDE DEF r
    <2>5. TaskInv(t)'
      BY <1>1, <2>1, <2>2, <2>3 DEF TaskInv
    <2> QED BY <1>1, <1>2, <2>1, <2>2, <2>4, <2>5, QuietMove
  <1> QED BY <1>3, <1>4, <1>5 DEF Cancel

-----------------------------------------------------------------------------
(* The worker before it has a part of its own to send, and what surrounds  *)
(* the tasks.                                                              *)

(* The worker goes to a place outside the parts, or to open part 0.        *)
LEMMA WorkerMove ==
    ASSUME SocialSendAssumption, IInv, Quiet, up,
           NEW pc \in {"idle", "begin", "select", "check", "close", "done", "open"},
           run' = [run EXCEPT ![Worker].pc = pc], pc # "idle" => intent' # "none"
    PROVE  IInv'
PROOF
  <1> DEFINE r == [run[Worker] EXCEPT !.pc = pc]
  <1>1. Worker \in Task /\ run[Worker] \in Run /\ run[Worker].part = 0
    BY DEF Task, IInv, RunInv
  <1>2. r \in Run /\ r.pc = pc /\ r.part = 0
    BY <1>1 DEF Run, Pc, Loop
  <1>3. run' = [run EXCEPT ![Worker] = r] /\ run'[Worker] = r
    BY <1>1 DEF IInv, RunInv
  <1> HIDE DEF r
  <1>4. TaskInv(Worker)'
    <2>1. run'[Worker].pc \in {"idle", "begin", "select", "check", "close", "done", "open"}
      BY <1>2, <1>3
    <2>2. run'[Worker].part = 0
      BY <1>2, <1>3
    <2> QED BY <2>1, <2>2 DEF TaskInv, Busy
  <1>5. pc \notin Busy /\ pc # "prepare"
    BY DEF Busy
  <1> QED BY <1>1, <1>2, <1>3, <1>4, <1>5, QuietMove

LEMMA IllustrateKeepsIInv ==
    ASSUME SocialSendAssumption, IInv, Illustrate
    PROVE  IInv'
PROOF
  <1>1. Worker \in Task /\ run[Worker] \in Run
    BY DEF Task, IInv, RunInv
  <1>2. CASE Scan
    <2>1. Quiet /\ up /\ UNCHANGED intent
      BY <1>2 DEF IInv, TypeOK, Quiet, Scan, rows
    <2>2. CASE run' = [run EXCEPT ![Worker].pc = "begin"] /\ intent \in {"open", "selected"}
      BY <2>1, <2>2, WorkerMove
    <2>3. CASE UNCHANGED run
      <3>1. run' = [run EXCEPT ![Worker].pc = run[Worker].pc]
        BY <1>1, <2>3 DEF IInv, RunInv, Run
      <3>2. run' = [run EXCEPT ![Worker] = run[Worker]]
        BY <1>1, <2>3 DEF IInv, RunInv
      <3>3. TaskInv(Worker)'
        BY <1>1, <2>1, <2>3 DEF IInv, Quiet, TaskInv
      <3>4. run[Worker].part = 0 /\ run[Worker].pc # "prepare"
            /\ (run[Worker].pc # "idle" => intent' # "none")
        BY <2>1 DEF IInv, RunInv
      <3> QED BY <1>1, <2>1, <3>2, <3>3, <3>4, QuietMove
    <2> QED BY <1>2, <2>2, <2>3 DEF Scan, GoTo
  <1>3. CASE Begin
    <2>1. Quiet /\ up /\ UNCHANGED intent /\ run[Worker].pc = "begin"
      BY <1>3 DEF IInv, TypeOK, Quiet, Begin, At, rows
    <2>2. intent' # "none"
      BY <2>1, WorkerHasIntent DEF IInv
    <2>3. \E pc \in {"close", "select", "check"} : run' = [run EXCEPT ![Worker].pc = pc]
      BY <1>3 DEF Begin, GoTo
    <2> QED BY <2>1, <2>2, <2>3, WorkerMove
  <1>4. CASE Select
    <2>1. Quiet /\ up /\ intent' # "none"
      BY <1>4 DEF IInv, TypeOK, Quiet, Select, At
    <2>2. \E pc \in {"check", "done"} : run' = [run EXCEPT ![Worker].pc = pc]
      BY <1>4 DEF Select, GoTo
    <2> QED BY <2>1, <2>2, WorkerMove
  <1>5. CASE Check
    <2>1. Quiet /\ up /\ UNCHANGED intent /\ run[Worker].pc = "check"
      BY <1>5 DEF IInv, TypeOK, Quiet, Check, At, rows
    <2>2. intent' # "none"
      BY <2>1, WorkerHasIntent DEF IInv
    <2>3. \E pc \in {"open", "done", "close"} : run' = [run EXCEPT ![Worker].pc = pc]
      BY <1>5 DEF Check, GoTo
    <2> QED BY <2>1, <2>2, <2>3, WorkerMove
  <1>6. CASE Close
    <2>1. Quiet /\ up /\ intent' # "none"
      BY <1>6 DEF IInv, TypeOK, Quiet, Close, At
    <2>2. run' = [run EXCEPT ![Worker].pc = "done"]
      BY <1>6 DEF Close, GoTo
    <2> QED BY <2>1, <2>2, WorkerMove
  <1>7. CASE Done
    <2>1. Quiet /\ up
      BY <1>7 DEF IInv, TypeOK, Quiet, Done, At, rows
    <2>2. Idle \in Run /\ Idle.pc \notin Loop \cup {"prepare"} /\ Idle.part = 0 /\ Idle.pc = "idle"
      BY IdleIsRun DEF Idle, Loop, Busy
    <2>3. run' = [run EXCEPT ![Worker] = Idle]
      BY <1>7 DEF Done
    <2> QED BY <1>1, <2>1, <2>2, <2>3, QuietLeave
  <1> QED BY <1>2, <1>3, <1>4, <1>5, <1>6, <1>7 DEF Illustrate

(* Revocation and death change no row.                                     *)
LEMMA EnvironmentKeepsIInv ==
    ASSUME SocialSendAssumption, IInv, Revoke \/ Crash
    PROVE  IInv'
PROOF
  <1>1. UNCHANGED <<parent, op, delivery, ledger, sent, intent>>
    BY DEF Revoke, Crash, rows
  <1>2. RunInv' /\ (\A u \in Task : TaskInv(u))' /\ OneDispatcher' /\ PlanInv'
    <2>1. CASE Revoke
      <3>1. UNCHANGED <<run, up>>
        BY <2>1 DEF Revoke
      <3> QED BY <1>1, <3>1 DEF IInv, RunInv, TaskInv, OneDispatcher, PlanInv, Sequence
    <2>2. CASE Crash
      <3>1. \A t \in Task : run'[t] = Idle
        BY <2>2 DEF Crash
      <3>2. Worker \in Task /\ Caller \subseteq Task
        BY DEF Task
      <3>3. RunInv'
        BY <2>2, <3>1, <3>2, IdleIsRun DEF Crash, RunInv, Idle, Loop, Busy
      <3>4. (\A u \in Task : TaskInv(u))' /\ OneDispatcher' /\ PlanInv'
        BY <1>1, <3>1, <3>2 DEF IInv, TaskInv, OneDispatcher, PlanInv, Sequence, Idle, Loop, Busy
      <3> QED BY <3>3, <3>4
    <2> QED BY <2>1, <2>2
  <1>3. RowInv'
    BY <1>1, SameRows DEF IInv
  <1>4. TypeOK'
    <2>1. /\ woken' \in BOOLEAN /\ allowed' \in BOOLEAN /\ up' \in BOOLEAN
          /\ calls' \in 0..MaxCalls /\ faults' \in 0..MaxFaults
      BY FaultBound DEF IInv, TypeOK, Revoke, Crash
    <2>2. TypeOK
      BY DEF IInv
    <2> QED BY <1>1, <1>2, <2>1, <2>2, TypeFromRun DEF TypeOK
  <1> QED BY <1>2, <1>3, <1>4 DEF IInv

-----------------------------------------------------------------------------
(* Steps that write rows.                                                  *)

(* What a delivery row becomes of the receipt of its part agrees with it.  *)
LEMMA RecordedAgrees ==
    ASSUME SocialSendAssumption, TypeOK, DeliveryAgrees, NEW o \in Op,
           NEW status \in Status,
           status = op[o] \/ (op[o] = "executing" /\ status \notin {"absent", "prepared"}),
           op' = [op EXCEPT ![o] = status],
           delivery' = Recorded(o, status)
    PROVE  /\ DeliveryAgrees'
           /\ delivery' \in [Op -> {"none", "reserved", "accepted", "failed", "unknown"}]
PROOF
  <1> DEFINE state == IF status = "succeeded" THEN "accepted"
                      ELSE IF status = "failed" THEN "failed" ELSE "unknown"
  <1>1. delivery' \in {delivery, [delivery EXCEPT ![o] = state]}
        /\ (delivery[o] = "none" => delivery' = delivery)
        /\ (delivery[o] = "unknown" /\ state # "accepted" => delivery' = delivery)
        /\ (delivery[o] = "accepted" => delivery' = delivery)
    BY DEF Recorded
  <1>2. Text \subseteq Op
    BY DEF Text, Op, SocialSendAssumption
  <1>3. \A p \in Op : op'[p] = IF p = o THEN status ELSE op[p]
    BY DEF TypeOK
  <1>4. \A p \in Op : delivery'[p] = delivery[p] \/ (p = o /\ delivery'[p] = state)
    BY <1>1 DEF TypeOK
  <1>5. state \in {"accepted", "failed", "unknown"}
    OBVIOUS
  <1>6. delivery' \in [Op -> {"none", "reserved", "accepted", "failed", "unknown"}]
    <2> HIDE DEF state
    <2> QED BY <1>1, <1>5 DEF TypeOK
  <1>7. ASSUME NEW i \in Text
        PROVE  /\ delivery'[i] = "accepted" => op'[i] = "succeeded"
               /\ delivery'[i] = "failed" => op'[i] = "failed"
               /\ delivery'[i] # "none" => op'[i] \notin {"absent", "prepared"}
    <2>1. CASE delivery'[i] = delivery[i]
      BY <1>2, <1>3, <2>1 DEF DeliveryAgrees
    <2>2. CASE delivery'[i] # delivery[i]
      <3>1. i = o /\ delivery'[i] = state /\ delivery[o] # "none" /\ op'[o] = status
        BY <1>1, <1>2, <1>3, <1>4, <2>2
      <3>2. op[o] \notin {"absent", "prepared"}
        BY <3>1 DEF DeliveryAgrees
      <3> QED BY <3>1, <3>2
    <2> QED BY <2>1, <2>2
  <1> QED BY <1>6, <1>7 DEF DeliveryAgrees

(* A step that settles, claims or opens the part of a task: what it must   *)
(* show of that task and of the row to keep the other tasks and the plan.  *)
LEMMA PartMoveKeepsTasks ==
    ASSUME SocialSendAssumption, TypeOK, RunInv, \A u \in Task : TaskInv(u), OneDispatcher, PlanInv,
           NEW t \in Task, NEW r \in Run, run' = [run EXCEPT ![t] = r],
           NEW o \in Op, NEW status \in Status, op' = [op EXCEPT ![o] = status],
           UNCHANGED parent,
           run[t].pc \in Loop, run[t].part = o,
           op[o] = "succeeded" => status = "succeeded",
           status # "absent",
           \A p \in Op \ {o} : sent'[p] = sent[p],
           status # op[o] \/ sent'[o] # sent[o] =>
               \A u \in Task : u # t /\ run[u].pc \in Busy => run[u].part # o,
           r.pc \in Busy => r.part = o /\ \A u \in Task : u # t /\ run[u].pc \in Busy => run[u].part # o,
           TaskInv(t)'
    PROVE  (\A u \in Task : TaskInv(u))' /\ OneDispatcher' /\ PlanInv'
PROOF
  <1>1. \A u \in Task : run'[u] = IF u = t THEN r ELSE run[u]
    BY DEF RunInv
  <1>2. \A p \in Op : op'[p] = IF p = o THEN status ELSE op[p]
    BY DEF TypeOK
  <1>3. ASSUME NEW u \in Task  PROVE TaskInv(u)'
    <2>1. CASE u = t
      BY <2>1
    <2>2. CASE u # t
      <3>1. run'[u] = run[u] /\ TaskInv(u) /\ run[u].part \in Op
        BY <1>1, <2>2 DEF RunInv, Run
      <3>2. run[u].pc \in Busy =>
              op'[run[u].part] = op[run[u].part] /\ sent'[run[u].part] = sent[run[u].part]
        BY <1>2, <2>2, <3>1
      <3>3. run[u].pc = "claim" => op'[run[u].part] # "absent"
        BY <1>2, <3>1 DEF TaskInv
      <3>4. run[u].pc \in Loop /\ run[u].part > 1 => op'[run[u].part - 1] = "succeeded"
        <4>1. run[u].part > 1 => run[u].part - 1 \in Op
          BY <3>1 DEF Op, SocialSendAssumption
        <4> QED BY <1>2, <3>1, <4>1 DEF TaskInv
      <3> QED BY <3>1, <3>2, <3>3, <3>4 DEF TaskInv, Busy
    <2> QED BY <2>1, <2>2
  <1>4. OneDispatcher'
    <2> SUFFICES ASSUME NEW u \in Task, NEW v \in Task, u # v,
                        run'[u].pc \in Busy, run'[v].pc \in Busy, run'[u].part = run'[v].part
                 PROVE  FALSE
      BY DEF OneDispatcher
    <2>1. CASE u = t
      BY <1>1, <2>1
    <2>2. CASE v = t
      BY <1>1, <2>2
    <2>3. CASE u # t /\ v # t
      BY <1>1, <2>3 DEF OneDispatcher
    <2> QED BY <2>1, <2>2, <2>3
  <1>5. PlanInv'
    <2> SUFFICES ASSUME Sequence, parent = "absent"
                 PROVE  /\ \A i \in Text : op'[i] = "absent"
                        /\ \A u \in Caller : run'[u].pc \notin Loop
      BY DEF PlanInv, Sequence
    <2>1. t = Worker /\ Worker \notin Caller /\ Caller \subseteq Task
      BY DEF PlanInv, Task, SocialSendAssumption
    <2>2. o = 0 /\ Text \subseteq Op /\ 0 \notin Text
      BY <2>1 DEF RunInv, Text, Op, SocialSendAssumption
    <2> QED BY <1>1, <1>2, <2>1, <2>2 DEF PlanInv
  <1> QED BY <1>3, <1>4, <1>5

(* The rows of one part change together: what they must say then.          *)
LEMMA PartMoveKeepsRows ==
    ASSUME SocialSendAssumption, TypeOK, RowInv,
           NEW o \in Op, NEW status \in Status, op' = [op EXCEPT ![o] = status],
           op[o] = "succeeded" => status = "succeeded",
           NEW n \in {0, 1}, sent' = [sent EXCEPT ![o] = n],
           NEW e \in {0, 1}, ledger' = [ledger EXCEPT ![o] = e],
           status = "succeeded" => n = 1,
           status \in {"failed", "prepared", "absent"} => n = 0,
           n = 1 /\ o > 1 => op[o - 1] = "succeeded",
           e = 1 => status = "succeeded",
           Local /\ status = "succeeded" => e = 1,
           DeliveryAgrees'
    PROVE  RowInv'
PROOF
  <1>1. \A p \in Op : /\ op'[p] = IF p = o THEN status ELSE op[p]
                      /\ sent'[p] = IF p = o THEN n ELSE sent[p]
                      /\ ledger'[p] = IF p = o THEN e ELSE ledger[p]
    BY DEF TypeOK
  <1>2. SentOnce'
    BY <1>1 DEF RowInv, SentOnce
  <1>3. ReceiptIsTrue'
    BY <1>1 DEF RowInv, ReceiptIsTrue
  <1>4. LedgerIsConfirmed'
    BY <1>1 DEF RowInv, LedgerIsConfirmed
  <1>5. PartsInOrder'
    <2> SUFFICES ASSUME NEW i \in Text, i > 1, sent'[i] > 0  PROVE op'[i - 1] = "succeeded"
      BY DEF PartsInOrder
    <2>1. i \in Op /\ i - 1 \in Op /\ i - 1 # i
      BY DEF Text, Op, SocialSendAssumption
    <2>2. CASE i = o
      BY <1>1, <2>1, <2>2
    <2>3. CASE i # o
      <3>1. op[i - 1] = "succeeded"
        BY <1>1, <2>1, <2>3 DEF RowInv, PartsInOrder
      <3> QED BY <1>1, <2>1, <3>1
    <2> QED BY <2>2, <2>3
  <1> QED BY <1>2, <1>3, <1>4, <1>5 DEF RowInv

(* What a task at a part knows, in one place.                              *)
LEMMA AtPart ==
    ASSUME SocialSendAssumption, IInv, NEW t \in Task, run[t].pc \in Loop
    PROVE  LET o == run[t].part IN
           /\ run[t] \in Run /\ o \in Op /\ op[o] \in Status
           /\ t = Worker => o = 0 /\ intent # "none"
           /\ t # Worker => t \in Caller /\ o \in Text
           /\ sent[o] \in {0, 1} /\ ledger[o] \in {0, 1}
           /\ o > 1 => op[o - 1] = "succeeded"
           /\ op[o] # "succeeded" => ledger[o] = 0
           /\ run[t].pc \in Busy =>
                /\ op[o] = "executing" /\ ~Local
                /\ \A u \in Task : u # t /\ run[u].pc \in Busy => run[u].part # o
PROOF
  <1> DEFINE o == run[t].part
  <1>1. run[t] \in Run /\ o \in Op /\ op[o] \in Status /\ run[t].pc # "idle"
    BY DEF IInv, TypeOK, RunInv, Run, Loop, Busy
  <1>2. (t = Worker => o = 0 /\ intent # "none") /\ (t # Worker => t \in Caller /\ o \in Text)
    BY <1>1 DEF IInv, RunInv, Task
  <1>3. sent[o] \in {0, 1}
    <2>1. sent[o] \in Nat /\ sent[o] <= 1
      BY <1>1 DEF IInv, TypeOK, RowInv, SentOnce
    <2> QED BY <2>1
  <1>4. ledger[o] \in {0, 1} /\ (op[o] # "succeeded" => ledger[o] = 0)
    <2>1. ledger[o] \in 0..1 /\ (ledger[o] = 1 => op[o] = "succeeded")
      BY <1>1 DEF IInv, TypeOK, RowInv, LedgerIsConfirmed
    <2> QED BY <2>1
  <1>5. TaskInv(t)
    BY DEF IInv
  <1>6. o > 1 => op[o - 1] = "succeeded"
    BY <1>5 DEF TaskInv
  <1>7. run[t].pc \in Busy => /\ op[o] = "executing" /\ ~Local
                              /\ \A u \in Task : u # t /\ run[u].pc \in Busy => run[u].part # o
    BY <1>5 DEF TaskInv, IInv, OneDispatcher
  <1> QED BY <1>1, <1>2, <1>3, <1>4, <1>6, <1>7

(* One task moves and writes the rows of its part.                         *)
LEMMA PartMove ==
    ASSUME SocialSendAssumption, IInv, up, up',
           NEW t \in Task, NEW r \in Run, run' = [run EXCEPT ![t] = r], run[t].pc \in Loop,
           t = Worker => r.part = 0 /\ r.pc # "prepare",
           t # Worker => r.pc # "prepare" /\ (r.pc \in Loop => r.part \in Text),
           NEW o \in Op, run[t].part = o,
           NEW status \in Status, op' = [op EXCEPT ![o] = status],
           op[o] = "succeeded" => status = "succeeded", status # "absent",
           NEW n \in {0, 1}, sent' = [sent EXCEPT ![o] = n],
           NEW e \in {0, 1}, ledger' = [ledger EXCEPT ![o] = e],
           status = "succeeded" => n = 1,
           status \in {"failed", "prepared"} => n = 0,
           e = 1 => status = "succeeded",
           Local /\ status = "succeeded" => e = 1,
           DeliveryAgrees',
           delivery' \in [Op -> {"none", "reserved", "accepted", "failed", "unknown"}],
           status # op[o] \/ n # sent[o] =>
               \A u \in Task : u # t /\ run[u].pc \in Busy => run[u].part # o,
           r.pc \in Busy => r.part = o /\ \A u \in Task : u # t /\ run[u].pc \in Busy => run[u].part # o,
           TaskInv(t)',
           UNCHANGED <<parent, allowed, calls>>,
           intent' \in {intent, "open"},
           woken' \in BOOLEAN, faults' \in 0..MaxFaults
    PROVE  IInv'
PROOF
  <1>1. t = Worker => o = 0 /\ intent # "none"
    BY AtPart
  <1>2. o > 1 => op[o - 1] = "succeeded"
    BY AtPart
  <1>3. RunInv'
    <2>1. intent # "none" => intent' # "none"
      OBVIOUS
    <2> QED BY <1>1, <2>1, MoveKeepsRunInv DEF IInv
  <1>4. TypeOK /\ RowInv /\ sent \in [Op -> Nat] /\ ledger \in [Op -> 0..1] /\ op \in [Op -> Status]
    BY DEF IInv, TypeOK
  <1>5. \A p \in Op \ {o} : sent'[p] = sent[p]
    BY <1>4
  <1>6. status # op[o] \/ sent'[o] # sent[o] =>
            \A u \in Task : u # t /\ run[u].pc \in Busy => run[u].part # o
    BY <1>4
  <1>7. (\A u \in Task : TaskInv(u))' /\ OneDispatcher' /\ PlanInv'
    BY <1>5, <1>6, PartMoveKeepsTasks DEF IInv
  <1>8. RowInv'
    BY <1>2, <1>4, PartMoveKeepsRows
  <1>9. TypeOK'
    <2>1. op' \in [Op -> Status]
      BY <1>4
    <2>2. sent' \in [Op -> Nat] /\ ledger' \in [Op -> 0..1]
      BY <1>4
    <2>3. op'[0] # "absent" => intent' # "none"
      <3>1. CASE t = Worker
        BY <1>1, <3>1
      <3>2. CASE t # Worker
        <4>1. o \in Text /\ 0 \notin Text /\ 0 \in Op
          BY <3>2, AtPart DEF Text, Op, SocialSendAssumption
        <4>2. op'[0] = op[0]
          BY <1>4, <4>1
        <4> QED BY <4>2 DEF IInv, TypeOK
      <3> QED BY <3>1, <3>2
    <2>4. /\ parent' \in {"absent", "prepared", "failed"}
          /\ intent' \in {"none", "open", "selected", "closed"}
          /\ allowed' \in BOOLEAN /\ up' \in BOOLEAN /\ calls' \in 0..MaxCalls
      BY DEF IInv, TypeOK
    <2> QED BY <1>3, <1>4, <2>1, <2>2, <2>3, <2>4, TypeFromRun
  <1> QED BY <1>3, <1>7, <1>8, <1>9 DEF IInv

(* A column nobody writes, as PartMove wants to see it.                    *)
LEMMA SameColumns ==
    ASSUME TypeOK, NEW o \in Op
    PROVE  /\ op = [op EXCEPT ![o] = op[o]]
           /\ sent = [sent EXCEPT ![o] = sent[o]]
           /\ ledger = [ledger EXCEPT ![o] = ledger[o]]
PROOF BY DEF TypeOK

(* prepare: the row is there, or its receipt is the answer.                *)
LEMMA OpenKeepsIInv ==
    ASSUME SocialSendAssumption, IInv, NEW t \in Task, Open(t)
    PROVE  IInv'
PROOF
  <1> DEFINE o == run[t].part
  <1>1. up /\ up' /\ run[t].pc = "open" /\ run[t].pc \in Loop
    BY DEF Open, At, Loop
  <1>2. /\ run[t] \in Run /\ o \in Op /\ op[o] \in Status
        /\ t = Worker => o = 0 /\ intent # "none"
        /\ t # Worker => t \in Caller /\ o \in Text
        /\ sent[o] \in {0, 1} /\ ledger[o] \in {0, 1}
        /\ o > 1 => op[o - 1] = "succeeded"
        /\ op[o] # "succeeded" => ledger[o] = 0
    BY <1>1, AtPart
  <1>3. /\ op = [op EXCEPT ![o] = op[o]] /\ sent' = [sent EXCEPT ![o] = sent[o]]
        /\ ledger' = [ledger EXCEPT ![o] = ledger[o]]
    BY <1>2, SameColumns DEF IInv, Open
  <1>4. /\ op[o] = "succeeded" => sent[o] = 1
        /\ op[o] \in {"failed", "prepared", "absent"} => sent[o] = 0
        /\ ledger[o] = 1 => op[o] = "succeeded"
        /\ Local /\ op[o] = "succeeded" => ledger[o] = 1
    BY <1>2 DEF IInv, RowInv, ReceiptIsTrue, LedgerIsConfirmed
  <1>5. UNCHANGED <<parent, allowed, calls, intent>> /\ woken' \in BOOLEAN /\ faults' \in 0..MaxFaults
    BY DEF IInv, TypeOK, Open
  <1>6. TypeOK /\ DeliveryAgrees /\ RunInv
    BY DEF IInv, RowInv
  <1>7. CASE op[o] \in {"absent", "prepared"}
    <2> DEFINE r == [run[t] EXCEPT !.pc = "claim"]
    <2>1. r \in Run /\ r.pc = "claim" /\ r.part = o /\ r.pc \notin Busy
      BY <1>2 DEF Run, Pc, Loop, Busy
    <2>2. run' = [run EXCEPT ![t] = r] /\ run'[t] = r
      BY <1>2, <1>6, <1>7 DEF Open, GoTo, RunInv
    <2>3. op' = [op EXCEPT ![o] = "prepared"] /\ delivery' = delivery
      BY <1>7 DEF Open
    <2>4. \A p \in Op : op'[p] = IF p = o THEN "prepared" ELSE op[p]
      BY <1>6, <2>3 DEF TypeOK
    <2>5. DeliveryAgrees' /\ delivery' \in [Op -> {"none", "reserved", "accepted", "failed", "unknown"}]
      <3>1. Text \subseteq Op
        BY DEF Text, Op, SocialSendAssumption
      <3> QED BY <1>6, <1>7, <2>3, <2>4, <3>1 DEF DeliveryAgrees, TypeOK
    <2>6. TaskInv(t)'
      <3>1. o > 1 => o - 1 \in Op /\ o - 1 # o
        BY <1>2 DEF Op, SocialSendAssumption
      <3> HIDE DEF r, o
      <3>2. run'[t].part = o /\ run'[t].pc = "claim"
        BY <2>1, <2>2
      <3>3. op'[o] # "absent" /\ (o > 1 => op'[o - 1] = "succeeded")
        BY <1>2, <2>4, <3>1
      <3> QED BY <3>2, <3>3 DEF TaskInv, Busy
    <2>7. "prepared" # op[o] \/ sent[o] # sent[o] =>
              \A u \in Task : u # t /\ run[u].pc \in Busy => run[u].part # o
      BY <1>7 DEF IInv, TaskInv
    <2>8. "prepared" \in Status
      BY DEF Status
    <2> HIDE DEF r, o
    <2> QED BY <1>1, <1>2, <1>3, <1>4, <1>5, <1>7, <2>1, <2>2, <2>3, <2>5, <2>6, <2>7, <2>8,
               PartMove DEF o
  <1>8. CASE op[o] \notin {"absent", "prepared"}
    <2> DEFINE r == AfterResult(t, op[o])
    <2>1. /\ r \in Run /\ r.pc \in {"close", "stop", "idle", "open"}
          /\ t = Worker => r.part = 0 /\ r.pc = "close"
          /\ r.pc = "open" => t # Worker /\ op[o] = "succeeded" /\ r.part = o + 1 /\ r.part \in Text
      BY <1>6, AfterResultMoves
    <2>2. run' = [run EXCEPT ![t] = r] /\ run'[t] = r
      BY <1>2, <1>6, <1>8 DEF Open, RunInv
    <2>3. op' = op /\ delivery' = Recorded(o, op[o])
      BY <1>8 DEF Open
    <2>4. DeliveryAgrees' /\ delivery' \in [Op -> {"none", "reserved", "accepted", "failed", "unknown"}]
      BY <1>2, <1>3, <1>6, <2>3, RecordedAgrees
    <2>5. TaskInv(t)'
      <3>1. o \in Nat
        BY <1>2 DEF Op, SocialSendAssumption
      <3>2. ASSUME r.pc = "open"  PROVE r.part - 1 = o
        <4>1. r.part = o + 1
          BY <2>1, <3>2
        <4> HIDE DEF r, o
        <4> QED BY <3>1, <4>1
      <3> HIDE DEF r, o
      <3>3. r.pc = "open" => op'[r.part - 1] = "succeeded"
        BY <2>1, <2>3, <3>2
      <3>4. run'[t].pc \in {"close", "stop", "idle", "open"}
        BY <2>1, <2>2
      <3>5. run'[t].pc = "open" => op'[run'[t].part - 1] = "succeeded"
        BY <2>2, <3>3
      <3> QED BY <3>4, <3>5 DEF TaskInv, Busy, Loop
    <2>6. r.pc \notin Busy /\ r.pc # "prepare" /\ (r.pc \in Loop => r.pc = "open")
      BY <2>1 DEF Loop, Busy
    <2>7. op' = [op EXCEPT ![o] = op[o]]
      BY <1>3, <2>3
    <2> HIDE DEF r, o
    <2> QED BY <1>1, <1>2, <1>3, <1>4, <1>5, <1>8, <2>1, <2>2, <2>4, <2>5, <2>6, <2>7,
               PartMove DEF o
  <1> QED BY <1>7, <1>8

(* The settlements: success with its event, what the second one repairs,   *)
(* and a claim whose call was never entered.                               *)
LEMMA SettlementKeepsIInv ==
    ASSUME SocialSendAssumption, IInv, NEW t \in Task, up, UNCHANGED up,
           run[t].pc \in Busy,
           NEW status \in {"succeeded", "failed", "uncertain"},
           op' = [op EXCEPT ![run[t].part] = status],
           delivery' = Recorded(run[t].part, status),
           NEW r \in Run, run' = [run EXCEPT ![t] = r],
           r.pc \in {"close", "stop", "idle", "open"},
           t = Worker => r.part = 0,
           r.pc = "open" => /\ t # Worker /\ status = "succeeded"
                            /\ r.part = run[t].part + 1 /\ r.part \in Text,
           status = "succeeded" => sent[run[t].part] = 1,
           status = "failed" => sent[run[t].part] = 0,
           NEW e \in {0, 1}, ledger' = [ledger EXCEPT ![run[t].part] = e],
           e = 1 => status = "succeeded",
           UNCHANGED <<parent, sent, intent, allowed, calls, faults>>, woken' \in BOOLEAN
    PROVE  IInv'
PROOF
  <1> DEFINE o == run[t].part
  <1>1. run[t].pc \in Loop
    BY DEF Loop
  <1>2. /\ run[t] \in Run /\ o \in Op /\ op[o] = "executing" /\ ~Local
        /\ sent[o] \in {0, 1}
        /\ \A u \in Task : u # t /\ run[u].pc \in Busy => run[u].part # o
    BY <1>1, AtPart
  <1>3. TypeOK /\ DeliveryAgrees /\ RunInv /\ status \in Status /\ faults' \in 0..MaxFaults
    BY DEF IInv, RowInv, TypeOK, Status
  <1>4. sent' = [sent EXCEPT ![o] = sent[o]]
    BY <1>2, <1>3, SameColumns
  <1>5. DeliveryAgrees' /\ delivery' \in [Op -> {"none", "reserved", "accepted", "failed", "unknown"}]
    BY <1>2, <1>3, RecordedAgrees
  <1>6. run'[t] = r /\ op'[o] = status
    BY <1>2, <1>3 DEF RunInv, TypeOK
  <1>7. TaskInv(t)'
    <2>1. o \in Nat
      BY <1>2 DEF Op, SocialSendAssumption
    <2>2. ASSUME r.pc = "open"  PROVE r.part - 1 = o
      <3>1. r.part = o + 1
        BY <2>2
      <3> HIDE DEF o
      <3> QED BY <2>1, <3>1
    <2> HIDE DEF o
    <2>3. r.pc = "open" => op'[r.part - 1] = "succeeded"
      <3>1. r.pc = "open" => status = "succeeded"
        OBVIOUS
      <3> QED BY <1>6, <2>2, <3>1
    <2>4. run'[t].pc \in {"close", "stop", "idle", "open"}
      BY <1>6
    <2>5. run'[t].pc = "open" => op'[run'[t].part - 1] = "succeeded"
      BY <1>6, <2>3
    <2> QED BY <2>4, <2>5 DEF TaskInv, Busy, Loop
  <1>8. r.pc \notin Busy /\ r.pc # "prepare" /\ (r.pc \in Loop => r.pc = "open")
    BY DEF Loop, Busy
  <1>9. status # "absent" /\ status # "prepared" /\ op[o] # "succeeded"
    BY <1>2
  <1>10. up'
    OBVIOUS
  <1> HIDE DEF o
  <1> QED BY <1>1, <1>2, <1>3, <1>4, <1>5, <1>7, <1>8, <1>9, <1>10, PartMove DEF o

LEMMA UnenteredKeepsIInv ==
    ASSUME SocialSendAssumption, IInv, NEW t \in Task, Unentered(t)
    PROVE  IInv'
PROOF
  <1>1. up /\ run[t].pc = "unentered" /\ run[t].pc \in Busy /\ run[t].pc \in Loop
    BY DEF Unentered, At, Loop, Busy
  <1>2. run[t].part \in Op /\ ledger[run[t].part] \in {0, 1}
        /\ (ledger[run[t].part] = 1 => FALSE)
    BY <1>1, AtPart
  <1>3. sent[run[t].part] = 0
    BY <1>1 DEF IInv, TaskInv
  <1>4. PICK e \in {0, 1} : e = 0 /\ ledger' = [ledger EXCEPT ![run[t].part] = e]
    <2>1. ledger[run[t].part] = 0
      BY <1>2
    <2> QED BY <1>2, <2>1, SameColumns DEF IInv, Unentered
  <1>5. /\ AfterError(t) \in Run /\ AfterError(t).pc \in {"close", "stop", "idle"}
        /\ t = Worker => AfterError(t).part = 0
    BY AfterErrorLeaves DEF IInv
  <1>6. woken' \in BOOLEAN
    BY DEF Unentered, IInv, TypeOK
  <1>7. /\ op' = [op EXCEPT ![run[t].part] = "failed"]
        /\ delivery' = Recorded(run[t].part, "failed")
        /\ run' = [run EXCEPT ![t] = AfterError(t)]
        /\ UNCHANGED <<parent, sent, intent, allowed, up, calls, faults>>
    BY DEF Unentered
  <1>8. e = 1 => FALSE
    BY <1>4
  <1> QED BY <1>1, <1>3, <1>4, <1>5, <1>6, <1>7, <1>8, SettlementKeepsIInv

(* Settle and Repair: what Settled writes, with or without the event.      *)
LEMMA SettledKeepsIInv ==
    ASSUME SocialSendAssumption, IInv, NEW t \in Task, up, UNCHANGED up, run[t].pc \in Busy,
           NEW status \in {"succeeded", "failed", "uncertain"}, Settled(t, status),
           status = "succeeded" => sent[run[t].part] = 1,
           status = "failed" => sent[run[t].part] = 0,
           NEW e \in {0, 1}, ledger' = [ledger EXCEPT ![run[t].part] = e],
           e = 1 => status = "succeeded",
           UNCHANGED <<parent, sent, intent, allowed, calls, faults>>
    PROVE  IInv'
PROOF
  <1> DEFINE r == AfterResult(t, status)
  <1>1. /\ r \in Run /\ r.pc \in {"close", "stop", "idle", "open"}
        /\ t = Worker => r.part = 0 /\ r.pc = "close"
        /\ r.pc = "open" => /\ t # Worker /\ status = "succeeded"
                            /\ r.part = run[t].part + 1 /\ r.part \in Text
    BY AfterResultMoves DEF IInv
  <1>2. /\ op' = [op EXCEPT ![run[t].part] = status]
        /\ delivery' = Recorded(run[t].part, status)
        /\ run' = [run EXCEPT ![t] = r]
    BY DEF Settled
  <1>3. woken' \in BOOLEAN
    BY DEF Settled, IInv, TypeOK
  <1> HIDE DEF r
  <1> QED BY <1>1, <1>2, <1>3, SettlementKeepsIInv

LEMMA SettleKeepsIInv ==
    ASSUME SocialSendAssumption, IInv, NEW t \in Task, Settle(t)
    PROVE  IInv'
PROOF
  <1> DEFINE o == run[t].part
  <1>1. up /\ run[t].pc = "settle" /\ run[t].pc \in Busy /\ run[t].pc \in Loop
    BY DEF Settle, At, Loop, Busy
  <1>2. o \in Op /\ ledger[o] = 0 /\ sent[o] = 1
    <2>1. o \in Op /\ ledger[o] = 0
      BY <1>1, AtPart
    <2>2. sent[o] = 1
      BY <1>1 DEF IInv, TaskInv
    <2> QED BY <2>1, <2>2
  <1>3. PICK kept \in {0, 1} : ledger' = [ledger EXCEPT ![o] = @ + kept]
    BY DEF Settle
  <1>4. ledger' = [ledger EXCEPT ![o] = kept]
    BY <1>2, <1>3
  <1>5. Settled(t, "succeeded") /\ UNCHANGED <<parent, sent, intent, allowed, up, calls, faults>>
    BY DEF Settle
  <1> QED BY <1>1, <1>2, <1>4, <1>5, SettledKeepsIInv

LEMMA RepairKeepsIInv ==
    ASSUME SocialSendAssumption, IInv, NEW t \in Task, Repair(t)
    PROVE  IInv'
PROOF
  <1> DEFINE status == RepairedStatus(run[t].outcome)
  <1>1. up /\ run[t].pc = "repair" /\ run[t].pc \in Busy /\ run[t].pc \in Loop
    BY DEF Repair, At, Loop, Busy
  <1>2. run[t].part \in Op /\ ledger[run[t].part] = 0
    BY <1>1, AtPart
  <1>3. /\ run[t].outcome = "confirmed" => sent[run[t].part] = 1
        /\ run[t].outcome = "refused" => sent[run[t].part] = 0
    BY <1>1 DEF IInv, TaskInv
  <1>4. /\ status \in {"succeeded", "failed", "uncertain"}
        /\ status = "succeeded" => sent[run[t].part] = 1
        /\ status = "failed" => sent[run[t].part] = 0
    BY <1>3 DEF RepairedStatus
  <1>5. PICK e \in {0, 1} : e = 0 /\ ledger' = [ledger EXCEPT ![run[t].part] = e]
    BY <1>2, SameColumns DEF IInv, Repair
  <1>6. Settled(t, status) /\ UNCHANGED <<parent, sent, intent, allowed, up, calls, faults>>
    BY DEF Repair
  <1>7. e = 1 => FALSE
    BY <1>5
  <1> HIDE DEF status
  <1> QED BY <1>1, <1>4, <1>5, <1>6, <1>7, SettledKeepsIInv

(* The one gateway call of a claim.                                        *)
LEMMA ReachKeepsIInv ==
    ASSUME SocialSendAssumption, IInv, NEW t \in Task, Reach(t)
    PROVE  IInv'
PROOF
  <1> DEFINE o == run[t].part
             r == [run[t] EXCEPT !.pc = "reached"]
  <1>1. up /\ up' /\ run[t].pc = "dispatch" /\ run[t].pc \in Busy /\ run[t].pc \in Loop
    BY DEF Reach, At, Loop, Busy
  <1>2. /\ run[t] \in Run /\ o \in Op /\ op[o] = "executing" /\ ~Local /\ ledger[o] = 0
        /\ t = Worker => o = 0
        /\ t # Worker => o \in Text
        /\ o > 1 => op[o - 1] = "succeeded"
        /\ \A u \in Task : u # t /\ run[u].pc \in Busy => run[u].part # o
    BY <1>1, AtPart
  <1>3. sent[o] = 0 /\ sent \in [Op -> Nat]
    BY <1>1 DEF IInv, TaskInv, TypeOK
  <1>4. PICK n \in {0, 1} : n = 1 /\ sent' = [sent EXCEPT ![o] = n] /\ sent'[o] = 1
    BY <1>2, <1>3 DEF Reach
  <1>5. r \in Run /\ r.pc = "reached" /\ r.part = o
    BY <1>2 DEF Run, Pc, Loop, Busy
  <1>6. run' = [run EXCEPT ![t] = r] /\ run'[t] = r
    BY <1>2 DEF Reach, GoTo, IInv, RunInv
  <1>7. UNCHANGED <<parent, op, delivery, ledger, intent, allowed, calls, faults, woken>>
    BY DEF Reach, rows
  <1>8. PICK e \in {0, 1} : e = 0 /\ ledger' = [ledger EXCEPT ![o] = e]
    BY <1>2, <1>7, SameColumns DEF IInv
  <1>12. PICK status \in Status : status = "executing" /\ op' = [op EXCEPT ![o] = status]
    BY <1>2, <1>7, SameColumns DEF IInv, Status
  <1>9. /\ DeliveryAgrees'
        /\ delivery' \in [Op -> {"none", "reserved", "accepted", "failed", "unknown"}]
        /\ woken' \in BOOLEAN /\ faults' \in 0..MaxFaults
    BY <1>7 DEF IInv, RowInv, TypeOK, DeliveryAgrees
  <1> HIDE DEF r, o
  <1>10. TaskInv(t)'
    <2>1. run'[t].pc = "reached" /\ run'[t].part = o
      BY <1>5, <1>6
    <2>2. op'[o] = "executing" /\ (o > 1 => op'[o - 1] = "succeeded")
      BY <1>2, <1>7
    <2> QED BY <1>2, <1>4, <2>1, <2>2 DEF TaskInv, Busy, Loop
  <1>11. /\ r.pc # "prepare" /\ e # 1 /\ status # "succeeded" /\ status # "absent"
         /\ status \notin {"failed", "prepared"}
    BY <1>5, <1>8, <1>12
  <1>13. run[t].part = o
    BY DEF o
  <1>14. /\ t = Worker => r.part = 0 /\ r.pc # "prepare"
         /\ t # Worker => r.pc # "prepare" /\ (r.pc \in Loop => r.part \in Text)
         /\ intent' \in {intent, "open"} /\ UNCHANGED <<parent, allowed, calls>>
         /\ op[o] = "succeeded" => status = "succeeded"
         /\ status = "succeeded" => n = 1
         /\ status \in {"failed", "prepared"} => n = 0
         /\ e = 1 => status = "succeeded"
         /\ Local /\ status = "succeeded" => e = 1
    BY <1>2, <1>5, <1>7, <1>11
  <1> QED BY <1>1, <1>2, <1>4, <1>5, <1>6, <1>8, <1>9, <1>10, <1>11, <1>12, <1>13, <1>14, PartMove

-----------------------------------------------------------------------------
(* The claim.                                                              *)

(* The state of the row when the transaction of a claim has committed.     *)
ClaimStatus(o) ==
    IF Local /\ Claims(o) THEN "succeeded" ELSE IF Claims(o) THEN "executing" ELSE op[o]

(* What the transaction writes besides the row: a delivery is reserved     *)
(* only of a part that is claimed in the end.                              *)
LEMMA ClaimDelivers ==
    ASSUME SocialSendAssumption, IInv, NEW t \in Task, NEW lost, Claim(t, lost)
    PROVE  LET o == run[t].part
               status == ClaimStatus(o) IN
           /\ op' = [op EXCEPT ![o] = status]
           /\ status \in Status \ {"absent", "prepared"}
           /\ DeliveryAgrees'
           /\ delivery' \in [Op -> {"none", "reserved", "accepted", "failed", "unknown"}]
           /\ UNCHANGED <<parent, allowed, calls>> /\ up /\ up'
           /\ intent' \in {intent, "open"} /\ woken' \in BOOLEAN /\ faults' \in 0..MaxFaults
PROOF
  <1> DEFINE o == run[t].part
             status == ClaimStatus(o)
  <1>1. up /\ up' /\ run[t].pc = "claim" /\ run[t].pc \in Loop
    BY DEF Claim, At, Loop
  <1>2. o \in Op /\ op[o] \in Status /\ op[o] # "absent"
    <2>1. TaskInv(t)
      BY DEF IInv
    <2> QED BY <1>1, <2>1, AtPart DEF TaskInv
  <1>3. op' = [op EXCEPT ![o] = status] /\ status \in Status \ {"absent", "prepared"}
    BY <1>2 DEF Claim, ClaimStatus, Claims, Status
  <1>4. TypeOK /\ DeliveryAgrees
    BY DEF IInv, RowInv
  <1>5. /\ delivery' \in {delivery, [delivery EXCEPT ![o] = "reserved"],
                          [delivery EXCEPT ![o] = "accepted"]}
        /\ delivery' # delivery /\ delivery'[o] = "accepted" => status = "succeeded"
    <2> DEFINE reserved == IF Leased /\ o # 0 THEN [delivery EXCEPT ![o] = "reserved"] ELSE delivery
    <2>1. delivery' = IF Local /\ Claims(o) /\ Leased /\ o # 0
                      THEN [reserved EXCEPT ![o] = "accepted"] ELSE reserved
      BY DEF Claim
    <2>2. delivery \in [Op -> {"none", "reserved", "accepted", "failed", "unknown"}]
      BY <1>4 DEF TypeOK
    <2>3. CASE Local /\ Claims(o) /\ Leased /\ o # 0
      <3>1. delivery' = [delivery EXCEPT ![o] = "accepted"]
        BY <2>1, <2>2, <2>3
      <3>2. status = "succeeded"
        BY <2>3 DEF ClaimStatus
      <3> QED BY <3>1, <3>2
    <2>4. CASE ~(Local /\ Claims(o) /\ Leased /\ o # 0)
      <3>1. delivery' = reserved
        BY <2>1, <2>4
      <3>2. CASE Leased /\ o # 0
        <4>1. delivery' = [delivery EXCEPT ![o] = "reserved"] /\ delivery'[o] = "reserved"
          BY <1>2, <2>2, <3>1, <3>2
        <4> QED BY <4>1
      <3>3. CASE ~(Leased /\ o # 0)
        <4>1. delivery' = delivery
          BY <3>1, <3>3
        <4> QED BY <4>1
      <3> QED BY <3>2, <3>3
    <2> QED BY <2>3, <2>4
  <1> HIDE DEF status, o
  <1>6. delivery' \in [Op -> {"none", "reserved", "accepted", "failed", "unknown"}]
    BY <1>4, <1>5 DEF TypeOK
  <1>7. \A p \in Op : op'[p] = IF p = o THEN status ELSE op[p]
    BY <1>3, <1>4 DEF TypeOK
  <1>8. DeliveryAgrees'
    <2> SUFFICES ASSUME NEW i \in Text
                 PROVE  /\ delivery'[i] = "accepted" => op'[i] = "succeeded"
                        /\ delivery'[i] = "failed" => op'[i] = "failed"
                        /\ delivery'[i] # "none" => op'[i] \notin {"absent", "prepared"}
      BY DEF DeliveryAgrees
    <2>1. i \in Op
      BY DEF Text, Op, SocialSendAssumption
    <2>2. CASE i # o
      <3>1. delivery'[i] = delivery[i] /\ op'[i] = op[i]
        BY <1>4, <1>5, <1>7, <2>1, <2>2 DEF TypeOK
      <3> QED BY <1>4, <3>1 DEF DeliveryAgrees
    <2>3. CASE i = o /\ delivery' = delivery
      <3>1. op'[i] = status /\ delivery'[i] = delivery[i]
        BY <1>7, <2>1, <2>3
      <3>2. delivery[i] = "accepted" => op[i] = "succeeded"
        BY <1>4 DEF DeliveryAgrees
      <3>3. delivery[i] = "failed" => op[i] = "failed"
        BY <1>4 DEF DeliveryAgrees
      <3>4. ~Claims(o) => status = op[o]
        BY DEF status, ClaimStatus
      <3>5. Claims(o) => delivery[i] = "none"
        BY <1>4, <2>3 DEF Claims, DeliveryAgrees
      <3> QED BY <1>3, <2>3, <3>1, <3>2, <3>3, <3>4, <3>5
    <2>4. CASE i = o /\ delivery' # delivery
      <3>1. delivery'[i] \in {"reserved", "accepted"} /\ op'[i] = status
        BY <1>4, <1>5, <1>7, <2>1, <2>4 DEF TypeOK
      <3> QED BY <1>3, <1>5, <2>4, <3>1
    <2> QED BY <2>2, <2>3, <2>4
  <1>9. UNCHANGED <<parent, allowed, calls>> /\ intent' \in {intent, "open"}
    BY DEF Claim
  <1>10. woken' \in BOOLEAN
    BY DEF Claim
  <1>11. faults' \in 0..MaxFaults
    <2>1. Fault \/ UNCHANGED faults
      BY DEF Claim
    <2> QED BY <1>4, <2>1, FaultBound DEF TypeOK
  <1> QED BY <1>1, <1>3, <1>6, <1>8, <1>9, <1>10, <1>11 DEF o, status

(* Where the claim sends the task, by who won it and over which route.     *)
LEMMA ClaimMoves ==
    ASSUME SocialSendAssumption, IInv, NEW t \in Task, NEW lost \in BOOLEAN, Claim(t, lost)
    PROVE  LET o == run[t].part
               status == ClaimStatus(o) IN
           \E r \in Run :
             /\ run' = [run EXCEPT ![t] = r]
             /\ r.pc \in {"close", "stop", "idle", "open", "unentered", "dispatch"}
             /\ t = Worker => r.part = 0
             /\ r.pc = "open" => /\ r.part = o \/ (t # Worker /\ status = "succeeded"
                                                   /\ r.part = o + 1 /\ r.part \in Text)
             /\ r.pc \in Busy => r.part = o /\ Claims(o) /\ ~Local
PROOF
  <1> DEFINE o == run[t].part
             status == ClaimStatus(o)
  <1>1. run[t] \in Run /\ RunInv /\ run[t].pc = "claim"
    BY DEF IInv, RunInv, Claim, At
  <1>2. t = Worker => run[t].part = 0
    BY <1>1 DEF RunInv
  <1>3. CASE Local /\ (Claims(o) \/ lost)
    <2> DEFINE r == AfterResult(t, status)
    <2>1. run' = [run EXCEPT ![t] = r]
      BY <1>3 DEF Claim, ClaimStatus
    <2>2. /\ r \in Run /\ r.pc \in {"close", "stop", "idle", "open"}
          /\ t = Worker => r.part = 0 /\ r.pc = "close"
          /\ r.pc = "open" => /\ t # Worker /\ status = "succeeded"
                              /\ r.part = o + 1 /\ r.part \in Text
      BY <1>1, AfterResultMoves
    <2> HIDE DEF r, status, o
    <2> QED BY <2>1, <2>2 DEF Busy, o, status
  <1>4. CASE ~(Local /\ (Claims(o) \/ lost)) /\ ~Claims(o) /\ lost
    <2>1. run' = [run EXCEPT ![t] = AfterError(t)]
      BY <1>4 DEF Claim
    <2>2. /\ AfterError(t) \in Run /\ AfterError(t).pc \in {"close", "stop", "idle"}
          /\ t = Worker => AfterError(t).part = 0
      BY <1>1, AfterErrorLeaves
    <2> HIDE DEF status, o
    <2> QED BY <2>1, <2>2 DEF Busy, o, status
  <1>5. CASE ~Claims(o) /\ ~lost
    <2> DEFINE r == [run[t] EXCEPT !.pc = "open"]
    <2>1. run' = [run EXCEPT ![t] = r]
      BY <1>1, <1>5 DEF Claim, RunInv
    <2>2. r \in Run /\ r.pc = "open" /\ r.part = o
      BY <1>1 DEF Run, Pc, Loop
    <2> HIDE DEF r, status
    <2> QED BY <1>2, <2>1, <2>2 DEF Busy, status
  <1>6. CASE Claims(o) /\ ~Local
    <2> DEFINE r == [run[t] EXCEPT !.pc = IF lost \/ run[t].stop THEN "unentered" ELSE "dispatch"]
    <2>1. run' = [run EXCEPT ![t] = r]
      BY <1>1, <1>6 DEF Claim, RunInv
    <2>2. r \in Run /\ r.pc \in {"unentered", "dispatch"} /\ r.part = o
      BY <1>1 DEF Run, Pc, Loop, Busy
    <2> HIDE DEF r, status
    <2> QED BY <1>2, <1>6, <2>1, <2>2 DEF Busy, status
  <1> QED BY <1>3, <1>4, <1>5, <1>6

(* Whoever finds the row prepared has the claim: there was no call yet and *)
(* nobody else is between a claim and its settlement.                      *)
LEMMA ClaimKeepsIInv ==
    ASSUME SocialSendAssumption, IInv, NEW t \in Task, NEW lost \in BOOLEAN, Claim(t, lost)
    PROVE  IInv'
PROOF
  <1> DEFINE o == run[t].part
  <1>1. run[t].pc = "claim" /\ run[t].pc \in Loop
    BY DEF Claim, At, Loop
  <1>2. /\ o \in Op /\ op[o] \in Status /\ sent[o] \in {0, 1} /\ ledger[o] \in {0, 1}
        /\ t = Worker => o = 0
        /\ t # Worker => o \in Text
        /\ o > 1 => op[o - 1] = "succeeded"
    BY <1>1, AtPart
  <1>3. PICK status \in Status :
          /\ status = ClaimStatus(o) /\ status \notin {"absent", "prepared"}
          /\ op' = [op EXCEPT ![o] = status]
    BY ClaimDelivers
  <1>4. PICK r \in Run :
          /\ run' = [run EXCEPT ![t] = r]
          /\ r.pc \in {"close", "stop", "idle", "open", "unentered", "dispatch"}
          /\ t = Worker => r.part = 0
          /\ r.pc = "open" => \/ r.part = o
                              \/ t # Worker /\ status = "succeeded" /\ r.part = o + 1 /\ r.part \in Text
          /\ r.pc \in Busy => r.part = o /\ Claims(o) /\ ~Local
    BY <1>3, ClaimMoves
  <1>5. /\ Claims(o) => sent[o] = 0 /\ ledger[o] = 0
        /\ op[o] = "succeeded" => sent[o] = 1
        /\ op[o] = "failed" => sent[o] = 0
        /\ ledger[o] = 1 => op[o] = "succeeded"
        /\ Local /\ op[o] = "succeeded" => ledger[o] = 1
    BY <1>2 DEF IInv, RowInv, ReceiptIsTrue, LedgerIsConfirmed, Claims
  <1>6. PICK n \in {0, 1} :
          /\ sent' = [sent EXCEPT ![o] = n]
          /\ n = IF Local /\ Claims(o) THEN 1 ELSE sent[o]
    <2>1. CASE Local /\ Claims(o)
      <3>1. sent' = [sent EXCEPT ![o] = 1]
        <4>1. sent' = [sent EXCEPT ![o] = sent[o] + 1]
          BY <2>1 DEF Claim
        <4>2. sent[o] + 1 = 1
          BY <1>5, <2>1
        <4> QED BY <4>1, <4>2
      <3> QED BY <2>1, <3>1
    <2>2. CASE ~(Local /\ Claims(o))
      <3>1. sent' = [sent EXCEPT ![o] = sent[o]]
        BY <2>2 DEF Claim
      <3> QED BY <1>2, <2>2, <3>1
    <2> QED BY <2>1, <2>2
  <1>7. PICK e \in {0, 1} :
          /\ ledger' = [ledger EXCEPT ![o] = e]
          /\ e = IF Local /\ Claims(o) THEN 1 ELSE ledger[o]
    <2>1. CASE Local /\ Claims(o)
      <3>1. ledger' = [ledger EXCEPT ![o] = 1]
        <4>1. ledger' = [ledger EXCEPT ![o] = ledger[o] + 1]
          BY <2>1 DEF Claim
        <4>2. ledger[o] + 1 = 1
          BY <1>5, <2>1
        <4> QED BY <4>1, <4>2
      <3> QED BY <2>1, <3>1
    <2>2. CASE ~(Local /\ Claims(o))
      <3>1. ledger' = [ledger EXCEPT ![o] = ledger[o]]
        BY <2>2 DEF Claim
      <3> QED BY <1>2, <2>2, <3>1
    <2> QED BY <2>1, <2>2
  <1>8. Claims(o) => \A u \in Task : u # t /\ run[u].pc \in Busy => run[u].part # o
    BY DEF IInv, TaskInv, Claims
  <1>9. /\ status = "succeeded" => n = 1
        /\ status \in {"failed", "prepared"} => n = 0
        /\ e = 1 => status = "succeeded"
        /\ Local /\ status = "succeeded" => e = 1
        /\ op[o] = "succeeded" => status = "succeeded"
        /\ status # op[o] \/ n # sent[o] => Claims(o)
        /\ Claims(o) /\ ~Local => status = "executing" /\ n = 0
    BY <1>3, <1>5, <1>6, <1>7 DEF ClaimStatus, Claims
  <1>10. run'[t] = r /\ op'[o] = status /\ sent'[o] = n
         /\ (o > 1 => op'[o - 1] = "succeeded")
    <2>1. run \in [Task -> Run] /\ op \in [Op -> Status] /\ sent \in [Op -> Nat]
      BY DEF IInv, RunInv, TypeOK
    <2>2. o > 1 => o - 1 \in Op /\ o - 1 # o
      BY <1>2 DEF Op, SocialSendAssumption
    <2> HIDE DEF o
    <2> QED BY <1>2, <1>3, <1>4, <1>6, <2>1, <2>2
  <1>11. TaskInv(t)'
    <2>1. CASE r.pc \in {"close", "stop", "idle"}
      <3>1. run'[t].pc \in {"close", "stop", "idle"}
        BY <1>10, <2>1
      <3> QED BY <3>1 DEF TaskInv, Loop, Busy
    <2>2. CASE r.pc \in {"unentered", "dispatch"}
      <3>1. run'[t].pc \in {"unentered", "dispatch"} /\ run'[t].part = o /\ Claims(o) /\ ~Local
        BY <1>4, <1>10, <2>2 DEF Busy
      <3> HIDE DEF o
      <3>2. op'[o] = "executing" /\ sent'[o] = 0
        BY <1>9, <1>10, <3>1
      <3> QED BY <1>10, <3>1, <3>2 DEF TaskInv, Loop, Busy
    <2>3. CASE r.pc = "open" /\ r.part = o
      <3>1. run'[t].pc = "open" /\ run'[t].part = o
        BY <1>10, <2>3
      <3> HIDE DEF o
      <3> QED BY <1>10, <3>1 DEF TaskInv, Loop, Busy
    <2>4. CASE r.pc = "open" /\ r.part # o
      <3>1. run'[t].pc = "open" /\ run'[t].part = o + 1 /\ status = "succeeded"
        BY <1>4, <1>10, <2>4
      <3>2. o \in Nat
        BY <1>2 DEF Op, SocialSendAssumption
      <3> HIDE DEF o
      <3>3. run'[t].part - 1 = o
        BY <3>1, <3>2
      <3>4. op'[run'[t].part - 1] = "succeeded"
        BY <1>10, <3>1, <3>3
      <3> QED BY <3>1, <3>4 DEF TaskInv, Loop, Busy
    <2> QED BY <1>4, <2>1, <2>2, <2>3, <2>4
  <1>12. /\ DeliveryAgrees'
         /\ delivery' \in [Op -> {"none", "reserved", "accepted", "failed", "unknown"}]
         /\ UNCHANGED <<parent, allowed, calls>> /\ up /\ up'
         /\ intent' \in {intent, "open"} /\ woken' \in BOOLEAN /\ faults' \in 0..MaxFaults
    BY ClaimDelivers
  <1>13. /\ t = Worker => r.part = 0 /\ r.pc # "prepare"
         /\ t # Worker => r.pc # "prepare" /\ (r.pc \in Loop => r.part \in Text)
    BY <1>2, <1>4 DEF Loop, Busy
  <1>14. run[t].part = o
    OBVIOUS
  <1>15. /\ r.pc \in Busy => r.part = o /\ \A u \in Task : u # t /\ run[u].pc \in Busy => run[u].part # o
         /\ status # op[o] \/ n # sent[o] =>
               \A u \in Task : u # t /\ run[u].pc \in Busy => run[u].part # o
         /\ status # "absent"
    BY <1>3, <1>4, <1>8, <1>9
  <1> HIDE DEF o
  <1> QED BY <1>1, <1>2, <1>3, <1>4, <1>6, <1>7, <1>9, <1>11, <1>12, <1>13, <1>14, <1>15, PartMove

-----------------------------------------------------------------------------
(* The start of a call, the plan, and the restart.                         *)

(* execute: the call is answered from a receipt, or starts at part 1.      *)
LEMMA FindKeepsIInv ==
    ASSUME SocialSendAssumption, IInv, NEW t \in Task, Find(t)
    PROVE  IInv'
PROOF
  <1>1. up /\ up' /\ t # Worker /\ t \in Caller /\ run[t] = Idle
        /\ UNCHANGED <<parent, op, ledger, sent, intent, allowed, faults>>
    BY DEF Find, Task
  <1>2. calls' \in 0..MaxCalls /\ woken' \in BOOLEAN
    BY DEF Find, IInv, TypeOK, SocialSendAssumption
  <1>3. 1 \in Op /\ 1 \in Text
    BY DEF Op, Text, SocialSendAssumption
  <1>4. TypeOK /\ DeliveryAgrees /\ RunInv
    BY DEF IInv, RowInv
  <1>5. CASE UNCHANGED run /\ delivery' = IF Sequence THEN delivery ELSE Recorded(1, op[1])
    <2>1. DeliveryAgrees' /\ delivery' \in [Op -> {"none", "reserved", "accepted", "failed", "unknown"}]
      <3>1. CASE Sequence
        BY <1>1, <1>4, <1>5, <3>1 DEF DeliveryAgrees, TypeOK
      <3>2. CASE ~Sequence
        <4>1. op' = [op EXCEPT ![1] = op[1]] /\ op[1] \in Status
          BY <1>1, <1>3, <1>4, SameColumns DEF TypeOK
        <4> QED BY <1>3, <1>4, <1>5, <3>2, <4>1, RecordedAgrees
      <3> QED BY <3>1, <3>2
    <2>2. RunInv' /\ (\A u \in Task : TaskInv(u))' /\ OneDispatcher' /\ PlanInv'
      BY <1>1, <1>5 DEF IInv, RunInv, TaskInv, OneDispatcher, PlanInv, Sequence
    <2>3. RowInv'
      BY <1>1, <2>1 DEF IInv, RowInv, SentOnce, ReceiptIsTrue, PartsInOrder, LedgerIsConfirmed
    <2>4. TypeOK'
      BY <1>1, <1>2, <1>4, <2>1, <2>2, TypeFromRun DEF TypeOK
    <2> QED BY <2>2, <2>3, <2>4 DEF IInv
  <1>6. CASE /\ UNCHANGED delivery
             /\ run' = [run EXCEPT ![t] =
                          [Idle EXCEPT !.pc = IF Sequence THEN "prepare" ELSE "open", !.part = 1]]
    <2> DEFINE r == [Idle EXCEPT !.pc = IF Sequence THEN "prepare" ELSE "open", !.part = 1]
    <2>1. r \in Run /\ r.part = 1 /\ r.pc = IF Sequence THEN "prepare" ELSE "open"
      BY <1>3, IdleIsRun DEF Idle, Run, Pc, Loop, Busy
    <2>2. run' = [run EXCEPT ![t] = r] /\ run'[t] = r
      BY <1>4, <1>6 DEF RunInv
    <2> HIDE DEF r
    <2>3. r.pc \notin Busy /\ r.pc # "claim" /\ (r.pc \in Loop => ~Sequence)
          /\ (r.pc = "prepare" => Sequence)
      BY <2>1 DEF Busy, Loop
    <2>4. RunInv'
      BY <1>1, <1>3, <1>4, <2>1, <2>2, <2>3, MoveKeepsRunInv
    <2>5. TaskInv(t)'
      BY <2>1, <2>2, <2>3 DEF TaskInv, Busy
    <2>6. (\A u \in Task : TaskInv(u))' /\ OneDispatcher' /\ PlanInv'
      BY <1>1, <2>1, <2>2, <2>3, <2>5, MoveKeepsTasks DEF IInv
    <2>7. RowInv'
      BY <1>1, <1>6, SameRows DEF IInv
    <2>8. TypeOK'
      BY <1>1, <1>2, <1>4, <1>6, <2>4, TypeFromRun DEF TypeOK
    <2> QED BY <2>4, <2>6, <2>7, <2>8 DEF IInv
  <1> QED BY <1>5, <1>6 DEF Find

(* prepare_sequence: nothing has begun when it freezes the plan.           *)
LEMMA PrepareSequenceKeepsIInv ==
    ASSUME SocialSendAssumption, IInv, NEW t \in Task, PrepareSequence(t)
    PROVE  IInv'
PROOF
  <1>1. up /\ up' /\ run[t].pc = "prepare"
        /\ UNCHANGED <<delivery, ledger, sent, intent, woken, allowed, calls, faults>>
    BY DEF PrepareSequence, At
  <1>2. t # Worker /\ t \in Caller /\ Sequence /\ run[t].part = 1 /\ run[t] \in Run
    BY <1>1 DEF IInv, RunInv, Task
  <1>3. TypeOK /\ RunInv /\ RowInv /\ PlanInv
    BY DEF IInv
  <1> DEFINE r == IF Dispatch THEN [run[t] EXCEPT !.pc = "open"] ELSE Idle
  <1>4. r \in Run /\ r.pc \in {"open", "idle"} /\ (r.pc = "open" => r.part = 1)
    BY <1>2, IdleIsRun DEF Run, Pc, Loop, Idle
  <1>5. run' = [run EXCEPT ![t] = r] /\ run'[t] = r
    BY <1>3 DEF PrepareSequence, RunInv
  <1> HIDE DEF r
  <1>6. 1 \in Text /\ 1 \in Op /\ 0 \in Op /\ 0 \notin Text /\ Text \subseteq Op
    BY DEF Op, Text, SocialSendAssumption
  <1>7. r.pc \notin Busy /\ r.pc # "prepare" /\ r.pc # "claim" /\ (r.pc \in Loop => r.part = 1)
    BY <1>4 DEF Busy, Loop
  <1>8. RunInv'
    BY <1>1, <1>2, <1>3, <1>4, <1>5, <1>6, <1>7, MoveKeepsRunInv
  <1>9. TaskInv(t)'
    BY <1>4, <1>5, <1>7 DEF TaskInv, Busy
  <1>10. CASE parent # "absent"
    <2>1. UNCHANGED <<parent, op>>
      BY <1>10 DEF PrepareSequence
    <2>2. (\A u \in Task : TaskInv(u))' /\ OneDispatcher' /\ PlanInv'
      BY <1>1, <1>4, <1>5, <1>7, <1>9, <1>10, <2>1, MoveKeepsTasks DEF IInv
    <2>3. RowInv'
      BY <1>1, <1>3, <2>1, SameRows
    <2>4. TypeOK'
      BY <1>1, <1>3, <1>8, <2>1, TypeFromRun DEF TypeOK
    <2> QED BY <1>8, <2>2, <2>3, <2>4 DEF IInv
  <1>11. CASE parent = "absent"
    <2>1. parent' = "prepared" /\ op' = [p \in Op |-> IF p \in Text THEN "prepared" ELSE op[p]]
      BY <1>11 DEF PrepareSequence
    <2>2. /\ \A i \in Text : op[i] = "absent" /\ op'[i] = "prepared"
          /\ op'[0] = op[0]
          /\ \A u \in Caller : run[u].pc \notin Loop
      BY <1>2, <1>3, <1>6, <1>11, <2>1 DEF PlanInv
    <2>3. \A u \in Task : u # t => run'[u] = run[u]
      BY <1>3, <1>5 DEF RunInv
    <2>4. ASSUME NEW u \in Task  PROVE TaskInv(u)'
      <3>1. CASE u = t
        BY <1>9, <3>1
      <3>2. CASE u # t /\ u = Worker
        <4>1. run'[u] = run[u] /\ run'[u].part = 0 /\ TaskInv(u)
          BY <1>3, <2>3, <3>2 DEF IInv, RunInv
        <4> QED BY <1>1, <2>2, <4>1 DEF TaskInv
      <3>3. CASE u # t /\ u # Worker
        <4>1. run'[u].pc \notin Loop
          BY <2>2, <2>3, <3>3 DEF Task
        <4> QED BY <4>1 DEF TaskInv, Loop, Busy
      <3> QED BY <3>1, <3>2, <3>3
    <2>5. OneDispatcher'
      <3>1. \A u \in Task : run'[u].pc \in Busy => u = Worker
        <4> SUFFICES ASSUME NEW u \in Task, u # Worker  PROVE run'[u].pc \notin Busy
          OBVIOUS
        <4>1. CASE u = t
          BY <1>5, <1>7, <4>1
        <4>2. CASE u # t
          BY <2>2, <2>3, <4>2 DEF Task, Loop
        <4> QED BY <4>1, <4>2
      <3> QED BY <3>1 DEF OneDispatcher
    <2>6. PlanInv'
      BY <2>1 DEF PlanInv
    <2>7. RowInv'
      <3>1. \A p \in Op : op'[p] = op[p] \/ (p \in Text /\ op[p] = "absent" /\ op'[p] = "prepared")
        BY <2>1, <2>2
      <3>2. SentOnce' /\ ReceiptIsTrue' /\ LedgerIsConfirmed'
        BY <1>1, <1>3, <3>1 DEF RowInv, SentOnce, ReceiptIsTrue, LedgerIsConfirmed
      <3>3. \A i \in Text : sent[i] = 0
        BY <1>3, <1>6, <2>2 DEF RowInv, ReceiptIsTrue
      <3>4. PartsInOrder'
        BY <1>1, <3>3 DEF PartsInOrder
      <3>5. DeliveryAgrees'
        BY <1>1, <1>3, <2>2 DEF RowInv, DeliveryAgrees
      <3> QED BY <3>2, <3>4, <3>5 DEF RowInv
    <2>8. TypeOK'
      <3>1. op' \in [Op -> Status]
        BY <1>3, <2>1 DEF TypeOK, Status
      <3> QED BY <1>1, <1>3, <1>8, <2>1, <2>2, <3>1, TypeFromRun DEF TypeOK
    <2> QED BY <1>8, <2>4, <2>5, <2>6, <2>7, <2>8 DEF IInv
  <1> QED BY <1>10, <1>11

(* recover_interrupted: no task is alive, so no claim is still settled.    *)
LEMMA RecoverKeepsIInv ==
    ASSUME SocialSendAssumption, IInv, Recover
    PROVE  IInv'
PROOF
  <1>1. ~up /\ up' = TRUE /\ woken' = TRUE
        /\ UNCHANGED <<delivery, ledger, sent, intent, run, allowed, calls, faults>>
    BY DEF Recover
  <1>2. \A u \in Task : run[u].pc \notin Loop
    BY <1>1 DEF IInv, RunInv, Idle, Loop, Busy
  <1>3. \A p \in Op : op'[p] = IF op[p] = "executing" THEN "uncertain" ELSE op[p]
    BY DEF Recover, Interrupted
  <1>4. op' \in [Op -> Status] /\ parent' \in {parent, "failed"}
    BY DEF Recover, Interrupted, IInv, TypeOK, Status
  <1>5. Worker \in Task /\ Caller \subseteq Task /\ Text \subseteq Op
    BY DEF Task, Text, Op, SocialSendAssumption
  <1>6. RunInv'
    BY <1>1 DEF IInv, RunInv, Sequence
  <1>7. (\A u \in Task : TaskInv(u))' /\ OneDispatcher'
    BY <1>1, <1>2 DEF TaskInv, OneDispatcher, Loop, Busy
  <1>8. PlanInv'
    BY <1>1, <1>2, <1>3, <1>4, <1>5 DEF IInv, PlanInv, Sequence
  <1>9. RowInv'
    <2>1. SentOnce' /\ ReceiptIsTrue' /\ LedgerIsConfirmed'
      BY <1>1, <1>3 DEF IInv, RowInv, SentOnce, ReceiptIsTrue, LedgerIsConfirmed
    <2>2. PartsInOrder'
      <3>1. \A i \in Text : i > 1 => i - 1 \in Op
        BY DEF Text, Op, SocialSendAssumption
      <3> QED BY <1>1, <1>3, <3>1 DEF IInv, RowInv, PartsInOrder
    <2>3. DeliveryAgrees'
      BY <1>1, <1>3, <1>5 DEF IInv, RowInv, DeliveryAgrees
    <2> QED BY <2>1, <2>2, <2>3 DEF RowInv
  <1>10. TypeOK'
    <2>1. op'[0] # "absent" => intent' # "none"
      <3>1. 0 \in Op
        BY DEF Op, SocialSendAssumption
      <3> QED BY <1>1, <1>3, <3>1 DEF IInv, TypeOK
    <2> QED BY <1>1, <1>4, <1>6, <2>1, TypeFromRun DEF IInv, TypeOK
  <1> QED BY <1>6, <1>7, <1>8, <1>9, <1>10 DEF IInv

-----------------------------------------------------------------------------
LEMMA InitIInv ==
    ASSUME SocialSendAssumption
    PROVE  Init => IInv
PROOF
  <1> SUFFICES ASSUME Init  PROVE IInv
    OBVIOUS
  <1>1. Worker \in Task /\ Caller \subseteq Task /\ Idle \in Run /\ Text \subseteq Op
    BY IdleIsRun DEF Task, Text, Op, SocialSendAssumption
  <1>2. \A t \in Task : run[t] = Idle /\ run[t].pc = "idle" /\ run[t].part = 0
    BY DEF Init, Idle
  <1>3. RunInv
    BY <1>1, <1>2 DEF Init, RunInv, Loop, Busy
  <1>4. (\A t \in Task : TaskInv(t)) /\ OneDispatcher /\ PlanInv
    BY <1>1, <1>2 DEF Init, TaskInv, OneDispatcher, PlanInv, Loop, Busy
  <1>5. RowInv
    BY <1>1 DEF Init, RowInv, SentOnce, ReceiptIsTrue, PartsInOrder, LedgerIsConfirmed, DeliveryAgrees
  <1>6. TypeOK
    <2>1. \A t \in Task : run[t].outcome = "none" /\ run[t].stop = FALSE
      BY <1>2 DEF Idle
    <2>2. 0 \in Op
      BY DEF Op, SocialSendAssumption
    <2>3. \A t \in Task : /\ run[t].part \in Op /\ run[t].outcome \in Sent \cup {"none"}
                          /\ run[t].stop \in BOOLEAN
      BY <1>2, <2>1, <2>2
    <2>4. calls \in 0..MaxCalls /\ faults \in 0..MaxFaults
      BY DEF Init, SocialSendAssumption
    <2>5. op \in [Op -> Status] /\ (op[0] # "absent" => intent # "none")
      BY <2>2 DEF Init, Status
    <2>6. delivery \in [Op -> {"none", "reserved", "accepted", "failed", "unknown"}]
          /\ ledger \in [Op -> 0..1] /\ sent \in [Op -> Nat]
      BY DEF Init
    <2>7. /\ parent \in {"absent", "prepared", "failed"}
          /\ intent \in {"none", "open", "selected", "closed"}
          /\ {woken, allowed, up} \subseteq BOOLEAN
      BY DEF Init
    <2> QED BY <1>2, <2>3, <2>4, <2>5, <2>6, <2>7 DEF TypeOK
  <1> QED BY <1>3, <1>4, <1>5, <1>6 DEF IInv

(* Every step of a caller, of the worker and of what surrounds them.       *)
LEMMA NextKeepsIInv ==
    ASSUME SocialSendAssumption
    PROVE  IInv /\ [Next]_vars => IInv'
PROOF
  <1> SUFFICES ASSUME IInv, [Next]_vars  PROVE IInv'
    OBVIOUS
  <1>1. CASE UNCHANGED vars
    <2>1. TypeOK'
      BY <1>1 DEF IInv, TypeOK, vars
    <2>2. RunInv' /\ (\A t \in Task : TaskInv(t))' /\ OneDispatcher' /\ PlanInv'
      BY <1>1 DEF IInv, RunInv, TaskInv, OneDispatcher, PlanInv, Sequence, vars
    <2>3. RowInv'
      BY <1>1, SameRows DEF IInv, vars
    <2> QED BY <2>1, <2>2, <2>3 DEF IInv
  <1>2. ASSUME NEW t \in Task, Progress(t)  PROVE IInv'
    <2>1. FALSE \in BOOLEAN
      OBVIOUS
    <2> QED BY <1>2, <2>1, PrepareSequenceKeepsIInv, OpenKeepsIInv, RefusedKeepsIInv, ClaimKeepsIInv,
               UnenteredKeepsIInv, ReachKeepsIInv, ReturnKeepsIInv, SettleKeepsIInv,
               RepairKeepsIInv, StopSequenceKeepsIInv DEF Progress
  <1>3. ASSUME NEW t \in Task,
               \/ Find(t) \/ Preflight(t) \/ Claim(t, TRUE)
               \/ SettleFails(t) \/ Deferred(t) \/ Cancel(t)
        PROVE  IInv'
    <2>1. TRUE \in BOOLEAN
      OBVIOUS
    <2> QED BY <1>3, <2>1, FindKeepsIInv, PreflightKeepsIInv, ClaimKeepsIInv, SettleFailsKeepsIInv,
               DeferredKeepsIInv, CancelKeepsIInv
  <1>4. CASE Illustrate
    BY <1>4, IllustrateKeepsIInv
  <1>5. CASE Revoke \/ Crash
    BY <1>5, EnvironmentKeepsIInv
  <1>6. CASE Recover
    BY <1>6, RecoverKeepsIInv
  <1> QED BY <1>1, <1>2, <1>3, <1>4, <1>5, <1>6 DEF Next

-----------------------------------------------------------------------------
(* The strengthened invariant holds in every reachable state.              *)
THEOREM SendInvariant ==
    ASSUME SocialSendAssumption
    PROVE  Spec => []IInv
PROOF
  <1>1. Init => IInv
    BY InitIInv
  <1>2. IInv /\ [Next]_vars => IInv'
    BY NextKeepsIInv
  <1> QED BY <1>1, <1>2, PTL DEF Spec

(* Rows, tasks and counters keep their types, and no row of an illustration *)
(* exists without its intent.                                              *)
THEOREM TypeCorrect ==
    ASSUME SocialSendAssumption
    PROVE  Spec => []TypeOK
PROOF
  <1>1. IInv => TypeOK
    BY DEF IInv
  <1> QED BY <1>1, SendInvariant, PTL

(* No caller, crash, repeated or concurrent call gives the platform a part *)
(* or the illustration twice (claim and _dispatch_claimed).                *)
THEOREM AtMostOnce ==
    ASSUME SocialSendAssumption
    PROVE  Spec => []SentOnce
PROOF
  <1>1. IInv => SentOnce
    BY DEF IInv, RowInv
  <1> QED BY <1>1, SendInvariant, PTL

(* A succeeded row was given to the platform and a failed or prepared one  *)
(* never was (the settlements of _effect and recover_interrupted).         *)
THEOREM TrueReceipts ==
    ASSUME SocialSendAssumption
    PROVE  Spec => []ReceiptIsTrue
PROOF
  <1>1. IInv => ReceiptIsTrue
    BY DEF IInv, RowInv
  <1> QED BY <1>1, SendInvariant, PTL

(* No part of a sequence is sent before the one before it is confirmed     *)
(* (_send_message_sequence).                                               *)
THEOREM InOrder ==
    ASSUME SocialSendAssumption
    PROVE  Spec => []PartsInOrder
PROOF
  <1>1. IInv => PartsInOrder
    BY DEF IInv, RowInv
  <1> QED BY <1>1, SendInvariant, PTL

(* An outbound event belongs to a confirmed operation, and on the local    *)
(* route every confirmed operation has one.                                *)
THEOREM ConfirmedEvents ==
    ASSUME SocialSendAssumption
    PROVE  Spec => []LedgerIsConfirmed
PROOF
  <1>1. IInv => LedgerIsConfirmed
    BY DEF IInv, RowInv
  <1> QED BY <1>1, SendInvariant, PTL

(* A Work's delivery row never says more or less than the receipt          *)
(* (record in runtime/delivery_intents.py).                                *)
THEOREM DeliveriesAgree ==
    ASSUME SocialSendAssumption
    PROVE  Spec => []DeliveryAgrees
PROOF
  <1>1. IInv => DeliveryAgrees
    BY DEF IInv, RowInv
  <1> QED BY <1>1, SendInvariant, PTL

(* What the invariant says of a message.                                   *)
LEMMA InvariantTells == IInv => MessageSentOnce /\ MessageReceiptIsTrue
PROOF BY DEF IInv, RowInv, MessageSentOnce, MessageReceiptIsTrue

(* What the platform is given is given once, and its parts in order.       *)
THEOREM MessagesOnce ==
    ASSUME SocialSendAssumption
    PROVE  Spec => []MessageSentOnce
PROOF
  <1> QED BY InvariantTells, SendInvariant, PTL

(* The receipts, the outbound events and the Work's rows say what happened *)
(* (_effect, _dispatch_claimed, record).                                   *)
THEOREM MessageReceipts ==
    ASSUME SocialSendAssumption
    PROVE  Spec => []MessageReceiptIsTrue
PROOF
  <1> QED BY InvariantTells, SendInvariant, PTL

-----------------------------------------------------------------------------
(* The illustration comes last.  The worker sends it only after it saw the *)
(* text ended, and then no part can be claimed any more: a part leaves     *)
(* "prepared" only behind a succeeded one, so that a failed part stops all *)
(* later ones, and a stopped plan has no execution that could go on.  The  *)
(* last needs that executions of the call do not overlap, as those of a    *)
(* Work's lease do not: of two that reached the same part one may be       *)
(* cancelled and stop the plan, which claim does not read, and the other   *)
(* still send the part.                                                    *)

OneExecution == \A a, b \in Caller : a = b

(* The parts before one that has left "prepared" have succeeded.           *)
PrefixSucceeded ==
    \A i, j \in Text : i < j /\ op[j] \notin {"absent", "prepared"} => op[i] = "succeeded"

(* The intent is admitted with the first part.                             *)
IntentInv == intent # "none" => op[1] # "absent"

(* A plan is stopped by the execution that leaves it.                      *)
StopInv ==
    /\ run[Worker].pc # "stop"
    /\ parent = "failed" => \A c \in Caller : run[c].pc = "idle"

(* The text is over for good.                                              *)
TextOver ==
    \/ parent = "failed"
    \/ \E i \in Text : op[i] \in {"failed", "uncertain"}
    \/ \A i \in Text : op[i] = "succeeded"

PictureUnderWay == sent[0] > 0 \/ run[Worker].pc \in Loop

OrderInv ==
    /\ PrefixSucceeded
    /\ IntentInv
    /\ StopInv
    /\ PictureUnderWay => TextOver

(* How the row of a part may move in one step.                             *)
RowMoves(i) ==
    /\ op[i] # "absent" => op'[i] # "absent"
    /\ op[i] \in {"succeeded", "failed", "uncertain"} => op'[i] = op[i]
    /\ op'[i] \notin {"absent", "prepared"} /\ op[i] \in {"absent", "prepared"} /\ i > 1
          => op[i - 1] = "succeeded"

LEMMA OneRowMoves ==
    ASSUME SocialSendAssumption, TypeOK, NEW o \in Op, NEW status, op' = [op EXCEPT ![o] = status],
           status # "absent",
           op[o] \in {"succeeded", "failed", "uncertain"} => status = op[o],
           status # "prepared" /\ op[o] \in {"absent", "prepared"} /\ o > 1
              => op[o - 1] = "succeeded"
    PROVE  \A i \in Text : RowMoves(i)
PROOF
  <1> SUFFICES ASSUME NEW i \in Text  PROVE RowMoves(i)
    OBVIOUS
  <1>1. i \in Op
    BY DEF Text, Op, SocialSendAssumption
  <1>2. op'[i] = IF i = o THEN status ELSE op[i]
    BY <1>1 DEF TypeOK
  <1> QED BY <1>2 DEF RowMoves

LEMMA SameRowMoves ==
    ASSUME op' = op
    PROVE  \A i \in Text : RowMoves(i)
PROOF BY DEF RowMoves

LEMMA EveryRowMoves ==
    ASSUME SocialSendAssumption, IInv, [Next]_vars
    PROVE  \A i \in Text : RowMoves(i)
PROOF
  <1>0. TypeOK /\ RunInv /\ PlanInv /\ \A u \in Task : TaskInv(u)
    BY DEF IInv
  <1>1. CASE UNCHANGED op
    BY <1>1, SameRowMoves
  <1>2. ASSUME NEW t \in Task, PrepareSequence(t)  PROVE \A i \in Text : RowMoves(i)
    <2>1. CASE parent = "absent"
      <3>1. run[t].pc = "prepare" /\ op' = [o \in Op |-> IF o \in Text THEN "prepared" ELSE op[o]]
        BY <1>2, <2>1 DEF PrepareSequence, At
      <3>2. Sequence
        BY <1>0, <3>1 DEF RunInv, Task
      <3>3. \A i \in Text : op[i] = "absent" /\ i \in Op
        BY <1>0, <2>1, <3>2 DEF PlanInv, Text, Op, SocialSendAssumption
      <3>4. \A i \in Text : op'[i] = "prepared"
        BY <3>1, <3>3
      <3> QED BY <3>3, <3>4 DEF RowMoves
    <2>2. CASE parent # "absent"
      BY <1>2, <2>2, SameRowMoves DEF PrepareSequence
    <2> QED BY <2>1, <2>2
  <1>3. ASSUME NEW t \in Task, Open(t)  PROVE \A i \in Text : RowMoves(i)
    <2>1. CASE op[run[t].part] \in {"absent", "prepared"}
      <3>1. run[t].part \in Op /\ op' = [op EXCEPT ![run[t].part] = "prepared"]
        BY <1>0, <1>3, <2>1 DEF Open, RunInv, Run
      <3> QED BY <1>0, <2>1, <3>1, OneRowMoves
    <2>2. CASE op[run[t].part] \notin {"absent", "prepared"}
      BY <1>3, <2>2, SameRowMoves DEF Open
    <2> QED BY <2>1, <2>2
  <1>4. ASSUME NEW t \in Task, NEW lost \in BOOLEAN, Claim(t, lost)
        PROVE  \A i \in Text : RowMoves(i)
    <2> DEFINE o == run[t].part
    <2>1. o \in Op /\ run[t].pc = "claim" /\ op[o] # "absent"
          /\ (o > 1 => op[o - 1] = "succeeded")
      BY <1>0, <1>4 DEF Claim, At, RunInv, Run, TaskInv, Loop
    <2>2. PICK status \in Status :
            /\ status = ClaimStatus(o) /\ status \notin {"absent", "prepared"}
            /\ op' = [op EXCEPT ![o] = status]
      BY <1>4, ClaimDelivers
    <2>3. op[o] \in {"succeeded", "failed", "uncertain"} => status = op[o]
      BY <2>2 DEF ClaimStatus, Claims
    <2> HIDE DEF o
    <2> QED BY <1>0, <2>1, <2>2, <2>3, OneRowMoves
  <1>5. ASSUME NEW t \in Task, Unentered(t) \/ Settle(t) \/ Repair(t)
        PROVE  \A i \in Text : RowMoves(i)
    <2> DEFINE o == run[t].part
    <2>1. o \in Op /\ op[o] = "executing"
      <3>1. run[t].pc \in Busy
        BY <1>5 DEF Unentered, Settle, Repair, At, Busy
      <3> QED BY <1>0, <3>1 DEF TaskInv, RunInv, Run
    <2>2. PICK status \in {"succeeded", "failed", "uncertain"} : op' = [op EXCEPT ![o] = status]
      BY <1>5 DEF Unentered, Settle, Repair, Settled, RepairedStatus
    <2> HIDE DEF o
    <2> QED BY <1>0, <2>1, <2>2, OneRowMoves
  <1>6. CASE Recover
    <2>1. \A i \in Text : i \in Op
      BY DEF Text, Op, SocialSendAssumption
    <2>2. \A i \in Text : op'[i] = IF op[i] = "executing" THEN "uncertain" ELSE op[i]
      BY <1>6, <2>1 DEF Recover, Interrupted
    <2> QED BY <2>2 DEF RowMoves
  <1>7. TRUE \in BOOLEAN /\ FALSE \in BOOLEAN
    OBVIOUS
  <1>8. CASE \E t \in Task : Progress(t) \/ Claim(t, TRUE)
    <2>1. PICK t \in Task : Progress(t) \/ Claim(t, TRUE)
      BY <1>8
    <2>2. CASE Refused(t) \/ Reach(t) \/ Return(t) \/ StopSequence(t)
      <3>1. UNCHANGED op
        BY <2>2 DEF Refused, Reach, Return, StopSequence, rows
      <3> QED BY <1>1, <3>1
    <2> QED BY <1>2, <1>3, <1>4, <1>5, <1>7, <2>1, <2>2 DEF Progress
  <1>9. CASE \E t \in Task : Find(t) \/ Preflight(t) \/ SettleFails(t) \/ Deferred(t) \/ Cancel(t)
    <2>1. UNCHANGED op
      BY <1>9 DEF Find, Preflight, SettleFails, Deferred, Cancel, rows
    <2> QED BY <1>1, <2>1
  <1>10. CASE Illustrate \/ Revoke \/ Crash \/ UNCHANGED vars
    <2>1. UNCHANGED op
      BY <1>10 DEF Illustrate, Scan, Begin, Select, Check, Close, Done, Revoke, Crash, rows, vars
    <2> QED BY <1>1, <2>1
  <1> QED BY <1>6, <1>8, <1>9, <1>10 DEF Next

LEMMA PrefixStays ==
    ASSUME SocialSendAssumption, IInv, PrefixSucceeded, \A i \in Text : RowMoves(i)
    PROVE  PrefixSucceeded'
PROOF
  <1> SUFFICES ASSUME NEW i \in Text, NEW j \in Text, i < j, op'[j] \notin {"absent", "prepared"}
               PROVE  op'[i] = "succeeded"
    BY DEF PrefixSucceeded, Text
  <1>1. op[i] = "succeeded"
    <2>1. CASE op[j] \notin {"absent", "prepared"}
      BY <2>1 DEF PrefixSucceeded
    <2>2. CASE op[j] \in {"absent", "prepared"}
      <3>1. j > 1 /\ j - 1 \in Text /\ (i < j - 1 \/ i = j - 1)
        BY DEF Text, SocialSendAssumption
      <3>2. op[j - 1] = "succeeded"
        BY <2>2, <3>1 DEF RowMoves
      <3> QED BY <3>1, <3>2 DEF PrefixSucceeded
    <2> QED BY <2>1, <2>2
  <1> QED BY <1>1 DEF RowMoves

LEMMA TextStaysOver ==
    ASSUME SocialSendAssumption, TextOver, parent = "failed" => parent' = "failed",
           \A i \in Text : RowMoves(i)
    PROVE  TextOver'
PROOF BY DEF TextOver, RowMoves, Text

(* A stopped plan stays stopped, and only its own execution or a restart   *)
(* stops it.                                                               *)
LEMMA PlanMoves ==
    ASSUME SocialSendAssumption, IInv, [Next]_vars
    PROVE  /\ parent = "failed" => parent' = "failed"
           /\ parent # "failed" /\ parent' = "failed" =>
                \/ ~up /\ run' = run
                \/ \E t \in Task : /\ run[t].pc = "stop"
                                   /\ run' = [run EXCEPT ![t] = Idle]
PROOF
  <1>1. CASE \E t \in Task : Progress(t) \/ Claim(t, TRUE)
    <2>1. PICK t \in Task : Progress(t) \/ Claim(t, TRUE)
      BY <1>1
    <2>2. CASE StopSequence(t)
      BY <2>2 DEF StopSequence, At
    <2>3. CASE PrepareSequence(t)
      BY <2>3 DEF PrepareSequence
    <2>4. CASE \/ Open(t) \/ Refused(t) \/ Claim(t, FALSE) \/ Claim(t, TRUE) \/ Unentered(t)
               \/ Reach(t) \/ Return(t) \/ Settle(t) \/ Repair(t)
      <3>1. parent' = parent
        BY <2>4 DEF Open, Refused, Claim, Unentered, Reach, Return, Settle, Repair, rows
      <3> QED BY <3>1
    <2> QED BY <2>1, <2>2, <2>3, <2>4 DEF Progress
  <1>2. CASE \E t \in Task : Find(t) \/ Preflight(t) \/ SettleFails(t) \/ Deferred(t) \/ Cancel(t)
    <2>1. parent' = parent
      BY <1>2 DEF Find, Preflight, SettleFails, Deferred, Cancel, rows
    <2> QED BY <2>1
  <1>3. CASE Illustrate \/ Revoke \/ Crash \/ UNCHANGED vars
    <2>1. parent' = parent
      BY <1>3 DEF Illustrate, Scan, Begin, Select, Check, Close, Done, Revoke, Crash, rows, vars
    <2> QED BY <2>1
  <1>4. CASE Recover
    BY <1>4 DEF Recover
  <1> QED BY <1>1, <1>2, <1>3, <1>4 DEF Next

(* The intent appears in the transaction that claims the first part.       *)
LEMMA IntentStays ==
    ASSUME SocialSendAssumption, IInv, IntentInv, [Next]_vars
    PROVE  IntentInv'
PROOF
  <1>0. 1 \in Text /\ RunInv /\ \A t \in Task : TaskInv(t)
    BY DEF Text, SocialSendAssumption, IInv
  <1>1. op[1] # "absent" => op'[1] # "absent"
    BY <1>0, EveryRowMoves DEF RowMoves
  <1>2. intent' # "none" => intent # "none" \/ op[1] # "absent"
    <2>1. CASE \E t \in Task : Claim(t, TRUE) \/ Claim(t, FALSE)
      <3>1. PICK t \in Task, lost \in BOOLEAN : Claim(t, lost)
        BY <2>1
      <3>2. op[run[t].part] # "absent"
        BY <1>0, <3>1 DEF Claim, At, TaskInv
      <3>3. intent' = IF Illustrated /\ run[t].part = 1 /\ intent = "none" THEN "open" ELSE intent
        BY <3>1 DEF Claim
      <3> QED BY <3>2, <3>3
    <2>2. CASE Select \/ Close
      <3>1. run[Worker].pc \in {"select", "close"}
        BY <2>2 DEF Select, Close, At
      <3> QED BY <1>0, <3>1 DEF RunInv
    <2>3. CASE \E t \in Task : \/ PrepareSequence(t) \/ Open(t) \/ Refused(t) \/ Unentered(t)
                               \/ Reach(t) \/ Return(t) \/ Settle(t) \/ Repair(t)
                               \/ StopSequence(t) \/ Find(t) \/ Preflight(t)
                               \/ SettleFails(t) \/ Deferred(t) \/ Cancel(t)
      <3>1. intent' = intent
        BY <2>3 DEF PrepareSequence, Open, Refused, Unentered, Reach, Return, Settle, Repair,
                    StopSequence, Find, Preflight, SettleFails, Deferred, Cancel, rows
      <3> QED BY <3>1
    <2>4. CASE Scan \/ Begin \/ Check \/ Done \/ Revoke \/ Crash \/ Recover \/ UNCHANGED vars
      <3>1. intent' = intent
        BY <2>4 DEF Scan, Begin, Check, Done, Revoke, Crash, Recover, rows, vars
      <3> QED BY <3>1
    <2> QED BY <2>1, <2>2, <2>3, <2>4 DEF Next, Progress, Illustrate
  <1> QED BY <1>1, <1>2 DEF IntentInv

(* One execution moves and the other tasks stay.                           *)
TaskStep(t) ==
    \/ Find(t) \/ Progress(t) \/ Preflight(t) \/ Claim(t, TRUE)
    \/ SettleFails(t) \/ Deferred(t) \/ Cancel(t)

LEMMA OthersStay ==
    ASSUME RunInv, NEW t \in Task, TaskStep(t)
    PROVE  \A u \in Task : u # t => run'[u] = run[u]
PROOF
  <1> SUFFICES ASSUME NEW u \in Task, u # t  PROVE run'[u] = run[u]
    OBVIOUS
  <1>0. run \in [Task -> Run]
    BY DEF RunInv
  <1>1. CASE Find(t) \/ PrepareSequence(t) \/ Open(t) \/ Refused(t) \/ Preflight(t)
    BY <1>0, <1>1 DEF Find, PrepareSequence, Open, Refused, Preflight, GoTo
  <1>2. CASE Claim(t, FALSE) \/ Claim(t, TRUE)
    <2>1. PICK lost \in BOOLEAN : Claim(t, lost)
      BY <1>2
    <2>2. PICK r : run' = [run EXCEPT ![t] = r]
      BY <2>1 DEF Claim
    <2> QED BY <1>0, <2>2
  <1>3. CASE Unentered(t) \/ Reach(t) \/ Return(t) \/ Settle(t) \/ Repair(t) \/ StopSequence(t)
    BY <1>0, <1>3 DEF Unentered, Reach, Return, Answer, Settle, Repair, Settled, StopSequence, GoTo
  <1>4. CASE SettleFails(t) \/ Deferred(t) \/ Cancel(t)
    BY <1>0, <1>4 DEF SettleFails, Deferred, Cancel, GoTo
  <1> QED BY <1>1, <1>2, <1>3, <1>4 DEF TaskStep, Progress

(* An execution that is nowhere starts the call, and an answered call has  *)
(* no execution.                                                           *)
LEMMA IdleStarts ==
    ASSUME NEW t \in Task, TaskStep(t), run[t].pc = "idle", parent = "failed"
    PROVE  run' = run
PROOF
  <1>1. CASE Find(t)
    BY <1>1 DEF Find
  <1>2. CASE Progress(t) \/ Claim(t, TRUE)
    BY <1>2 DEF Progress, Claim, PrepareSequence, Open, Refused, Unentered, Reach, Return,
                Answer, Settle, Repair, StopSequence, At
  <1>3. CASE Preflight(t) \/ SettleFails(t) \/ Deferred(t) \/ Cancel(t)
    BY <1>3 DEF Preflight, SettleFails, Deferred, Cancel, At
  <1> QED BY <1>1, <1>2, <1>3 DEF TaskStep

(* The worker starts to send where it saw the text ended.                  *)
LEMMA WorkerMoves ==
    ASSUME SocialSendAssumption, IInv, [Next]_vars
    PROVE  /\ run'[Worker].pc = "stop" => run[Worker].pc = "stop"
           /\ run'[Worker].pc \in Loop =>
                \/ run[Worker].pc \in Loop
                \/ run[Worker].pc = "check" /\ TextDispatchFinished
PROOF
  <1>0. RunInv /\ Worker \in Task /\ run \in [Task -> Run] /\ run[Worker] \in Run
    BY DEF IInv, RunInv, Task
  <1>1. ASSUME NEW t \in Task, TaskStep(t), t # Worker  PROVE run'[Worker] = run[Worker]
    BY <1>0, <1>1, OthersStay
  <1>2. CASE TaskStep(Worker)
    <2>1. CASE Refused(Worker) \/ Unentered(Worker) \/ Deferred(Worker) \/ Preflight(Worker)
      <3>1. run' = [run EXCEPT ![Worker] = AfterError(Worker)]
            \/ run' = [run EXCEPT ![Worker] = [Idle EXCEPT !.pc = "begin"]]
        BY <2>1 DEF Refused, Unentered, Deferred, Preflight
      <3>2. AfterError(Worker).pc = "close"
        BY DEF AfterError, Idle
      <3> QED BY <1>0, <3>1, <3>2 DEF Idle, Loop, Busy
    <2>2. CASE Find(Worker) \/ PrepareSequence(Worker) \/ Cancel(Worker)
      BY <1>0, <2>2 DEF Find, PrepareSequence, At, Cancel, RunInv
    <2>3. CASE Open(Worker) \/ Reach(Worker) \/ Return(Worker) \/ Settle(Worker) \/ Repair(Worker)
               \/ SettleFails(Worker) \/ Claim(Worker, TRUE) \/ Claim(Worker, FALSE)
      <3>1. run[Worker].pc \in Loop
        BY <2>3 DEF Open, Reach, Return, Answer, Settle, Repair, SettleFails, Claim, At, Loop, Busy
      <3>2. CASE Open(Worker) \/ Settle(Worker) \/ Repair(Worker)
        <4>1. \/ run' = [run EXCEPT ![Worker].pc = "claim"]
              \/ \E status : run' = [run EXCEPT ![Worker] = AfterResult(Worker, status)]
          BY <3>2 DEF Open, Settle, Repair, Settled, GoTo
        <4>2. \A status : AfterResult(Worker, status).pc = "close"
          BY DEF AfterResult, Idle
        <4>3. CASE run' = [run EXCEPT ![Worker].pc = "claim"]
          <5>1. run'[Worker].pc = "claim"
            BY <1>0, <4>3 DEF Run
          <5> QED BY <3>1, <5>1
        <4>4. CASE \E status : run' = [run EXCEPT ![Worker] = AfterResult(Worker, status)]
          <5>1. run'[Worker].pc = "close"
            BY <1>0, <4>2, <4>4
          <5> QED BY <3>1, <5>1
        <4> QED BY <4>1, <4>3, <4>4
      <3>3. CASE Reach(Worker) \/ Return(Worker) \/ SettleFails(Worker)
        <4>1. CASE Reach(Worker)
          <5>1. run'[Worker].pc = "reached"
            BY <1>0, <4>1 DEF Reach, GoTo, Run
          <5> QED BY <3>1, <5>1
        <4>2. CASE SettleFails(Worker)
          <5>1. run'[Worker].pc = "repair"
            BY <1>0, <4>2 DEF SettleFails, GoTo, Run
          <5> QED BY <3>1, <5>1
        <4>3. CASE Return(Worker)
          <5>1. PICK reached \in BOOLEAN, outcome \in Sent : Answer(Worker, reached, outcome)
            BY <4>3 DEF Return
          <5>2. run'[Worker] = [run[Worker] EXCEPT
                  !.pc = IF outcome = "confirmed" THEN "settle" ELSE "repair", !.outcome = outcome]
            BY <1>0, <5>1 DEF Answer
          <5>3. run'[Worker].pc \in {"settle", "repair"}
            BY <1>0, <5>2 DEF Run
          <5> QED BY <3>1, <5>3
        <4> QED BY <3>3, <4>1, <4>2, <4>3
      <3>4. CASE Claim(Worker, TRUE) \/ Claim(Worker, FALSE)
        <4>1. PICK lost \in BOOLEAN : Claim(Worker, lost)
          BY <3>4
        <4>2. PICK status \in Status : status = ClaimStatus(run[Worker].part)
          BY <1>0, <4>1, ClaimDelivers
        <4>3. PICK r \in Run : /\ run' = [run EXCEPT ![Worker] = r]
                               /\ Worker = Worker => r.part = 0
                               /\ r.pc \in {"close", "stop", "idle", "open", "unentered", "dispatch"}
          BY <1>0, <4>1, <4>2, ClaimMoves
        <4>4. r.pc # "stop"
          <5>1. run'[Worker].pc # "stop"
            BY <1>0, <4>1 DEF Claim, AfterResult, AfterError, Idle
          <5> QED BY <1>0, <4>3, <5>1
        <4> QED BY <1>0, <3>1, <4>3, <4>4
      <3> QED BY <2>3, <3>2, <3>3, <3>4
    <2>4. CASE StopSequence(Worker)
      BY <1>0, <2>4 DEF StopSequence, Idle, Loop, Busy
    <2> QED BY <1>2, <2>1, <2>2, <2>3, <2>4 DEF TaskStep, Progress
  <1>3. CASE Illustrate
    <2>1. ASSUME NEW pc, GoTo(Worker, pc)  PROVE run'[Worker].pc = pc
      BY <1>0, <2>1 DEF GoTo, Run
    <2>2. CASE Scan
      <3>1. run'[Worker].pc = "begin" \/ run' = run
        BY <2>1, <2>2 DEF Scan
      <3> QED BY <3>1 DEF Loop, Busy
    <2>3. CASE Begin
      <3>1. run'[Worker].pc \in {"close", "select", "check"}
        <4>1. PICK pc \in {"close", "select", "check"} : GoTo(Worker, pc)
          BY <2>3 DEF Begin
        <4> QED BY <2>1, <4>1
      <3> QED BY <3>1 DEF Loop, Busy
    <2>4. CASE Select \/ Close
      <3>1. run'[Worker].pc \in {"check", "done"}
        BY <2>1, <2>4 DEF Select, Close
      <3> QED BY <3>1 DEF Loop, Busy
    <2>5. CASE Check
      <3>1. run[Worker].pc = "check" /\ run'[Worker].pc \in {"open", "done", "close"}
            /\ (run'[Worker].pc = "open" => TextDispatchFinished)
        <4>1. run[Worker].pc = "check"
              /\ \/ TextDispatchFinished /\ GoTo(Worker, "open")
                 \/ GoTo(Worker, "done")
                 \/ GoTo(Worker, "close")
          BY <2>5 DEF Check, At
        <4> HIDE DEF TextDispatchFinished
        <4> QED BY <2>1, <4>1
      <3> QED BY <3>1 DEF Loop, Busy
    <2>6. CASE Done
      BY <1>0, <2>6 DEF Done, Idle, Loop, Busy
    <2> QED BY <1>3, <2>2, <2>3, <2>4, <2>5, <2>6 DEF Illustrate
  <1>4. CASE Revoke \/ Recover \/ UNCHANGED vars
    BY <1>4 DEF Revoke, Recover, vars
  <1>5. CASE Crash
    BY <1>0, <1>5 DEF Crash, Idle, Loop, Busy
  <1>6. CASE \E t \in Task : TaskStep(t)
    <2>1. PICK t \in Task : TaskStep(t)
      BY <1>6
    <2>2. CASE t = Worker
      BY <1>2, <2>1, <2>2
    <2>3. CASE t # Worker
      BY <1>1, <2>1, <2>3
    <2> QED BY <2>2, <2>3
  <1> QED BY <1>3, <1>4, <1>5, <1>6 DEF Next, TaskStep

LEMMA StopStays ==
    ASSUME SocialSendAssumption, OneExecution, IInv, StopInv, [Next]_vars
    PROVE  StopInv'
PROOF
  <1>0. RunInv /\ run \in [Task -> Run] /\ Worker \notin Caller /\ Caller \subseteq Task
        /\ Worker \in Task /\ \A t \in Task : t = Worker \/ t \in Caller
    BY DEF IInv, RunInv, Task, SocialSendAssumption
  <1>1. run'[Worker].pc # "stop"
    BY WorkerMoves DEF StopInv
  <1>2. ASSUME parent' = "failed", parent # "failed", NEW c \in Caller
        PROVE  run'[c].pc = "idle"
    <2>1. CASE ~up /\ run' = run
      BY <1>0, <2>1 DEF RunInv, Idle
    <2>2. CASE \E t \in Task : run[t].pc = "stop" /\ run' = [run EXCEPT ![t] = Idle]
      <3>1. PICK t \in Task : run[t].pc = "stop" /\ run' = [run EXCEPT ![t] = Idle]
        BY <2>2
      <3>2. t = c
        BY <1>0, <3>1 DEF StopInv, OneExecution
      <3> QED BY <1>0, <3>1, <3>2 DEF Idle
    <2> QED BY <1>2, <2>1, <2>2, PlanMoves
  <1>3. ASSUME parent = "failed", NEW c \in Caller
        PROVE  run'[c].pc = "idle"
    <2>0. run[c].pc = "idle" /\ c # Worker /\ c \in Task
      BY <1>0, <1>3 DEF StopInv
    <2>1. CASE \E t \in Task : TaskStep(t)
      <3>1. PICK t \in Task : TaskStep(t)
        BY <2>1
      <3>2. CASE t = c
        BY <1>3, <2>0, <3>1, <3>2, IdleStarts
      <3>3. CASE t # c
        BY <1>0, <2>0, <3>1, <3>3, OthersStay
      <3> QED BY <3>2, <3>3
    <2>2. CASE Illustrate
      <3>1. run'[c] = run[c]
        BY <1>0, <2>0, <2>2 DEF Illustrate, Scan, Begin, Select, Check, Close, Done, GoTo
      <3> QED BY <2>0, <3>1
    <2>3. CASE Revoke \/ Recover \/ UNCHANGED vars
      BY <2>0, <2>3 DEF Revoke, Recover, vars
    <2>4. CASE Crash
      BY <2>0, <2>4 DEF Crash, Idle
    <2> QED BY <2>1, <2>2, <2>3, <2>4 DEF Next, TaskStep
  <1> QED BY <1>1, <1>2, <1>3 DEF StopInv

(* An operation is sent by the task that has it, which claimed it.         *)
LEMMA WhoSends ==
    ASSUME SocialSendAssumption, IInv, [Next]_vars, NEW o \in Op, sent'[o] # sent[o]
    PROVE  \E t \in Task : /\ run[t].part = o
                           /\ run[t].pc \in Loop
                           /\ op[o] \in {"prepared", "executing"}
PROOF
  <1>0. RunInv /\ sent \in [Op -> Nat] /\ \A t \in Task : TaskInv(t)
    BY DEF IInv, TypeOK
  <1>1. ASSUME NEW t \in Task, Reach(t)
        PROVE  run[t].part = o /\ run[t].pc \in Loop /\ op[o] = "executing"
    <2>1. run[t].pc = "dispatch" /\ sent' = [sent EXCEPT ![run[t].part] = @ + 1]
      BY <1>1 DEF Reach, At
    <2>2. run[t].part = o
      BY <1>0, <2>1
    <2> QED BY <1>0, <2>1, <2>2 DEF TaskInv, Loop, Busy
  <1>2. ASSUME NEW t \in Task, NEW lost \in BOOLEAN, Claim(t, lost)
        PROVE  run[t].part = o /\ run[t].pc \in Loop /\ op[o] = "prepared"
    <2>1. run[t].pc = "claim"
          /\ sent' = [sent EXCEPT ![run[t].part] = IF Local /\ Claims(run[t].part) THEN @ + 1 ELSE @]
      BY <1>2 DEF Claim, At
    <2>2. run[t].part = o /\ Claims(o)
      BY <1>0, <2>1
    <2> QED BY <2>1, <2>2 DEF Claims, Loop
  <1>3. ASSUME NEW t \in Task,
               \/ PrepareSequence(t) \/ Open(t) \/ Refused(t) \/ Unentered(t) \/ Return(t)
               \/ Settle(t) \/ Repair(t) \/ StopSequence(t) \/ Find(t) \/ Preflight(t)
               \/ SettleFails(t) \/ Deferred(t) \/ Cancel(t)
        PROVE  FALSE
    <2>1. sent' = sent
      BY <1>3 DEF PrepareSequence, Open, Refused, Unentered, Return, Settle, Repair,
                  StopSequence, Find, Preflight, SettleFails, Deferred, Cancel
    <2> QED BY <2>1
  <1>4. CASE Illustrate \/ Revoke \/ Crash \/ Recover \/ UNCHANGED vars
    <2>1. sent' = sent
      BY <1>4 DEF Illustrate, Scan, Begin, Select, Check, Close, Done, Revoke, Crash, Recover, vars
    <2> QED BY <2>1
  <1>5. TRUE \in BOOLEAN /\ FALSE \in BOOLEAN
    OBVIOUS
  <1> QED BY <1>1, <1>2, <1>3, <1>4, <1>5 DEF Next, Progress

(* Nobody has a part to send once the text is over.                        *)
LEMMA TextIsQuiet ==
    ASSUME SocialSendAssumption, IInv, PrefixSucceeded, StopInv, TextOver,
           NEW o \in Text, NEW t \in Task, run[t].part = o, run[t].pc \in Loop,
           op[o] \in {"prepared", "executing"}
    PROVE  FALSE
PROOF
  <1>1. t \in Caller
    <2>1. o # 0 /\ run[Worker].part = 0
      BY DEF IInv, RunInv, Text, SocialSendAssumption
    <2> QED BY <2>1 DEF Task
  <1>2. parent # "failed"
    BY <1>1 DEF StopInv, Loop, Busy
  <1>3. o > 1 => op[o - 1] = "succeeded"
    BY DEF IInv, TaskInv
  <1>4. ASSUME NEW j \in Text, op[j] \in {"failed", "uncertain"}  PROVE FALSE
    <2>1. CASE j > o
      <3>1. o < j
        BY <2>1 DEF Text, SocialSendAssumption
      <3> QED BY <1>4, <3>1 DEF PrefixSucceeded
    <2>2. CASE j = o
      BY <1>4, <2>2
    <2>3. CASE j < o
      <3>1. o > 1 /\ o - 1 \in Text /\ (j = o - 1 \/ j < o - 1)
        BY <2>3 DEF Text, SocialSendAssumption
      <3> QED BY <1>3, <1>4, <3>1 DEF PrefixSucceeded
    <2> QED BY <2>1, <2>2, <2>3 DEF Text, SocialSendAssumption
  <1> QED BY <1>2, <1>4 DEF TextOver

(* What the worker sees of the text is that it is over.                    *)
LEMMA FinishedIsOver ==
    ASSUME SocialSendAssumption, IInv, IntentInv, run[Worker].pc = "check", TextDispatchFinished
    PROVE  TextOver
PROOF
  <1>1. CASE Sequence
    BY <1>1 DEF TextDispatchFinished, TextOver
  <1>2. CASE ~Sequence
    <2>1. Parts = 1 /\ Text = {1} /\ 1 \in Op
      BY <1>2 DEF Sequence, Text, Op, SocialSendAssumption
    <2>2. op[1] # "absent" /\ op[1] \in Status
      BY <2>1, WorkerHasIntent DEF IInv, IntentInv, TypeOK
    <2>3. op[1] \notin {"prepared", "executing"}
      BY <1>2 DEF TextDispatchFinished
    <2> QED BY <2>1, <2>2, <2>3 DEF TextOver, Status
  <1> QED BY <1>1, <1>2

LEMMA OrderStays ==
    ASSUME SocialSendAssumption, OneExecution, IInv, OrderInv, [Next]_vars
    PROVE  OrderInv'
PROOF
  <1>1. PrefixSucceeded' /\ IntentInv' /\ StopInv'
    BY PrefixStays, EveryRowMoves, IntentStays, StopStays DEF OrderInv
  <1>2. ASSUME PictureUnderWay'  PROVE TextOver
    <2>1. CASE PictureUnderWay
      BY <2>1 DEF OrderInv
    <2>2. CASE ~PictureUnderWay /\ sent'[0] > 0
      <3>1. 0 \in Op /\ sent'[0] # sent[0]
        BY <2>2 DEF PictureUnderWay, Op, SocialSendAssumption
      <3>2. PICK t \in Task : run[t].part = 0 /\ run[t].pc \in Loop
        BY <3>1, WhoSends
      <3>3. t = Worker
        BY <3>2 DEF IInv, RunInv, Task, Text, SocialSendAssumption
      <3> QED BY <2>2, <3>2, <3>3 DEF PictureUnderWay
    <2>3. CASE ~PictureUnderWay /\ run'[Worker].pc \in Loop
      BY <2>3, WorkerMoves, FinishedIsOver DEF PictureUnderWay, OrderInv
    <2> QED BY <1>2, <2>1, <2>2, <2>3 DEF PictureUnderWay
  <1>3. TextOver => TextOver'
    BY TextStaysOver, PlanMoves, EveryRowMoves
  <1> QED BY <1>1, <1>2, <1>3 DEF OrderInv

LEMMA InitOrder ==
    ASSUME SocialSendAssumption, Init
    PROVE  OrderInv
PROOF
  <1>1. Worker \in Task /\ Caller \subseteq Task /\ 0 \in Op /\ 1 \in Op /\ Text \subseteq Op
    BY DEF Task, Text, Op, SocialSendAssumption
  <1>2. \A t \in Task : run[t].pc = "idle"
    BY DEF Init, Idle
  <1>3. PrefixSucceeded /\ IntentInv
    BY <1>1 DEF Init, PrefixSucceeded, IntentInv
  <1>4. StopInv /\ ~PictureUnderWay
    BY <1>1, <1>2 DEF Init, StopInv, PictureUnderWay, Loop, Busy
  <1> QED BY <1>3, <1>4 DEF OrderInv

LEMMA PictureStaysLast ==
    ASSUME SocialSendAssumption, OneExecution, IInv, OrderInv, [Next]_vars
    PROVE  PictureIsLast
PROOF
  <1> SUFFICES ASSUME sent[0] > 0, NEW i \in Text
               PROVE  sent'[i] = sent[i]
    BY DEF PictureIsLast
  <1>1. i \in Op /\ TextOver /\ PrefixSucceeded /\ StopInv
    BY DEF OrderInv, PictureUnderWay, Text, Op, SocialSendAssumption
  <1> QED BY <1>1, WhoSends, TextIsQuiet

(* Once the platform was given the illustration no text of the call        *)
(* follows, whatever is cancelled, revoked or crashes                      *)
(* (_text_dispatch_finished and EmojiDeliveryService._deliver).            *)
THEOREM PictureComesLast ==
    ASSUME SocialSendAssumption, OneExecution
    PROVE  Spec => OrderIsKept
PROOF
  <1>1. Init => OrderInv
    BY InitOrder
  <1>2. IInv /\ OrderInv /\ [Next]_vars => OrderInv'
    BY OrderStays
  <1>3. IInv /\ OrderInv /\ [Next]_vars => [PictureIsLast]_vars
    BY PictureStaysLast
  <1> QED BY <1>1, <1>2, <1>3, SendInvariant, PTL DEF Spec, OrderIsKept
===============================================================================
