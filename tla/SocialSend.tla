------------------------------ MODULE SocialSend ------------------------------
(***************************************************************************)
(* One call of the Social tool "send": its frozen plan of text parts       *)
(* (social_operations), the claim of every part, the one network call of   *)
(* a claimed part, its settlement together with the ledger event, and the  *)
(* illustration the call may ask for, which a background worker sends      *)
(* after the text as an operation of its own.  Sources: social/service.py, *)
(* social/repository.py, social/emoji_intents.py, emoji/delivery.py and    *)
(* runtime/delivery_intents.py.                                            *)
(*                                                                         *)
(* One action is one SQLite transaction, one network step, or one read a   *)
(* later step uses.  Operation 0 is the illustration's; 1..Parts are the   *)
(* text parts.  The same call may be executed several times, also at once: *)
(* the callers share the rows.  Left out: the choice of target, route and  *)
(* content, a call with an illustration and no text, historical rows.      *)
(***************************************************************************)
EXTENDS Naturals, FiniteSets

CONSTANTS
    Caller,       \* executions of the call that may overlap
    Worker,       \* the task of EmojiDeliveryService that serves the intent
    Parts,        \* text parts of the plan
    Local,        \* the route's provider is the local ledger
    Illustrated,  \* the call asks for an illustration
    Leased,       \* the callers are activations of a Work
    MaxCalls,     \* executions of the call
    MaxFaults     \* crashes, cancellations, failed transactions and preflights

SocialSendAssumption ==
    /\ IsFiniteSet(Caller) /\ Worker \notin Caller
    /\ Parts \in Nat \ {0}
    /\ {Local, Illustrated, Leased} \subseteq BOOLEAN
    /\ MaxCalls \in Nat /\ MaxFaults \in Nat

VARIABLES
    parent,    \* the row of the sequence (a plan of several parts)
    op,        \* status of every operation's row
    delivery,  \* the Work's delivery row of every text part
    ledger,    \* outbound events of every operation
    sent,      \* times the platform was given every operation
    intent,    \* the illustration intent: none, open, selected, closed
    woken,     \* the worker's event
    run,       \* where every caller and the worker's task are
    allowed,   \* the source is neither cancelled nor revoked
    up,        \* the process runs and has recovered its rows
    calls, faults

rows == <<parent, op, delivery, ledger, intent>>
vars == <<parent, op, delivery, ledger, sent, intent, woken, run, allowed,
          up, calls, faults>>

-----------------------------------------------------------------------------
Text == 1..Parts
Op   == 0..Parts
Task == Caller \cup {Worker}
Sequence == Parts > 1

(* OperationStatus, and the absence of a row. *)
Status == {"absent", "prepared", "executing", "succeeded", "failed", "uncertain"}
Sent   == {"confirmed", "unknown", "refused"}

Idle == [pc |-> "idle", part |-> 0, outcome |-> "none", stop |-> FALSE]

Init ==
    /\ parent = "absent"
    /\ op = [o \in Op |-> "absent"]
    /\ delivery = [o \in Op |-> "none"]
    /\ ledger = [o \in Op |-> 0]
    /\ sent = [o \in Op |-> 0]
    /\ intent = "none"
    /\ woken = TRUE
    /\ run = [t \in Task |-> Idle]
    /\ allowed = TRUE
    /\ up = TRUE
    /\ calls = 0 /\ faults = 0

-----------------------------------------------------------------------------
At(t, pc)      == up /\ run[t].pc = pc
GoTo(t, pc)    == run' = [run EXCEPT ![t].pc = pc]
Fault          == faults < MaxFaults /\ faults' = faults + 1

(* Where an execution goes that got no result for its part: the first part *)
(* raises, a later one stops the sequence, a cancelled one stops it from   *)
(* any part.  The worker closes its intent.                                *)
AfterError(t) ==
    CASE t = Worker -> [Idle EXCEPT !.pc = "close"]
      [] t # Worker /\ Sequence /\ (run[t].part > 1 \/ run[t].stop) ->
            [run[t] EXCEPT !.pc = "stop"]
      [] OTHER -> Idle

(* The loop over the parts goes on after a part that succeeded. *)
AfterResult(t, status) ==
    IF t = Worker THEN [Idle EXCEPT !.pc = "close"]
    ELSE IF run[t].stop THEN AfterError(t)
    ELSE IF status = "succeeded" /\ run[t].part < Parts
         THEN [Idle EXCEPT !.pc = "open", !.part = run[t].part + 1]
         ELSE Idle

(* record: what a delivery row becomes of a receipt. *)
Recorded(o, status) ==
    LET state == IF status = "succeeded" THEN "accepted"
                 ELSE IF status = "failed" THEN "failed" ELSE "unknown"
    IN IF \/ o = 0 \/ ~Leased \/ delivery[o] \in {"none", "accepted"}
          \/ (delivery[o] = "unknown" /\ state # "accepted")
       THEN delivery
       ELSE [delivery EXCEPT ![o] = state]

(* Mutant: the text counts as finished whenever none of its parts is out.  *)
TextFinishedHasty == \A i \in Text : op[i] # "executing"

(* _text_dispatch_finished *)
TextDispatchFinished ==
    IF ~Sequence THEN op[1] \notin {"prepared", "executing"}
    ELSE \/ parent = "failed"
         \/ /\ \A i \in Text : op[i] # "executing"
            /\ \/ \E i \in Text : op[i] \in {"failed", "uncertain"}
               \/ \A i \in Text : op[i] = "succeeded"

-----------------------------------------------------------------------------
(* execute: a receipt that left "prepared" answers the call. *)
Find(t) ==
    /\ up /\ t # Worker /\ run[t] = Idle /\ calls < MaxCalls
    /\ calls' = calls + 1
    /\ woken' = (woken \/ (Illustrated /\ intent \in {"open", "selected"}))
    /\ IF \/ parent = "failed"
          \/ \E i \in Text : op[i] \notin {"absent", "prepared"}
       THEN /\ delivery' = IF Sequence THEN delivery ELSE Recorded(1, op[1])
            /\ UNCHANGED run
       ELSE /\ run' = [run EXCEPT ![t] =
                         [Idle EXCEPT !.pc = IF Sequence THEN "prepare" ELSE "open",
                                      !.part = 1]]
            /\ UNCHANGED delivery
    /\ UNCHANGED <<parent, op, ledger, sent, intent, allowed, up, faults>>

(* The caller of prepare_sequence dispatches when nothing has begun. *)
Dispatch == parent \in {"absent", "prepared"} /\ \A i \in Text : op[i] \in {"absent", "prepared"}

(* prepare_sequence: the plan and all its parts are frozen at once. *)
PrepareSequence(t) ==
    /\ At(t, "prepare")
    /\ IF parent = "absent"
       THEN parent' = "prepared" /\ op' = [o \in Op |-> IF o \in Text THEN "prepared" ELSE op[o]]
       ELSE UNCHANGED <<parent, op>>
    /\ run' = [run EXCEPT ![t] = IF Dispatch THEN [@ EXCEPT !.pc = "open"] ELSE Idle]
    /\ UNCHANGED <<delivery, ledger, sent, intent, woken, allowed, up, calls, faults>>

(* _effect up to its claim: prepare inserts or reads the row; a row that   *)
(* left "prepared" is the answer.                                          *)
Open(t) ==
    /\ At(t, "open")
    /\ LET o == run[t].part IN
       IF op[o] \in {"absent", "prepared"}
       THEN /\ op' = [op EXCEPT ![o] = "prepared"]
            /\ GoTo(t, "claim")
            /\ UNCHANGED delivery
       ELSE /\ run' = [run EXCEPT ![t] = AfterResult(t, op[o])]
            /\ delivery' = Recorded(o, op[o])
            /\ UNCHANGED op
    /\ UNCHANGED <<parent, ledger, sent, intent, woken, allowed, up, calls, faults>>

(* A preparation, a check or the claim's transaction fails: nothing of the *)
(* part was written.  A failure that lasts is revocation (Refused).        *)
Preflight(t) ==
    /\ up /\ run[t].pc \in {"open", "claim"}
    /\ Fault
    /\ run' = [run EXCEPT ![t] = IF t = Worker THEN [Idle EXCEPT !.pc = "begin"] ELSE AfterError(t)]
    /\ woken' = (woken \/ (Illustrated /\ run[t].part = 1))
    /\ UNCHANGED <<parent, op, delivery, ledger, sent, intent, allowed, up, calls>>

(* reserve: a delivery that was accepted, or may have been, is not         *)
(* reserved again (delivery_replay_forbidden).                             *)
Replays(o) == Leased /\ o # 0 /\ delivery[o] \in {"accepted", "unknown"}

(* The checks inside the claim's transaction: the Work is live and leased, *)
(* the sender still authorised, validate_claim for the illustration, and   *)
(* the delivery may be reserved.                                           *)
Admissible(t) == allowed /\ ~Replays(run[t].part)

Refused(t) ==
    /\ At(t, "claim") /\ ~Admissible(t)
    /\ run' = [run EXCEPT ![t] = AfterError(t)]
    /\ woken' = (woken \/ (Illustrated /\ run[t].part = 1))
    /\ UNCHANGED <<parent, op, delivery, ledger, sent, intent, allowed, up, calls, faults>>

(* claim: the compare-and-set that makes one execution the dispatcher. *)
Claims(o) == op[o] = "prepared"

(* The claim's transaction: the intent is admitted with the first part,    *)
(* the delivery reserved, the row claimed; a local route publishes and     *)
(* settles in the same transaction.  The transaction commits whether or    *)
(* not the claim was won.  lost: the caller is told of an error after the  *)
(* commit.                                                                 *)
Claim(t, lost) ==
    /\ At(t, "claim") /\ Admissible(t)
    /\ LET o == run[t].part
           reserved == IF Leased /\ o # 0 THEN [delivery EXCEPT ![o] = "reserved"] ELSE delivery
           published == Local /\ Claims(o)
           status == IF published THEN "succeeded" ELSE IF Claims(o) THEN "executing" ELSE op[o]
       IN /\ intent' = IF Illustrated /\ o = 1 /\ intent = "none" THEN "open" ELSE intent
          /\ op' = [op EXCEPT ![o] = status]
          /\ delivery' = IF published /\ Leased /\ o # 0
                         THEN [reserved EXCEPT ![o] = "accepted"] ELSE reserved
          /\ ledger' = [ledger EXCEPT ![o] = IF published THEN @ + 1 ELSE @]
          /\ sent' = [sent EXCEPT ![o] = IF published THEN @ + 1 ELSE @]
          /\ run' = [run EXCEPT ![t] =
                IF Local /\ (Claims(o) \/ lost) THEN AfterResult(t, status)
                ELSE IF ~Claims(o)
                     THEN IF lost THEN AfterError(t) ELSE [@ EXCEPT !.pc = "open"]
                ELSE [@ EXCEPT !.pc = IF lost \/ run[t].stop THEN "unentered" ELSE "dispatch"]]
          /\ woken' = (woken \/ (Illustrated /\ o = 1 /\ run'[t].pc # "unentered"))
    /\ IF lost THEN Fault ELSE UNCHANGED faults
    /\ UNCHANGED <<parent, allowed, up, calls>>

(* The network call has not been entered: the claim is settled as failed.  *)
Unentered(t) ==
    /\ At(t, "unentered")
    /\ op' = [op EXCEPT ![run[t].part] = "failed"]
    /\ delivery' = Recorded(run[t].part, "failed")
    /\ run' = [run EXCEPT ![t] = AfterError(t)]
    /\ woken' = (woken \/ (Illustrated /\ run[t].part = 1))
    /\ UNCHANGED <<parent, ledger, sent, intent, allowed, up, calls, faults>>

(* What operations.send returns or raises: a reference, an error that says *)
(* nothing was sent, or an error that leaves it open.                      *)
Answer(t, reached, outcome) ==
    /\ IF reached THEN At(t, "reached") /\ outcome # "refused"
                  ELSE At(t, "dispatch") /\ outcome # "confirmed"
    /\ run' = [run EXCEPT ![t].pc = IF outcome = "confirmed" THEN "settle" ELSE "repair",
                          ![t].outcome = outcome]

(* _dispatch_claimed: the one gateway call. *)
Reach(t) ==
    /\ At(t, "dispatch")
    /\ sent' = [sent EXCEPT ![run[t].part] = @ + 1]
    /\ GoTo(t, "reached")
    /\ UNCHANGED <<rows, woken, allowed, up, calls, faults>>

Return(t) ==
    /\ \E reached \in BOOLEAN, outcome \in Sent : Answer(t, reached, outcome)
    /\ UNCHANGED <<rows, sent, woken, allowed, up, calls, faults>>

(* What the caller goes on to once the row is settled; every settlement of *)
(* an illustrated call wakes the worker.                                   *)
Settled(t, status) ==
    /\ op' = [op EXCEPT ![run[t].part] = status]
    /\ delivery' = Recorded(run[t].part, status)
    /\ run' = [run EXCEPT ![t] = AfterResult(t, status)]
    /\ woken' = (woken \/ (Illustrated /\ t # Worker))

(* The settlement of a confirmed call: the event, while its sources are    *)
(* retained, and the receipt in one transaction.  A caller that is told of *)
(* an error after the commit finds the receipt succeeded by reading it.    *)
Settle(t) ==
    /\ At(t, "settle")
    /\ \E kept \in {0, 1} : ledger' = [ledger EXCEPT ![run[t].part] = @ + kept]
    /\ Settled(t, "succeeded")
    /\ UNCHANGED <<parent, sent, intent, allowed, up, calls, faults>>

(* The transaction of the event and the receipt is rolled back. *)
SettleFails(t) ==
    /\ At(t, "settle")
    /\ Fault
    /\ GoTo(t, "repair")
    /\ UNCHANGED <<rows, sent, woken, allowed, up, calls>>

(* What the second settlement writes for an outcome. *)
RepairedStatus(outcome) ==
    CASE outcome = "confirmed" -> "succeeded"
      [] outcome = "refused"   -> "failed"
      [] OTHER                 -> "uncertain"

(* The second settlement: the receipt alone. *)
Repair(t) ==
    /\ At(t, "repair")
    /\ Settled(t, RepairedStatus(run[t].outcome))
    /\ UNCHANGED <<parent, ledger, sent, intent, allowed, up, calls, faults>>

(* Neither could be written: the row stays executing until a restart.      *)
Deferred(t) ==
    /\ up /\ run[t].pc \in {"repair", "unentered"}
    /\ Fault
    /\ run' = [run EXCEPT ![t] = AfterError(t)]
    /\ woken' = (woken \/ (Illustrated /\ t # Worker))
    /\ UNCHANGED <<rows, sent, allowed, up, calls>>

(* stop_sequence: the later parts stay prepared and are never claimed. *)
StopSequence(t) ==
    /\ At(t, "stop")
    /\ parent' = IF parent = "prepared" THEN "failed" ELSE parent
    /\ run' = [run EXCEPT ![t] = Idle]
    /\ woken' = (woken \/ Illustrated)
    /\ UNCHANGED <<op, delivery, ledger, sent, intent, allowed, up, calls, faults>>

(* CancelledError reaches a caller between parts, inside the call, or in a  *)
(* transaction that commits all the same.                                  *)
Cancel(t) ==
    /\ up /\ t # Worker /\ ~run[t].stop
    /\ Fault
    /\ \/ /\ run[t].pc \in {"open", "claim"}
          /\ run' = [run EXCEPT ![t] = IF Sequence THEN [@ EXCEPT !.pc = "stop"] ELSE Idle]
       \/ /\ run[t].pc \in {"dispatch", "reached"}
          /\ run' = [run EXCEPT ![t].pc = "repair", ![t].outcome = "unknown", ![t].stop = TRUE]
       \/ /\ run[t].pc \in {"claim", "unentered", "settle"}
          /\ run' = [run EXCEPT ![t].stop = TRUE]
    /\ UNCHANGED <<rows, sent, woken, allowed, up, calls>>

-----------------------------------------------------------------------------
(* _run_queue: clear the event, read the pending intents, start the task.  *)
(* An intent is pending while it is unselected, its text has ended, or its *)
(* source is revoked.                                                      *)
Scan ==
    /\ up /\ woken
    /\ woken' = FALSE
    /\ IF /\ run[Worker] = Idle
          /\ \/ intent = "open"
             \/ intent = "selected" /\ (TextDispatchFinished \/ ~allowed)
       THEN GoTo(Worker, "begin")
       ELSE UNCHANGED run
    /\ UNCHANGED <<rows, sent, allowed, up, calls, faults>>

(* _deliver: the original facts first, then the source, then the phase.    *)
Begin ==
    /\ At(Worker, "begin")
    /\ GoTo(Worker, IF \/ ~allowed
                       \/ intent = "selected" /\ op[0] \notin {"absent", "prepared"}
                    THEN "close"
                    ELSE IF intent = "open" THEN "select" ELSE "check")
    /\ UNCHANGED <<rows, sent, woken, allowed, up, calls, faults>>

(* library.select: an asset, or none and the unselected intent is closed.  *)
Select ==
    /\ At(Worker, "select")
    /\ \/ intent' = "selected" /\ GoTo(Worker, "check")
       \/ intent' = "closed" /\ GoTo(Worker, "done")
    /\ UNCHANGED <<parent, op, delivery, ledger, sent, woken, allowed, up, calls, faults>>

(* library.publish, then the order against the text. *)
Check ==
    /\ At(Worker, "check")
    /\ \/ GoTo(Worker, IF TextDispatchFinished THEN "open" ELSE "done")
       \/ GoTo(Worker, "close")
    /\ UNCHANGED <<rows, sent, woken, allowed, up, calls, faults>>

Close ==
    /\ At(Worker, "close")
    /\ intent' = "closed"
    /\ GoTo(Worker, "done")
    /\ UNCHANGED <<parent, op, delivery, ledger, sent, woken, allowed, up, calls, faults>>

(* _finished: the task leaves and the queue is read again. *)
Done ==
    /\ At(Worker, "done")
    /\ run' = [run EXCEPT ![Worker] = Idle]
    /\ woken' = TRUE
    /\ UNCHANGED <<rows, sent, allowed, up, calls, faults>>

-----------------------------------------------------------------------------
(* The source is cancelled, replaced or loses its rights; for good. *)
Revoke ==
    /\ allowed
    /\ allowed' = FALSE
    /\ UNCHANGED <<rows, sent, woken, run, up, calls, faults>>

Crash ==
    /\ up /\ Fault
    /\ up' = FALSE
    /\ run' = [t \in Task |-> Idle]
    /\ UNCHANGED <<rows, sent, woken, allowed, calls>>

(* Mutant: recovery prepares an interrupted operation again. *)
InterruptedAgain == "prepared"

(* What recovery writes for a claim the process died with. *)
Interrupted == "uncertain"

(* recover_interrupted, then the start of the worker: a claim of the dead  *)
(* process is uncertain, and a sequence cut short ends if an illustration  *)
(* waits for it.                                                           *)
Recover ==
    /\ ~up
    /\ up' = TRUE
    /\ woken' = TRUE
    /\ op' = [o \in Op |-> IF op[o] = "executing" THEN Interrupted ELSE op[o]]
    /\ parent' = IF /\ parent = "prepared" /\ intent \in {"open", "selected"}
                    /\ \E i \in Text : op[i] = "prepared"
                    /\ \E i \in Text : op[i] # "prepared"
                 THEN "failed" ELSE parent
    /\ UNCHANGED <<delivery, ledger, sent, intent, run, allowed, calls, faults>>

-----------------------------------------------------------------------------
Progress(t) ==
    \/ PrepareSequence(t) \/ Open(t) \/ Refused(t) \/ Claim(t, FALSE) \/ Unentered(t)
    \/ Reach(t) \/ Return(t) \/ Settle(t) \/ Repair(t) \/ StopSequence(t)

Illustrate == Scan \/ Begin \/ Select \/ Check \/ Close \/ Done

Next ==
    \/ \E t \in Task :
          \/ Find(t) \/ Progress(t) \/ Preflight(t) \/ Claim(t, TRUE)
          \/ SettleFails(t) \/ Deferred(t) \/ Cancel(t)
    \/ Illustrate
    \/ Revoke \/ Crash \/ Recover

Spec == Init /\ [][Next]_vars

(* Tasks of a running event loop go on, and the process is restarted.      *)
Fairness ==
    /\ \A t \in Task : WF_vars(Progress(t))
    /\ WF_vars(Scan) /\ WF_vars(Begin \/ Select \/ Check \/ Close \/ Done)
    /\ WF_vars(Recover)

FairSpec == Spec /\ Fairness

-----------------------------------------------------------------------------
TypeOK ==
    /\ parent \in {"absent", "prepared", "failed"}
    /\ op \in [Op -> Status]
    /\ op[0] # "absent" => intent # "none"
    /\ delivery \in [Op -> {"none", "reserved", "accepted", "failed", "unknown"}]
    /\ ledger \in [Op -> 0..1] /\ sent \in [Op -> Nat]
    /\ intent \in {"none", "open", "selected", "closed"}
    /\ {woken, allowed, up} \subseteq BOOLEAN
    /\ \A t \in Task :
          /\ run[t].pc \in {"idle", "prepare", "open", "claim", "dispatch", "unentered",
                            "reached", "settle", "repair", "stop", "begin", "select",
                            "check", "close", "done"}
          /\ run[t].part \in Op /\ run[t].outcome \in Sent \cup {"none"}
          /\ run[t].stop \in BOOLEAN
    /\ calls \in 0..MaxCalls /\ faults \in 0..MaxFaults

(* No caller, crash, repeated call or concurrent call gives the platform   *)
(* the same part, or the illustration, twice.                              *)
SentOnce == \A o \in Op : sent[o] <= 1

(* A receipt says what happened: a success was given to the platform, and  *)
(* what is failed, prepared or not there never was.                        *)
ReceiptIsTrue ==
    \A o \in Op :
        /\ op[o] = "succeeded" => sent[o] = 1
        /\ op[o] \in {"failed", "prepared", "absent"} => sent[o] = 0

(* A part is given to the platform only after the part before it was       *)
(* confirmed, whoever sends it (the loop of _send_message_sequence).       *)
PartsInOrder ==
    \A i \in Text : i > 1 /\ sent[i] > 0 => op[i - 1] = "succeeded"

(* An outbound event is a confirmed operation's; the local ledger, where   *)
(* the event is the message, has one for every confirmed operation.        *)
LedgerIsConfirmed ==
    \A o \in Op :
        /\ ledger[o] = 1 => op[o] = "succeeded"
        /\ Local /\ op[o] = "succeeded" => ledger[o] = 1

(* What the Work records of a delivery is never better or worse than the   *)
(* receipt: unknown where the receipt may still change.                    *)
DeliveryAgrees ==
    \A i \in Text :
        /\ delivery[i] = "accepted" => op[i] = "succeeded"
        /\ delivery[i] = "failed" => op[i] = "failed"
        /\ delivery[i] # "none" => op[i] \notin {"absent", "prepared"}

(* Once the illustration is with the platform no text follows it           *)
(* (_text_dispatch_finished).                                              *)
PictureIsLast == sent[0] > 0 => \A i \in Text : sent'[i] = sent[i]
OrderIsKept == [][PictureIsLast]_vars

(* What the platform is given is given once, and in order.                 *)
MessageSentOnce == TypeOK /\ SentOnce /\ PartsInOrder

(* What the receipts, the ledger and the Work say is what happened.        *)
MessageReceiptIsTrue == ReceiptIsTrue /\ LedgerIsConfirmed /\ DeliveryAgrees

(* A claim nobody settles before the next restart. *)
Stranded ==
    \E o \in Op : op[o] = "executing" /\ \A t \in Task : run[t].pc = "idle" \/ run[t].part # o

(* An accepted illustration is sent or given up, without another call to   *)
(* wake the worker, unless a settlement had to be left to a restart.       *)
IllustrationEnds ==
    intent \in {"open", "selected"} ~> (intent = "closed" \/ Stranded)
===============================================================================
