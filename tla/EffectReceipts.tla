---------------------------- MODULE EffectReceipts ----------------------------
(***************************************************************************)
(* The effects of one Work: every tool call is a durable intent (T1,       *)
(* prepare_effect), a dispatch marker charged to the root budget (T2,      *)
(* admit_dispatch), the call itself, and its receipt (T3, record_effect).  *)
(* services/invocation_service.py orders the four; the repository keeps    *)
(* the rows (runtime/work_repository.py, runtime/work_budget.py) and       *)
(* codemode/driver.py adds the children of a program.                      *)
(*                                                                         *)
(* Every write is a compare-and-set against a receipt read earlier in      *)
(* another session, so reads and writes are separate actions.  The lease   *)
(* is what module WorkLease promises: `holder' passes to another           *)
(* activation only when the previous one is stopping or gone, or when a    *)
(* hard boundary has cancelled the Work too.                               *)
(***************************************************************************)
EXTENDS Naturals, FiniteSets

CONSTANTS
    Activation,     \* activations that may run the Work, one after another
    NoOwner,
    Key,            \* effect keys of the Work
    Charged,        \* keys whose tool counts towards the business limit
    Child,          \* keys that are children of a code composition
    ToolLimit       \* tool_limit of the root budget, which no code changes

ASSUME EffectAssumption ==
    /\ NoOwner \notin Activation
    /\ IsFiniteSet(Key)
    /\ Charged \subseteq Key
    /\ Child \subseteq Key
    /\ ToolLimit \in Nat

VARIABLES
    work,       \* "open" stands for every state that is not terminal
    holder,     \* the activation the lease fence admits
    mode,       \* life cycle of an activation
    effect,     \* the committed rows of runtime_work_effects
    tools,      \* tools charged to the root budget
    pc,         \* control state of an activation's call for a key
    snap,       \* the receipt a pending compare-and-set was computed from
    goal,       \* what record_effect was called with
    ran         \* how often the tool really ran

vars == <<work, holder, mode, effect, tools, pc, snap, goal, ran>>

Outcome == {"none", "refused", "pending", "uncertain", "done"}

EffectState == {"absent", "prepared", "accepted", "failed", "unknown"}

(* `started' is invocation.dispatch_started, `rev' invocation.revision. *)
Effect == [state : EffectState, started : BOOLEAN, outcome : Outcome, rev : Nat]

Absent == [state |-> "absent", started |-> FALSE, outcome |-> "none", rev |-> 0]

Intent == [state |-> "prepared", started |-> FALSE, outcome |-> "none", rev |-> 0]

(* `late' marks a receipt written from the handler that also runs when the  *)
(* activation is cancelled.                                                 *)
Goal == [state : {"accepted", "failed", "unknown"}, outcome : Outcome, late : BOOLEAN]

NoGoal == [state |-> "unknown", outcome |-> "none", late |-> FALSE]

(* undispatched_intent *)
Undispatched(k) == effect[k].state = "prepared" /\ ~effect[k].started

Unresolved(k) == effect[k].state = "accepted" /\ effect[k].outcome \in {"pending", "uncertain"}

Init ==
    /\ work = "open"
    /\ holder = NoOwner
    /\ mode = [a \in Activation |-> "new"]
    /\ effect = [k \in Key |-> Absent]
    /\ tools = 0
    /\ pc = [a \in Activation |-> [k \in Key |-> "idle"]]
    /\ snap = [a \in Activation |-> [k \in Key |-> Absent]]
    /\ goal = [a \in Activation |-> [k \in Key |-> NoGoal]]
    /\ ran = [k \in Key |-> 0]

Goto(a, k, label) == pc' = [pc EXCEPT ![a][k] = label]

-----------------------------------------------------------------------------
(* Activations and the Work's state *)

Acquire(a) ==
    /\ mode[a] = "new" /\ holder = NoOwner /\ work = "open"
    /\ holder' = a
    /\ mode' = [mode EXCEPT ![a] = "running"]
    /\ UNCHANGED <<work, effect, tools, pc, snap, goal, ran>>

(* Mutant: the program's settlement catches the cancellation and goes on.   *)
CancelStillSettles(a) ==
    /\ mode[a] = "running"
    /\ mode' = [mode EXCEPT ![a] = "stopping"]
    /\ pc' = [pc EXCEPT ![a] = [k \in Key |->
                 IF pc[a][k] \in {"idle", "done", "execute", "bound", "returned",
                                  "record", "recording"}
                   THEN pc[a][k]
                   ELSE "done"]]
    /\ UNCHANGED <<work, holder, effect, tools, snap, goal, ran>>

(* The heartbeat failed, or the process shuts down: the activation's task   *)
(* is cancelled at its await.  A tool that was dispatched is interrupted,   *)
(* and the handler that records an interrupted tool still runs.             *)
Cancel(a) ==
    /\ mode[a] = "running"
    /\ mode' = [mode EXCEPT ![a] = "stopping"]
    /\ pc' = [pc EXCEPT ![a] = [k \in Key |->
                 IF \/ pc[a][k] \in {"idle", "done", "execute", "bound", "returned"}
                    \/ pc[a][k] \in {"record", "recording"} /\ goal[a][k].late
                   THEN pc[a][k]
                   ELSE "done"]]
    /\ UNCHANGED <<work, holder, effect, tools, snap, goal, ran>>

(* The activation ends, by itself or cancelled, and releases its lease. *)
Leave(a) ==
    /\ mode[a] \in {"running", "stopping"}
    /\ \A k \in Key : pc[a][k] \in {"idle", "done"}
    /\ mode' = [mode EXCEPT ![a] = "gone"]
    /\ holder' = IF holder = a THEN NoOwner ELSE holder
    /\ UNCHANGED <<work, effect, tools, pc, snap, goal, ran>>

(* The process dies with every activation in it. *)
Crash ==
    /\ \E a \in Activation : mode[a] \in {"running", "stopping"}
    /\ mode' = [a \in Activation |-> IF mode[a] = "new" THEN "new" ELSE "gone"]
    /\ pc' = [a \in Activation |-> [k \in Key |-> IF mode[a] = "new" THEN "idle" ELSE "done"]]
    /\ UNCHANGED <<work, holder, effect, tools, snap, goal, ran>>

Expire ==
    /\ holder # NoOwner /\ mode[holder] \in {"stopping", "gone"}
    /\ holder' = NoOwner
    /\ UNCHANGED <<work, mode, effect, tools, pc, snap, goal, ran>>

(* The Work fails or is cancelled, by its activation or by its user. *)
EndWork ==
    /\ work = "open"
    /\ work' \in {"failed", "cancelled"}
    /\ UNCHANGED <<holder, mode, effect, tools, pc, snap, goal, ran>>

ResumeWork ==
    /\ work = "failed"
    /\ work' = "open"
    /\ UNCHANGED <<holder, mode, effect, tools, pc, snap, goal, ran>>

(* cancel_in_session: the fence moves on and every open Work is cancelled. *)
Boundary ==
    /\ work # "cancelled"
    /\ work' = "cancelled"
    /\ holder' = NoOwner
    /\ UNCHANGED <<mode, effect, tools, pc, snap, goal, ran>>

-----------------------------------------------------------------------------
(* T1 *)

(* The model's call, or the same call found pending in a journal that an    *)
(* earlier activation left behind.                                          *)
Invoke(a, k) ==
    /\ mode[a] = "running" /\ pc[a][k] \in {"idle", "child"}
    /\ k \in Child => pc[a][k] = "child"
    /\ Goto(a, k, "prepare")
    /\ UNCHANGED <<work, holder, mode, effect, tools, snap, goal, ran>>

(* publish_code_boundary inserts the child's intent; _load_children finds   *)
(* it again when the program is resumed.                                    *)
PublishChild(a, k) ==
    /\ mode[a] = "running" /\ pc[a][k] = "idle" /\ k \in Child
    /\ (effect[k] = Absent /\ holder = a /\ work = "open") \/ Undispatched(k)
    /\ effect' = [effect EXCEPT ![k] = IF @ = Absent THEN Intent ELSE @]
    /\ Goto(a, k, "child")
    /\ UNCHANGED <<work, holder, mode, tools, snap, goal, ran>>

(* _settle closes the program and records the child as never dispatched. *)
CloseChild(a, k) ==
    /\ mode[a] = "running" /\ pc[a][k] = "child"
    /\ goal' = [goal EXCEPT ![a][k] =
                  [state |-> "failed", outcome |-> "refused", late |-> FALSE]]
    /\ Goto(a, k, "record")
    /\ UNCHANGED <<work, holder, mode, effect, tools, snap, ran>>

(* Mutant: the insert replaces an intent that is already there. *)
PrepareEffectUpsert(a, k) ==
    LET fenced == holder = a /\ work = "open"
    IN  /\ pc[a][k] = "prepare"
        /\ effect' = [effect EXCEPT ![k] = IF fenced THEN Intent ELSE @]
        /\ Goto(a, k, IF fenced THEN "admit" ELSE "done")
        /\ UNCHANGED <<work, holder, mode, tools, snap, goal, ran>>

(* prepare_effect: False means that an intent already exists, not that it   *)
(* is safe to send again.                                                   *)
PrepareEffect(a, k) ==
    LET fenced == holder = a /\ work = "open"
    IN  /\ pc[a][k] = "prepare"
        /\ effect' = [effect EXCEPT ![k] = IF fenced /\ @ = Absent THEN Intent ELSE @]
        /\ Goto(a, k, IF ~fenced THEN "done"
                      ELSE IF effect[k] = Absent THEN "admit" ELSE "existing")
        /\ UNCHANGED <<work, holder, mode, tools, snap, goal, ran>>

(* Mutant: a call that was dispatched and has no receipt is run again. *)
ExistingIntentAgain(a, k) ==
    /\ pc[a][k] = "existing"
    /\ Goto(a, k, IF Undispatched(k) THEN "admit"
                  ELSE IF effect[k].state = "prepared" THEN "execute" ELSE "done")
    /\ UNCHANGED <<work, holder, mode, effect, tools, snap, goal, ran>>

(* Only an intent that was never dispatched may continue to T2; the result  *)
(* of any other call is read from its receipt.                              *)
ExistingIntent(a, k) ==
    /\ pc[a][k] = "existing"
    /\ Goto(a, k, IF Undispatched(k) THEN "admit" ELSE "done")
    /\ UNCHANGED <<work, holder, mode, effect, tools, snap, goal, ran>>

-----------------------------------------------------------------------------
(* T2 *)

AdmitRead(a, k) ==
    /\ pc[a][k] = "admit"
    /\ snap' = [snap EXCEPT ![a][k] = effect[k]]
    /\ Goto(a, k, IF Undispatched(k) THEN "admitting" ELSE "done")
    /\ UNCHANGED <<work, holder, mode, effect, tools, goal, ran>>

(* The marker and the charge, in one transaction. *)
Started(e) ==
    [state |-> e.state, started |-> TRUE, outcome |-> e.outcome, rev |-> e.rev + 1]

OverBudget(k) == k \in Charged /\ tools >= ToolLimit

Obsolete(k) == k \in Charged /\ work # "open"

(* The lease is asserted, the marker compared and set, the budget charged,  *)
(* the Work's state checked; whatever fails first rolls back the rest.      *)
Verdict(a, k) ==
    IF holder # a \/ effect[k] # snap[a][k] THEN "done"
    ELSE IF OverBudget(k) THEN "record"
    ELSE IF Obsolete(k) THEN "done"
    ELSE "execute"

BudgetRefusal == [state |-> "accepted", outcome |-> "refused", late |-> FALSE]

(* Mutant: the charge is committed before the Work's state is checked. *)
AdmitDispatchChargeFirst(a, k) ==
    LET verdict == Verdict(a, k)
    IN  /\ pc[a][k] = "admitting"
        /\ effect' = [effect EXCEPT ![k] = IF verdict = "execute" THEN Started(@) ELSE @]
        /\ tools' = IF k \in Charged /\ effect[k] = snap[a][k] /\ ~OverBudget(k)
                      THEN tools + 1 ELSE tools
        /\ goal' = [goal EXCEPT ![a][k] = IF verdict = "record" THEN BudgetRefusal ELSE @]
        /\ Goto(a, k, verdict)
        /\ UNCHANGED <<work, holder, mode, snap, ran>>

AdmitDispatch(a, k) ==
    LET verdict == Verdict(a, k)
    IN  /\ pc[a][k] = "admitting"
        /\ effect' = [effect EXCEPT ![k] = IF verdict = "execute" THEN Started(@) ELSE @]
        /\ tools' = IF verdict = "execute" /\ k \in Charged THEN tools + 1 ELSE tools
        /\ goal' = [goal EXCEPT ![a][k] = IF verdict = "record" THEN BudgetRefusal ELSE @]
        /\ Goto(a, k, verdict)
        /\ UNCHANGED <<work, holder, mode, snap, ran>>

-----------------------------------------------------------------------------
(* The call *)

(* The tool raised before a typed outcome was captured: what it did is      *)
(* unknown.                                                                 *)
Interruption == [state |-> "unknown", outcome |-> "uncertain", late |-> TRUE]

Interrupt(a, k) ==
    /\ pc[a][k] \in {"execute", "bound", "returned"}
    /\ goal' = [goal EXCEPT ![a][k] = Interruption]
    /\ Goto(a, k, "record")
    /\ UNCHANGED <<work, holder, mode, effect, tools, snap, ran>>

(* bind_domain_receipt, in the transaction that prepares the domain's own   *)
(* intent.  It refuses a Work that has ended, which interrupts the tool.    *)
BindDomain(a, k) ==
    /\ pc[a][k] = "execute" /\ work = "open" /\ effect[k].started
    /\ effect' = [effect EXCEPT ![k].rev = @ + 1]
    /\ Goto(a, k, "bound")
    /\ UNCHANGED <<work, holder, mode, tools, snap, goal, ran>>

Run(a, k) ==
    /\ pc[a][k] \in {"execute", "bound"}
    /\ ran' = [ran EXCEPT ![k] = @ + 1]
    /\ Goto(a, k, "returned")
    /\ UNCHANGED <<work, holder, mode, effect, tools, snap, goal>>

(* A typed outcome was captured.  It is recorded on the ordinary path, or,  *)
(* when the presentation of the result failed, from the handler.            *)
Return(a, k) ==
    /\ pc[a][k] = "returned"
    /\ \E outcome \in {"pending", "uncertain", "done"}, late \in BOOLEAN :
          /\ mode[a] = "running" \/ late
          /\ goal' = [goal EXCEPT ![a][k] =
                        [state |-> "accepted", outcome |-> outcome, late |-> late]]
    /\ Goto(a, k, "record")
    /\ UNCHANGED <<work, holder, mode, effect, tools, snap, ran>>

-----------------------------------------------------------------------------
(* T3 *)

(* An accepted or failed receipt is final: the call returns, or reports a   *)
(* conflict when it would have said something else.                         *)
RecordRead(a, k) ==
    /\ pc[a][k] = "record"
    /\ snap' = [snap EXCEPT ![a][k] = effect[k]]
    /\ Goto(a, k, IF effect[k].state \in {"prepared", "unknown"} THEN "recording" ELSE "done")
    /\ UNCHANGED <<work, holder, mode, effect, tools, goal, ran>>

(* No lease is needed: a late receipt records an effect already issued.     *)
(* When the row has changed since, it is read again.                        *)
Receipt(e, g) ==
    [state |-> g.state, started |-> e.started, outcome |-> g.outcome, rev |-> e.rev + 1]

RecordWrite(a, k) ==
    LET same == effect[k] = snap[a][k]
    IN  /\ pc[a][k] = "recording"
        /\ effect' = [effect EXCEPT ![k] = IF same THEN Receipt(@, goal[a][k]) ELSE @]
        /\ Goto(a, k, IF same THEN "done" ELSE "record")
        /\ UNCHANGED <<work, holder, mode, tools, snap, goal, ran>>

-----------------------------------------------------------------------------
(* resolve_run_effects: the run behind an accepted receipt has finished.    *)
(* Only the outcome is merged; the invocation, and with it the revision,    *)
(* stays.                                                                   *)

ResolveRead(a, k) ==
    /\ mode[a] = "running" /\ pc[a][k] \in {"idle", "done"}
    /\ holder = a /\ Unresolved(k)
    /\ snap' = [snap EXCEPT ![a][k] = effect[k]]
    /\ Goto(a, k, "resolving")
    /\ UNCHANGED <<work, holder, mode, effect, tools, goal, ran>>

ResolveWrite(a, k) ==
    /\ pc[a][k] = "resolving"
    /\ effect' = [effect EXCEPT ![k].outcome =
                     IF holder = a /\ effect[k] = snap[a][k] THEN "done" ELSE @]
    /\ Goto(a, k, "done")
    /\ UNCHANGED <<work, holder, mode, tools, snap, goal, ran>>

-----------------------------------------------------------------------------
(* A session of the call fails and rolls back, and the exception ends the   *)
(* call; a receipt that could not be written is given up.                   *)
Fail(a, k) ==
    /\ pc[a][k] \in {"prepare", "existing", "admit", "admitting", "record", "recording",
                     "resolving"}
    /\ Goto(a, k, "done")
    /\ UNCHANGED <<work, holder, mode, effect, tools, snap, goal, ran>>

-----------------------------------------------------------------------------
Call(a, k) ==
    \/ Invoke(a, k) \/ PublishChild(a, k) \/ CloseChild(a, k)
    \/ PrepareEffect(a, k) \/ ExistingIntent(a, k)
    \/ AdmitRead(a, k) \/ AdmitDispatch(a, k)
    \/ Interrupt(a, k) \/ BindDomain(a, k) \/ Run(a, k) \/ Return(a, k)
    \/ RecordRead(a, k) \/ RecordWrite(a, k)
    \/ ResolveRead(a, k) \/ ResolveWrite(a, k) \/ Fail(a, k)

Next ==
    \/ Crash \/ Expire \/ EndWork \/ ResumeWork \/ Boundary
    \/ \E a \in Activation :
          \/ Acquire(a) \/ Cancel(a) \/ Leave(a)
          \/ \E k \in Key : Call(a, k)

Spec == Init /\ [][Next]_vars

-----------------------------------------------------------------------------
(* Properties *)

Label == {"idle", "child", "prepare", "existing", "admit", "admitting", "execute",
          "bound", "returned", "record", "recording", "resolving", "done"}

(* Every variable stays in its domain. *)
TypeOK ==
    /\ work \in {"open", "failed", "cancelled"}
    /\ holder \in Activation \cup {NoOwner}
    /\ mode \in [Activation -> {"new", "running", "stopping", "gone"}]
    /\ effect \in [Key -> Effect]
    /\ tools \in Nat
    /\ pc \in [Activation -> [Key -> Label]]
    /\ snap \in [Activation -> [Key -> Effect]]
    /\ goal \in [Activation -> [Key -> Goal]]
    /\ ran \in [Key -> Nat]

(* No effect key runs twice, whatever crashes, resumptions and activations  *)
(* that outlive their lease do: the T2 marker is compared with the receipt  *)
(* that allowed it.                                                         *)
AtMostOnce == \A k \in Key : ran[k] <= 1

(* The root budget counts each charged dispatch marker exactly once and is  *)
(* never exceeded: charge and marker commit together or not at all.         *)
ChargedOnce ==
    /\ tools = Cardinality({k \in Charged : effect[k].started})
    /\ tools <= ToolLimit

(* A receipt does not lie about execution.  What is recorded or recovered   *)
(* as never dispatched has not run and nothing is about to run it; what is  *)
(* recorded with an outcome did run.                                        *)
ReceiptsTruthful ==
    \A k \in Key :
        /\ (effect[k].outcome = "refused" \/ ~effect[k].started)
              => /\ ran[k] = 0
                 /\ \A a \in Activation : pc[a][k] \notin {"execute", "bound"}
        /\ (effect[k].state = "accepted" /\ effect[k].outcome # "refused") => ran[k] = 1

(* What a step may do to the row of one key. *)
Keeps(k) ==
    /\ effect[k].started => effect'[k].started
    /\ effect[k].state \in {"accepted", "failed"} => effect'[k].state = effect[k].state
    /\ (effect[k].state = "accepted" /\ ~Unresolved(k)) \/ effect[k].state = "failed"
          => effect'[k].outcome = effect[k].outcome
    /\ (effect[k] # Absent /\ effect'[k] # effect[k])
          => \/ effect'[k].rev > effect[k].rev
             \/ Unresolved(k) /\ effect'[k] = [effect[k] EXCEPT !.outcome = "done"]

(* Receipts are facts: no later step undoes a dispatch marker, an accepted  *)
(* or a failed receipt, or changes the outcome of a finished call, however  *)
(* many record_effect, resolve_run_effects and prepare_effect race for it.  *)
(* A receipt changes to a higher revision, or an open outcome is resolved:  *)
(* it never returns to an earlier value, so the updates of admit_dispatch,  *)
(* record_effect and resolve_run_effects may compare it as a whole.         *)
ReceiptsFinal == [][\A k \in Key : Keeps(k)]_vars

=============================================================================
