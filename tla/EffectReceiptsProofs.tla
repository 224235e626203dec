------------------------- MODULE EffectReceiptsProofs -------------------------
(***************************************************************************)
(* The invariants of EffectReceipts, for every set of activations and      *)
(* every finite set of effect keys.                                        *)
(*                                                                         *)
(* A key runs at most once because the only way into "execute" is a        *)
(* compare-and-set against a receipt without a dispatch marker, so that    *)
(* DispatchInv ties every call that may still run to a marker that is set  *)
(* and a tool that has not run.  That a receipt which says "never          *)
(* dispatched" is never overtaken by a dispatch needs more: RefusalInv     *)
(* rests on the budget, which only grows, or on the lease (HolderInv),     *)
(* which no other activation holds while this one is not cancelled.        *)
(***************************************************************************)
EXTENDS EffectReceipts, FiniteSetTheorems, TLAPS

(* An activation that runs without the lease lost it to a hard boundary. *)
HolderInv ==
    \A a \in Activation :
        mode[a] = "running" /\ holder # a => work = "cancelled" /\ holder = NoOwner

Running == {"execute", "bound", "returned"}

(* A call that may still run holds the only claim on a marker that is set.  *)
DispatchInv ==
    \A k \in Key :
        /\ ran[k] <= 1
        /\ ~effect[k].started => ran[k] = 0
        /\ \A a \in Activation :
              /\ pc[a][k] \in Running => effect[k].started
              /\ pc[a][k] \in {"execute", "bound"} => ran[k] = 0
              /\ pc[a][k] = "returned" => ran[k] = 1
              /\ \A b \in Activation :
                    pc[a][k] \in Running /\ pc[b][k] \in Running => a = b

(* What a pending compare-and-set was computed from. *)
SnapInv ==
    \A a \in Activation, k \in Key :
        /\ pc[a][k] = "admitting" =>
              snap[a][k].state = "prepared" /\ ~snap[a][k].started
        /\ pc[a][k] = "recording" => snap[a][k].state \in {"prepared", "unknown"}
        /\ pc[a][k] = "resolving" =>
              snap[a][k].state = "accepted" /\ snap[a][k].outcome \in {"pending", "uncertain"}

(* What a receipt says, and what happened. *)
ReceiptInv ==
    \A k \in Key :
        /\ effect[k].state \in {"absent", "prepared"} => effect[k].outcome = "none"
        /\ effect[k].state = "unknown" => effect[k].outcome = "uncertain"
        /\ effect[k].state = "failed" => effect[k].outcome = "refused"
        /\ effect[k].outcome = "refused" => ~effect[k].started
        /\ effect[k].state = "accepted" /\ effect[k].outcome # "refused" => ran[k] = 1

Recording(a, k) == pc[a][k] \in {"record", "recording"}

(* What record_effect is about to say. *)
GoalInv ==
    \A a \in Activation, k \in Key :
        Recording(a, k) =>
            /\ goal[a][k].outcome # "none"
            /\ goal[a][k].state = "unknown" => goal[a][k].outcome = "uncertain"
            /\ goal[a][k].state = "failed" => goal[a][k].outcome = "refused"
            /\ goal[a][k].state = "accepted" /\ goal[a][k].outcome # "refused" => ran[k] = 1

(* A call about to be recorded as refused cannot be dispatched meanwhile. *)
RefusalInv ==
    \A a \in Activation, k \in Key :
        /\ pc[a][k] = "child" => ~effect[k].started /\ mode[a] = "running"
        /\ Recording(a, k) /\ goal[a][k].outcome = "refused" =>
              /\ ~effect[k].started
              /\ ~goal[a][k].late
              /\ \/ goal[a][k].state = "accepted" /\ k \in Charged /\ ToolLimit <= tools
                 \/ goal[a][k].state = "failed" /\ mode[a] = "running"

IInv ==
    /\ TypeOK
    /\ HolderInv
    /\ DispatchInv
    /\ SnapInv
    /\ ReceiptInv
    /\ GoalInv
    /\ RefusalInv
    /\ ChargedOnce

-----------------------------------------------------------------------------
USE EffectAssumption

(* The initial state satisfies the inductive invariant. *)
LEMMA InitInv == Init => IInv
<1> SUFFICES ASSUME Init PROVE IInv
  OBVIOUS
<1>1. TypeOK
  BY DEF Init, TypeOK, Effect, EffectState, Outcome, Goal, Label, Absent, NoGoal
<1>2. HolderInv /\ DispatchInv /\ SnapInv /\ ReceiptInv /\ GoalInv /\ RefusalInv
  BY DEF Init, HolderInv, DispatchInv, Running, SnapInv, ReceiptInv, GoalInv,
         RefusalInv, Recording, Absent
<1>3. ChargedOnce
  <2>1. {k \in Charged : effect[k].started} = {}
    BY DEF Init, Absent
  <2>2. Cardinality({k \in Charged : effect[k].started}) = 0
    BY <2>1, FS_EmptySet
  <2> QED
    BY <2>2 DEF Init, ChargedOnce
<1> QED
  BY <1>1, <1>2, <1>3 DEF IInv

(* The charged markers, while no marker changes. *)
LEMMA SameMarkers ==
  ASSUME ChargedOnce, tools' = tools,
         \A k \in Key : effect'[k].started = effect[k].started
  PROVE  ChargedOnce'
<1>1. {k \in Charged : effect'[k].started} = {k \in Charged : effect[k].started}
  OBVIOUS
<1> QED
  BY <1>1 DEF ChargedOnce

(* Changing one field of a receipt leaves a receipt. *)
LEMMA UpdatedEffect ==
  ASSUME NEW e \in Effect
  PROVE  /\ Started(e) \in Effect
         /\ [e EXCEPT !.rev = @ + 1] \in Effect
         /\ [e EXCEPT !.outcome = "done"] \in Effect
<1>1. Started(e) \in Effect
  BY DEF Started, Effect
<1>2. [e EXCEPT !.rev = @ + 1] = [state |-> e.state, started |-> e.started,
                                  outcome |-> e.outcome, rev |-> e.rev + 1]
  BY DEF Effect
<1>3. [e EXCEPT !.outcome = "done"] = [state |-> e.state, started |-> e.started,
                                       outcome |-> "done", rev |-> e.rev]
  BY DEF Effect
<1> QED
  BY <1>1, <1>2, <1>3 DEF Effect, Outcome

(* Only a conversation without a running activation is acquired. *)
LEMMA AcquireInv ==
  ASSUME IInv, NEW a \in Activation, Acquire(a)
  PROVE  IInv'
<1>1. TypeOK'
  BY DEF Acquire, IInv, TypeOK, Effect, EffectState, Outcome, Goal, Label
<1>2. HolderInv'
  BY DEF Acquire, IInv, HolderInv, TypeOK, Effect, EffectState, Outcome, Goal,
        Label
<1>3. RefusalInv'
  BY DEF Acquire, IInv, RefusalInv, Recording, HolderInv, SnapInv, TypeOK,
        Effect, EffectState, Outcome, Goal, Label
<1>4. DispatchInv' /\ SnapInv' /\ ReceiptInv' /\ GoalInv' /\ ChargedOnce'
  BY DEF Acquire, IInv, DispatchInv, Running, SnapInv, ReceiptInv, GoalInv,
        Recording, ChargedOnce
<1> QED
  BY <1>1, <1>2, <1>3, <1>4 DEF IInv

(* A cancelled activation drops every call but the ones being recorded late. *)
LEMMA CancelInv ==
  ASSUME IInv, NEW a \in Activation, Cancel(a)
  PROVE  IInv'
<1>1. TypeOK'
  BY DEF Cancel, IInv, TypeOK, Effect, EffectState, Outcome, Goal, Label
<1>2. HolderInv'
  BY DEF Cancel, IInv, HolderInv, TypeOK, Effect, EffectState, Outcome, Goal,
        Label
<1>3. DispatchInv'
  BY DEF Cancel, IInv, DispatchInv, Running, SnapInv, TypeOK, Effect,
        EffectState, Outcome, Goal, Label
<1>4. SnapInv'
  BY DEF Cancel, IInv, SnapInv, TypeOK, Effect, EffectState, Outcome, Goal,
        Label
<1>5. GoalInv'
  BY DEF Cancel, IInv, GoalInv, Recording, DispatchInv, Running, TypeOK,
        Effect, EffectState, Outcome, Goal, Label
<1>6. RefusalInv'
  BY DEF Cancel, IInv, RefusalInv, Recording, HolderInv, SnapInv, TypeOK,
        Effect, EffectState, Outcome, Goal, Label
<1>7. ReceiptInv' /\ ChargedOnce'
  BY DEF Cancel, IInv, ReceiptInv, ChargedOnce
<1> QED
  BY <1>1, <1>2, <1>3, <1>4, <1>5, <1>6, <1>7 DEF IInv

(* The activation releases what it holds. *)
LEMMA LeaveInv ==
  ASSUME IInv, NEW a \in Activation, Leave(a)
  PROVE  IInv'
<1>1. TypeOK'
  BY DEF Leave, IInv, TypeOK, Effect, EffectState, Outcome, Goal, Label
<1>2. HolderInv'
  BY DEF Leave, IInv, HolderInv, TypeOK, Effect, EffectState, Outcome, Goal,
        Label
<1>3. RefusalInv'
  <2> SUFFICES ASSUME NEW b \in Activation, NEW k \in Key
               PROVE  (b = a => pc[b][k] \notin {"child", "record", "recording"})
                      /\ (b # a => mode'[b] = mode[b])
    BY DEF Leave, IInv, RefusalInv, Recording
  <2> QED
    BY DEF Leave, IInv, TypeOK
<1>4. DispatchInv' /\ SnapInv' /\ ReceiptInv' /\ GoalInv' /\ ChargedOnce'
  BY DEF Leave, IInv, DispatchInv, Running, SnapInv, ReceiptInv, GoalInv,
        Recording, ChargedOnce
<1> QED
  BY <1>1, <1>2, <1>3, <1>4 DEF IInv

(* A crash forgets every call, and no receipt. *)
LEMMA CrashInv ==
  ASSUME IInv, Crash
  PROVE  IInv'
<1>1. TypeOK'
  BY DEF Crash, IInv, TypeOK, Effect, EffectState, Outcome, Goal, Label
<1>2. HolderInv'
  BY DEF Crash, IInv, HolderInv, TypeOK, Effect, EffectState, Outcome, Goal,
        Label
<1>3. DispatchInv'
  BY DEF Crash, IInv, DispatchInv, Running, SnapInv, TypeOK, Effect,
        EffectState, Outcome, Goal, Label
<1>4. SnapInv'
  BY DEF Crash, IInv, SnapInv, TypeOK, Effect, EffectState, Outcome, Goal,
        Label
<1>5. GoalInv'
  BY DEF Crash, IInv, GoalInv, Recording, DispatchInv, Running, TypeOK,
        Effect, EffectState, Outcome, Goal, Label
<1>6. RefusalInv'
  BY DEF Crash, IInv, RefusalInv, Recording, HolderInv, SnapInv, TypeOK,
        Effect, EffectState, Outcome, Goal, Label
<1>7. ReceiptInv' /\ ChargedOnce'
  BY DEF Crash, IInv, ReceiptInv, ChargedOnce
<1> QED
  BY <1>1, <1>2, <1>3, <1>4, <1>5, <1>6, <1>7 DEF IInv

(* The lease lapses when nobody runs under it. *)
LEMMA ExpireInv ==
  ASSUME IInv, Expire
  PROVE  IInv'
<1>1. TypeOK'
  BY DEF Expire, IInv, TypeOK, Effect, EffectState, Outcome, Goal, Label
<1>2. HolderInv'
  BY DEF Expire, IInv, HolderInv, TypeOK, Effect, EffectState, Outcome, Goal,
        Label
<1>3. DispatchInv' /\ SnapInv' /\ ReceiptInv' /\ GoalInv' /\ RefusalInv' /\ ChargedOnce'
  BY DEF Expire, IInv, DispatchInv, Running, SnapInv, ReceiptInv, GoalInv,
        Recording, RefusalInv, ChargedOnce
<1> QED
  BY <1>1, <1>2, <1>3 DEF IInv

(* Ending the Work changes no receipt. *)
LEMMA EndWorkInv ==
  ASSUME IInv, EndWork
  PROVE  IInv'
<1>1. TypeOK'
  BY DEF EndWork, IInv, TypeOK, Effect, EffectState, Outcome, Goal, Label
<1>2. HolderInv'
  BY DEF EndWork, IInv, HolderInv, TypeOK, Effect, EffectState, Outcome, Goal,
        Label
<1>3. DispatchInv' /\ SnapInv' /\ ReceiptInv' /\ GoalInv' /\ RefusalInv' /\ ChargedOnce'
  BY DEF EndWork, IInv, DispatchInv, Running, SnapInv, ReceiptInv, GoalInv,
        Recording, RefusalInv, ChargedOnce
<1> QED
  BY <1>1, <1>2, <1>3 DEF IInv

(* Only a failed Work opens again. *)
LEMMA ResumeWorkInv ==
  ASSUME IInv, ResumeWork
  PROVE  IInv'
<1>1. TypeOK'
  BY DEF ResumeWork, IInv, TypeOK, Effect, EffectState, Outcome, Goal, Label
<1>2. HolderInv'
  BY DEF ResumeWork, IInv, HolderInv, TypeOK, Effect, EffectState, Outcome,
        Goal, Label
<1>3. DispatchInv' /\ SnapInv' /\ ReceiptInv' /\ GoalInv' /\ RefusalInv' /\ ChargedOnce'
  BY DEF ResumeWork, IInv, DispatchInv, Running, SnapInv, ReceiptInv, GoalInv,
        Recording, RefusalInv, ChargedOnce
<1> QED
  BY <1>1, <1>2, <1>3 DEF IInv

(* A hard boundary takes the lease and the Work together. *)
LEMMA BoundaryInv ==
  ASSUME IInv, Boundary
  PROVE  IInv'
<1>1. TypeOK'
  BY DEF Boundary, IInv, TypeOK, Effect, EffectState, Outcome, Goal, Label
<1>2. HolderInv'
  BY DEF Boundary, IInv, HolderInv, TypeOK, Effect, EffectState, Outcome,
        Goal, Label
<1>3. DispatchInv' /\ SnapInv' /\ ReceiptInv' /\ GoalInv' /\ RefusalInv' /\ ChargedOnce'
  BY DEF Boundary, IInv, DispatchInv, Running, SnapInv, ReceiptInv, GoalInv,
        Recording, RefusalInv, ChargedOnce
<1> QED
  BY <1>1, <1>2, <1>3 DEF IInv

(* The call begins. *)
LEMMA InvokeInv ==
  ASSUME IInv, NEW a \in Activation, NEW k \in Key, Invoke(a, k)
  PROVE  IInv'
<1>1. TypeOK'
  BY DEF Invoke, IInv, TypeOK, Effect, EffectState, Outcome, Goal, Label, Goto
<1>2. DispatchInv'
  BY DEF Invoke, IInv, DispatchInv, Running, SnapInv, Goto, TypeOK, Effect,
        EffectState, Outcome, Goal, Label
<1>3. SnapInv'
  BY DEF Invoke, IInv, SnapInv, Goto, TypeOK, Effect, EffectState, Outcome,
        Goal, Label
<1>4. GoalInv'
  BY DEF Invoke, IInv, GoalInv, Recording, DispatchInv, Running, Goto, TypeOK,
        Effect, EffectState, Outcome, Goal, Label
<1>5. RefusalInv'
  BY DEF Invoke, IInv, RefusalInv, Recording, HolderInv, SnapInv, Goto,
        TypeOK, Effect, EffectState, Outcome, Goal, Label
<1>6. HolderInv' /\ ReceiptInv' /\ ChargedOnce'
  BY DEF Invoke, IInv, HolderInv, ReceiptInv, ChargedOnce
<1> QED
  BY <1>1, <1>2, <1>3, <1>4, <1>5, <1>6 DEF IInv

(* A child intent is published or loaded again. *)
LEMMA PublishChildInv ==
  ASSUME IInv, NEW a \in Activation, NEW k \in Key, PublishChild(a, k)
  PROVE  IInv'
<1>1. TypeOK'
  BY DEF PublishChild, IInv, TypeOK, Effect, EffectState, Outcome, Goal,
        Label, Goto, Absent, Intent, Undispatched
<1>2. DispatchInv'
  BY DEF PublishChild, IInv, DispatchInv, Running, SnapInv, Goto, Absent,
        Intent, Undispatched, TypeOK, Effect, EffectState, Outcome, Goal,
        Label
<1>3. SnapInv'
  BY DEF PublishChild, IInv, SnapInv, Goto, Absent, Intent, Undispatched,
        TypeOK, Effect, EffectState, Outcome, Goal, Label
<1>4. ReceiptInv'
  BY DEF PublishChild, IInv, ReceiptInv, SnapInv, GoalInv, Recording,
        RefusalInv, DispatchInv, Running, Goto, Absent, Intent, Undispatched,
        TypeOK, Effect, EffectState, Outcome, Goal, Label
<1>5. GoalInv'
  BY DEF PublishChild, IInv, GoalInv, Recording, DispatchInv, Running, Goto,
        Absent, Intent, Undispatched, TypeOK, Effect, EffectState, Outcome,
        Goal, Label
<1>6. RefusalInv'
  BY DEF PublishChild, IInv, RefusalInv, Recording, HolderInv, SnapInv, Goto,
        Absent, Intent, Undispatched, TypeOK, Effect, EffectState, Outcome,
        Goal, Label
<1>7. ChargedOnce'
  <2>1. effect' = effect \/ (effect[k] = Absent /\ effect' = [effect EXCEPT ![k] = Intent])
    BY DEF PublishChild, IInv, TypeOK
  <2>2. Absent.started = FALSE /\ Intent.started = FALSE
    BY DEF Absent, Intent
  <2>3. \A j \in Key : effect'[j].started = effect[j].started
    BY <2>1, <2>2 DEF IInv, TypeOK
  <2> QED
    BY <2>3, SameMarkers DEF PublishChild, IInv
<1>8. HolderInv'
  BY DEF PublishChild, IInv, HolderInv
<1> QED
  BY <1>1, <1>2, <1>3, <1>4, <1>5, <1>6, <1>7, <1>8 DEF IInv

(* A child is closed by the only activation that could dispatch it. *)
LEMMA CloseChildInv ==
  ASSUME IInv, NEW a \in Activation, NEW k \in Key, CloseChild(a, k)
  PROVE  IInv'
<1>1. TypeOK'
  BY DEF CloseChild, IInv, TypeOK, Effect, EffectState, Outcome, Goal, Label,
        Goto
<1>2. DispatchInv'
  BY DEF CloseChild, IInv, DispatchInv, Running, SnapInv, Goto, TypeOK,
        Effect, EffectState, Outcome, Goal, Label
<1>3. SnapInv'
  BY DEF CloseChild, IInv, SnapInv, Goto, TypeOK, Effect, EffectState,
        Outcome, Goal, Label
<1>4. GoalInv'
  BY DEF CloseChild, IInv, GoalInv, Recording, DispatchInv, Running, Goto,
        TypeOK, Effect, EffectState, Outcome, Goal, Label
<1>5. RefusalInv'
  BY DEF CloseChild, IInv, RefusalInv, Recording, HolderInv, SnapInv, Goto,
        TypeOK, Effect, EffectState, Outcome, Goal, Label
<1>6. HolderInv' /\ ReceiptInv' /\ ChargedOnce'
  BY DEF CloseChild, IInv, HolderInv, ReceiptInv, ChargedOnce
<1> QED
  BY <1>1, <1>2, <1>3, <1>4, <1>5, <1>6 DEF IInv

(* T1 inserts an intent or finds one. *)
LEMMA PrepareEffectInv ==
  ASSUME IInv, NEW a \in Activation, NEW k \in Key, PrepareEffect(a, k)
  PROVE  IInv'
<1>1. TypeOK'
  BY DEF PrepareEffect, IInv, TypeOK, Effect, EffectState, Outcome, Goal,
        Label, Goto, Absent, Intent
<1>2. DispatchInv'
  BY DEF PrepareEffect, IInv, DispatchInv, Running, SnapInv, Goto, Absent,
        Intent, TypeOK, Effect, EffectState, Outcome, Goal, Label
<1>3. SnapInv'
  BY DEF PrepareEffect, IInv, SnapInv, Goto, Absent, Intent, TypeOK, Effect,
        EffectState, Outcome, Goal, Label
<1>4. ReceiptInv'
  BY DEF PrepareEffect, IInv, ReceiptInv, SnapInv, GoalInv, Recording,
        RefusalInv, DispatchInv, Running, Goto, Absent, Intent, TypeOK,
        Effect, EffectState, Outcome, Goal, Label
<1>5. GoalInv'
  BY DEF PrepareEffect, IInv, GoalInv, Recording, DispatchInv, Running, Goto,
        Absent, Intent, TypeOK, Effect, EffectState, Outcome, Goal, Label
<1>6. RefusalInv'
  BY DEF PrepareEffect, IInv, RefusalInv, Recording, HolderInv, SnapInv, Goto,
        Absent, Intent, TypeOK, Effect, EffectState, Outcome, Goal, Label
<1>7. ChargedOnce'
  <2>1. effect' = effect \/ (effect[k] = Absent /\ effect' = [effect EXCEPT ![k] = Intent])
    BY DEF PrepareEffect, IInv, TypeOK
  <2>2. Absent.started = FALSE /\ Intent.started = FALSE
    BY DEF Absent, Intent
  <2>3. \A j \in Key : effect'[j].started = effect[j].started
    BY <2>1, <2>2 DEF IInv, TypeOK
  <2> QED
    BY <2>3, SameMarkers DEF PrepareEffect, IInv
<1>8. HolderInv'
  BY DEF PrepareEffect, IInv, HolderInv
<1> QED
  BY <1>1, <1>2, <1>3, <1>4, <1>5, <1>6, <1>7, <1>8 DEF IInv

(* An existing intent is inspected. *)
LEMMA ExistingIntentInv ==
  ASSUME IInv, NEW a \in Activation, NEW k \in Key, ExistingIntent(a, k)
  PROVE  IInv'
<1>1. TypeOK'
  BY DEF ExistingIntent, IInv, TypeOK, Effect, EffectState, Outcome, Goal,
        Label, Goto, Undispatched
<1>2. DispatchInv'
  BY DEF ExistingIntent, IInv, DispatchInv, Running, SnapInv, Goto,
        Undispatched, TypeOK, Effect, EffectState, Outcome, Goal, Label
<1>3. SnapInv'
  BY DEF ExistingIntent, IInv, SnapInv, Goto, Undispatched, TypeOK, Effect,
        EffectState, Outcome, Goal, Label
<1>4. GoalInv'
  BY DEF ExistingIntent, IInv, GoalInv, Recording, DispatchInv, Running, Goto,
        Undispatched, TypeOK, Effect, EffectState, Outcome, Goal, Label
<1>5. RefusalInv'
  BY DEF ExistingIntent, IInv, RefusalInv, Recording, HolderInv, SnapInv,
        Goto, Undispatched, TypeOK, Effect, EffectState, Outcome, Goal, Label
<1>6. HolderInv' /\ ReceiptInv' /\ ChargedOnce'
  BY DEF ExistingIntent, IInv, HolderInv, ReceiptInv, ChargedOnce
<1> QED
  BY <1>1, <1>2, <1>3, <1>4, <1>5, <1>6 DEF IInv

(* T2 reads the receipt it will compare with. *)
LEMMA AdmitReadInv ==
  ASSUME IInv, NEW a \in Activation, NEW k \in Key, AdmitRead(a, k)
  PROVE  IInv'
<1>1. TypeOK'
  BY DEF AdmitRead, IInv, TypeOK, Effect, EffectState, Outcome, Goal, Label,
        Goto, Undispatched
<1>2. DispatchInv'
  BY DEF AdmitRead, IInv, DispatchInv, Running, SnapInv, Goto, Undispatched,
        TypeOK, Effect, EffectState, Outcome, Goal, Label
<1>3. SnapInv'
  BY DEF AdmitRead, IInv, SnapInv, Goto, Undispatched, TypeOK, Effect,
        EffectState, Outcome, Goal, Label
<1>4. GoalInv'
  BY DEF AdmitRead, IInv, GoalInv, Recording, DispatchInv, Running, Goto,
        Undispatched, TypeOK, Effect, EffectState, Outcome, Goal, Label
<1>5. RefusalInv'
  BY DEF AdmitRead, IInv, RefusalInv, Recording, HolderInv, SnapInv, Goto,
        Undispatched, TypeOK, Effect, EffectState, Outcome, Goal, Label
<1>6. HolderInv' /\ ReceiptInv' /\ ChargedOnce'
  BY DEF AdmitRead, IInv, HolderInv, ReceiptInv, ChargedOnce
<1> QED
  BY <1>1, <1>2, <1>3, <1>4, <1>5, <1>6 DEF IInv

(* T2: the marker was not set, so nobody else runs the key and none ever did. *)
LEMMA AdmitDispatchInv ==
  ASSUME IInv, NEW a \in Activation, NEW k \in Key, AdmitDispatch(a, k)
  PROVE  IInv'
<1>1. TypeOK'
  <2>1. effect[k] \in Effect /\ Started(effect[k]) \in Effect
    BY UpdatedEffect DEF IInv, TypeOK
  <2>2. effect' \in [Key -> Effect]
    BY <2>1 DEF AdmitDispatch, IInv, TypeOK
  <2> QED
    BY <2>2 DEF AdmitDispatch, IInv, TypeOK, Goal, Label, Outcome, BudgetRefusal, Goto, Verdict
<1>2. DispatchInv'
  BY DEF AdmitDispatch, IInv, DispatchInv, Running, SnapInv, Goto, Started,
        Verdict, OverBudget, Obsolete, BudgetRefusal, TypeOK, Effect,
        EffectState, Outcome, Goal, Label
<1>3. SnapInv'
  BY DEF AdmitDispatch, IInv, SnapInv, Goto, Started, Verdict, OverBudget,
        Obsolete, BudgetRefusal, TypeOK, Effect, EffectState, Outcome, Goal,
        Label
<1>4. ReceiptInv'
  BY DEF AdmitDispatch, IInv, ReceiptInv, SnapInv, GoalInv, Recording,
        RefusalInv, DispatchInv, Running, Goto, Started, Verdict, OverBudget,
        Obsolete, BudgetRefusal, TypeOK, Effect, EffectState, Outcome, Goal,
        Label
<1>5. GoalInv'
  BY DEF AdmitDispatch, IInv, GoalInv, Recording, DispatchInv, Running, Goto,
        Started, Verdict, OverBudget, Obsolete, BudgetRefusal, TypeOK, Effect,
        EffectState, Outcome, Goal, Label
<1>6. RefusalInv'
  BY DEF AdmitDispatch, IInv, RefusalInv, Recording, HolderInv, SnapInv, Goto,
        Started, Verdict, OverBudget, Obsolete, BudgetRefusal, TypeOK, Effect,
        EffectState, Outcome, Goal, Label
<1>7. ChargedOnce'
  <2> DEFINE S == {j \in Charged : effect[j].started}
  <2>1. CASE Verdict(a, k) = "execute" /\ k \in Charged
    <3>1. ~OverBudget(k) /\ ~effect[k].started
      BY <2>1 DEF AdmitDispatch, Verdict, IInv, SnapInv
    <3>2. tools' = tools + 1 /\ effect' = [effect EXCEPT ![k] = Started(@)]
      BY <2>1 DEF AdmitDispatch
    <3>3. {j \in Charged : effect'[j].started} = S \cup {k}
      BY <2>1, <3>2 DEF Started, IInv, TypeOK, Effect
    <3>4. Cardinality(S \cup {k}) = Cardinality(S) + 1
      <4>1. IsFiniteSet(S)
        BY FS_Subset
      <4>2. k \notin S
        BY <3>1
      <4> QED
        BY <4>1, <4>2, FS_AddElement
    <3>5. Cardinality({j \in Charged : effect'[j].started}) = Cardinality(S) + 1
      BY <3>3, <3>4
    <3>6. tools' <= ToolLimit
      BY <2>1, <3>1, <3>2 DEF OverBudget, IInv, TypeOK
    <3> QED
      BY <3>2, <3>5, <3>6 DEF IInv, ChargedOnce
  <2>2. CASE ~(Verdict(a, k) = "execute" /\ k \in Charged)
    <3>1. tools' = tools
      BY <2>2 DEF AdmitDispatch
    <3>2. \A j \in Charged : effect'[j].started = effect[j].started
      BY <2>2 DEF AdmitDispatch, IInv, TypeOK
    <3>3. {j \in Charged : effect'[j].started} = S
      BY <3>2
    <3> QED
      BY <3>1, <3>3 DEF IInv, ChargedOnce
  <2> QED
    BY <2>1, <2>2
<1>8. HolderInv'
  BY DEF AdmitDispatch, IInv, HolderInv
<1> QED
  BY <1>1, <1>2, <1>3, <1>4, <1>5, <1>6, <1>7, <1>8 DEF IInv

(* An interrupted tool is recorded as unknown. *)
LEMMA InterruptInv ==
  ASSUME IInv, NEW a \in Activation, NEW k \in Key, Interrupt(a, k)
  PROVE  IInv'
<1>1. TypeOK'
  BY DEF Interrupt, IInv, TypeOK, Effect, EffectState, Outcome, Goal, Label,
        Interruption, Goto
<1>2. DispatchInv'
  BY DEF Interrupt, IInv, DispatchInv, Running, SnapInv, Interruption, Goto,
        TypeOK, Effect, EffectState, Outcome, Goal, Label
<1>3. SnapInv'
  BY DEF Interrupt, IInv, SnapInv, Interruption, Goto, TypeOK, Effect,
        EffectState, Outcome, Goal, Label
<1>4. GoalInv'
  BY DEF Interrupt, IInv, GoalInv, Recording, DispatchInv, Running,
        Interruption, Goto, TypeOK, Effect, EffectState, Outcome, Goal, Label
<1>5. RefusalInv'
  BY DEF Interrupt, IInv, RefusalInv, Recording, HolderInv, SnapInv,
        Interruption, Goto, TypeOK, Effect, EffectState, Outcome, Goal, Label
<1>6. HolderInv' /\ ReceiptInv' /\ ChargedOnce'
  BY DEF Interrupt, IInv, HolderInv, ReceiptInv, ChargedOnce
<1> QED
  BY <1>1, <1>2, <1>3, <1>4, <1>5, <1>6 DEF IInv

(* The domain receipt changes only the revision. *)
LEMMA BindDomainInv ==
  ASSUME IInv, NEW a \in Activation, NEW k \in Key, BindDomain(a, k)
  PROVE  IInv'
<1>1. TypeOK'
  <2>1. [effect[k] EXCEPT !.rev = @ + 1] \in Effect
    BY UpdatedEffect DEF IInv, TypeOK
  <2>2. effect' \in [Key -> Effect]
    BY <2>1 DEF BindDomain, IInv, TypeOK
  <2> QED
    BY <2>2 DEF BindDomain, IInv, TypeOK, Label, Goto
<1>2. DispatchInv'
  BY DEF BindDomain, IInv, DispatchInv, Running, SnapInv, Goto, TypeOK,
        Effect, EffectState, Outcome, Goal, Label
<1>3. SnapInv'
  BY DEF BindDomain, IInv, SnapInv, Goto, TypeOK, Effect, EffectState,
        Outcome, Goal, Label
<1>4. ReceiptInv'
  BY DEF BindDomain, IInv, ReceiptInv, SnapInv, GoalInv, Recording,
        RefusalInv, DispatchInv, Running, Goto, TypeOK, Effect, EffectState,
        Outcome, Goal, Label
<1>5. GoalInv'
  BY DEF BindDomain, IInv, GoalInv, Recording, DispatchInv, Running, Goto,
        TypeOK, Effect, EffectState, Outcome, Goal, Label
<1>6. RefusalInv'
  BY DEF BindDomain, IInv, RefusalInv, Recording, HolderInv, SnapInv, Goto,
        TypeOK, Effect, EffectState, Outcome, Goal, Label
<1>7. ChargedOnce'
  <2>1. \A j \in Key : effect'[j].started = effect[j].started
    BY DEF BindDomain, IInv, TypeOK, Effect
  <2> QED
    BY <2>1, SameMarkers DEF BindDomain, IInv
<1>8. HolderInv'
  BY DEF BindDomain, IInv, HolderInv
<1> QED
  BY <1>1, <1>2, <1>3, <1>4, <1>5, <1>6, <1>7, <1>8 DEF IInv

(* The tool runs: this call was the only one that could. *)
LEMMA RunInv ==
  ASSUME IInv, NEW a \in Activation, NEW k \in Key, Run(a, k)
  PROVE  IInv'
<1>1. TypeOK'
  BY DEF Run, IInv, TypeOK, Effect, EffectState, Outcome, Goal, Label, Goto
<1>2. DispatchInv'
  BY DEF Run, IInv, DispatchInv, Running, SnapInv, Goto, TypeOK, Effect,
        EffectState, Outcome, Goal, Label
<1>3. SnapInv'
  BY DEF Run, IInv, SnapInv, Goto, TypeOK, Effect, EffectState, Outcome, Goal,
        Label
<1>4. ReceiptInv'
  BY DEF Run, IInv, ReceiptInv, SnapInv, GoalInv, Recording, RefusalInv,
        DispatchInv, Running, Goto, TypeOK, Effect, EffectState, Outcome,
        Goal, Label
<1>5. GoalInv'
  BY DEF Run, IInv, GoalInv, Recording, DispatchInv, Running, Goto, TypeOK,
        Effect, EffectState, Outcome, Goal, Label
<1>6. RefusalInv'
  BY DEF Run, IInv, RefusalInv, Recording, HolderInv, SnapInv, Goto, TypeOK,
        Effect, EffectState, Outcome, Goal, Label
<1>7. HolderInv' /\ ChargedOnce'
  BY DEF Run, IInv, HolderInv, ChargedOnce
<1> QED
  BY <1>1, <1>2, <1>3, <1>4, <1>5, <1>6, <1>7 DEF IInv

(* A captured outcome belongs to a tool that ran. *)
LEMMA ReturnInv ==
  ASSUME IInv, NEW a \in Activation, NEW k \in Key, Return(a, k)
  PROVE  IInv'
<1>1. TypeOK'
  BY DEF Return, IInv, TypeOK, Effect, EffectState, Outcome, Goal, Label, Goto
<1>2. DispatchInv'
  BY DEF Return, IInv, DispatchInv, Running, SnapInv, Goto, TypeOK, Effect,
        EffectState, Outcome, Goal, Label
<1>3. SnapInv'
  BY DEF Return, IInv, SnapInv, Goto, TypeOK, Effect, EffectState, Outcome,
        Goal, Label
<1>4. GoalInv'
  BY DEF Return, IInv, GoalInv, Recording, DispatchInv, Running, Goto, TypeOK,
        Effect, EffectState, Outcome, Goal, Label
<1>5. RefusalInv'
  BY DEF Return, IInv, RefusalInv, Recording, HolderInv, SnapInv, Goto,
        TypeOK, Effect, EffectState, Outcome, Goal, Label
<1>6. HolderInv' /\ ReceiptInv' /\ ChargedOnce'
  BY DEF Return, IInv, HolderInv, ReceiptInv, ChargedOnce
<1> QED
  BY <1>1, <1>2, <1>3, <1>4, <1>5, <1>6 DEF IInv

(* T3 reads the receipt it will compare with. *)
LEMMA RecordReadInv ==
  ASSUME IInv, NEW a \in Activation, NEW k \in Key, RecordRead(a, k)
  PROVE  IInv'
<1>1. TypeOK'
  BY DEF RecordRead, IInv, TypeOK, Effect, EffectState, Outcome, Goal, Label,
        Goto
<1>2. DispatchInv'
  BY DEF RecordRead, IInv, DispatchInv, Running, SnapInv, Goto, TypeOK,
        Effect, EffectState, Outcome, Goal, Label
<1>3. SnapInv'
  BY DEF RecordRead, IInv, SnapInv, Goto, TypeOK, Effect, EffectState,
        Outcome, Goal, Label
<1>4. GoalInv'
  BY DEF RecordRead, IInv, GoalInv, Recording, DispatchInv, Running, Goto,
        TypeOK, Effect, EffectState, Outcome, Goal, Label
<1>5. RefusalInv'
  BY DEF RecordRead, IInv, RefusalInv, Recording, HolderInv, SnapInv, Goto,
        TypeOK, Effect, EffectState, Outcome, Goal, Label
<1>6. HolderInv' /\ ReceiptInv' /\ ChargedOnce'
  BY DEF RecordRead, IInv, HolderInv, ReceiptInv, ChargedOnce
<1> QED
  BY <1>1, <1>2, <1>3, <1>4, <1>5, <1>6 DEF IInv

(* T3 settles a receipt that was not final. *)
LEMMA RecordWriteInv ==
  ASSUME IInv, NEW a \in Activation, NEW k \in Key, RecordWrite(a, k)
  PROVE  IInv'
<1>1. TypeOK'
  BY DEF RecordWrite, IInv, TypeOK, Effect, EffectState, Outcome, Goal, Label,
        Goto, Receipt
<1>2. DispatchInv'
  BY DEF RecordWrite, IInv, DispatchInv, Running, SnapInv, Goto, Receipt,
        TypeOK, Effect, EffectState, Outcome, Goal, Label
<1>3. SnapInv'
  BY DEF RecordWrite, IInv, SnapInv, Goto, Receipt, TypeOK, Effect,
        EffectState, Outcome, Goal, Label
<1>4. ReceiptInv'
  BY DEF RecordWrite, IInv, ReceiptInv, SnapInv, GoalInv, Recording,
        RefusalInv, DispatchInv, Running, Goto, Receipt, TypeOK, Effect,
        EffectState, Outcome, Goal, Label
<1>5. GoalInv'
  BY DEF RecordWrite, IInv, GoalInv, Recording, DispatchInv, Running, Goto,
        Receipt, TypeOK, Effect, EffectState, Outcome, Goal, Label
<1>6. RefusalInv'
  BY DEF RecordWrite, IInv, RefusalInv, Recording, HolderInv, SnapInv, Goto,
        Receipt, TypeOK, Effect, EffectState, Outcome, Goal, Label
<1>7. ChargedOnce'
  <2>1. \A j \in Key : effect'[j].started = effect[j].started
    BY DEF RecordWrite, Receipt, IInv, TypeOK, Effect
  <2> QED
    BY <2>1, SameMarkers DEF RecordWrite, IInv
<1>8. HolderInv'
  BY DEF RecordWrite, IInv, HolderInv
<1> QED
  BY <1>1, <1>2, <1>3, <1>4, <1>5, <1>6, <1>7, <1>8 DEF IInv

(* A finished run is matched with its receipt. *)
LEMMA ResolveReadInv ==
  ASSUME IInv, NEW a \in Activation, NEW k \in Key, ResolveRead(a, k)
  PROVE  IInv'
<1>1. TypeOK'
  BY DEF ResolveRead, IInv, TypeOK, Effect, EffectState, Outcome, Goal, Label,
        Goto, Unresolved
<1>2. DispatchInv'
  BY DEF ResolveRead, IInv, DispatchInv, Running, SnapInv, Goto, Unresolved,
        TypeOK, Effect, EffectState, Outcome, Goal, Label
<1>3. SnapInv'
  BY DEF ResolveRead, IInv, SnapInv, Goto, Unresolved, TypeOK, Effect,
        EffectState, Outcome, Goal, Label
<1>4. GoalInv'
  BY DEF ResolveRead, IInv, GoalInv, Recording, DispatchInv, Running, Goto,
        Unresolved, TypeOK, Effect, EffectState, Outcome, Goal, Label
<1>5. RefusalInv'
  BY DEF ResolveRead, IInv, RefusalInv, Recording, HolderInv, SnapInv, Goto,
        Unresolved, TypeOK, Effect, EffectState, Outcome, Goal, Label
<1>6. HolderInv' /\ ReceiptInv' /\ ChargedOnce'
  BY DEF ResolveRead, IInv, HolderInv, ReceiptInv, ChargedOnce
<1> QED
  BY <1>1, <1>2, <1>3, <1>4, <1>5, <1>6 DEF IInv

(* The run settles the outcome it belongs to. *)
LEMMA ResolveWriteInv ==
  ASSUME IInv, NEW a \in Activation, NEW k \in Key, ResolveWrite(a, k)
  PROVE  IInv'
<1>1. TypeOK'
  <2>1. effect[k] \in Effect /\ [effect[k] EXCEPT !.outcome = "done"] \in Effect
    BY UpdatedEffect DEF IInv, TypeOK
  <2>2. [effect[k] EXCEPT !.outcome = @] = effect[k]
    BY <2>1 DEF Effect
  <2>3. effect' \in [Key -> Effect]
    BY <2>1, <2>2 DEF ResolveWrite, IInv, TypeOK
  <2> QED
    BY <2>3 DEF ResolveWrite, IInv, TypeOK, Label, Goto
<1>2. DispatchInv'
  BY DEF ResolveWrite, IInv, DispatchInv, Running, SnapInv, Goto, TypeOK,
        Effect, EffectState, Outcome, Goal, Label
<1>3. SnapInv'
  BY DEF ResolveWrite, IInv, SnapInv, Goto, TypeOK, Effect, EffectState,
        Outcome, Goal, Label
<1>4. ReceiptInv'
  BY DEF ResolveWrite, IInv, ReceiptInv, SnapInv, GoalInv, Recording,
        RefusalInv, DispatchInv, Running, Goto, TypeOK, Effect, EffectState,
        Outcome, Goal, Label
<1>5. GoalInv'
  BY DEF ResolveWrite, IInv, GoalInv, Recording, DispatchInv, Running, Goto,
        TypeOK, Effect, EffectState, Outcome, Goal, Label
<1>6. RefusalInv'
  BY DEF ResolveWrite, IInv, RefusalInv, Recording, HolderInv, SnapInv, Goto,
        TypeOK, Effect, EffectState, Outcome, Goal, Label
<1>7. ChargedOnce'
  <2>1. \A j \in Key : effect'[j].started = effect[j].started
    BY DEF ResolveWrite, IInv, TypeOK, Effect
  <2> QED
    BY <2>1, SameMarkers DEF ResolveWrite, IInv
<1>8. HolderInv'
  BY DEF ResolveWrite, IInv, HolderInv
<1> QED
  BY <1>1, <1>2, <1>3, <1>4, <1>5, <1>6, <1>7, <1>8 DEF IInv

(* A call that fails leaves its receipt as it was. *)
LEMMA FailInv ==
  ASSUME IInv, NEW a \in Activation, NEW k \in Key, Fail(a, k)
  PROVE  IInv'
<1>1. TypeOK'
  BY DEF Fail, IInv, TypeOK, Effect, EffectState, Outcome, Goal, Label, Goto
<1>2. DispatchInv'
  BY DEF Fail, IInv, DispatchInv, Running, SnapInv, Goto, TypeOK, Effect,
        EffectState, Outcome, Goal, Label
<1>3. SnapInv'
  BY DEF Fail, IInv, SnapInv, Goto, TypeOK, Effect, EffectState, Outcome,
        Goal, Label
<1>4. GoalInv'
  BY DEF Fail, IInv, GoalInv, Recording, DispatchInv, Running, Goto, TypeOK,
        Effect, EffectState, Outcome, Goal, Label
<1>5. RefusalInv'
  BY DEF Fail, IInv, RefusalInv, Recording, HolderInv, SnapInv, Goto, TypeOK,
        Effect, EffectState, Outcome, Goal, Label
<1>6. HolderInv' /\ ReceiptInv' /\ ChargedOnce'
  BY DEF Fail, IInv, HolderInv, ReceiptInv, ChargedOnce
<1> QED
  BY <1>1, <1>2, <1>3, <1>4, <1>5, <1>6 DEF IInv

(* Every step preserves the inductive invariant. *)
LEMMA NextInv == IInv /\ [Next]_vars => IInv'
<1> SUFFICES ASSUME IInv, [Next]_vars PROVE IInv'
  OBVIOUS
<1>1. CASE UNCHANGED vars
  BY <1>1 DEF vars, IInv, TypeOK, HolderInv, DispatchInv, SnapInv, ReceiptInv,
              GoalInv, Recording, RefusalInv, ChargedOnce
<1>2. CASE Crash \/ Expire \/ EndWork \/ ResumeWork \/ Boundary
  BY <1>2, CrashInv, ExpireInv, EndWorkInv, ResumeWorkInv, BoundaryInv
<1>3. ASSUME NEW a \in Activation, Acquire(a) \/ Cancel(a) \/ Leave(a)
      PROVE  IInv'
  BY <1>3, AcquireInv, CancelInv, LeaveInv
<1>4. ASSUME NEW a \in Activation, NEW k \in Key, Call(a, k)
      PROVE  IInv'
  BY <1>4, InvokeInv, PublishChildInv, CloseChildInv, PrepareEffectInv,
     ExistingIntentInv, AdmitReadInv, AdmitDispatchInv, InterruptInv, BindDomainInv,
     RunInv, ReturnInv, RecordReadInv, RecordWriteInv, ResolveReadInv, ResolveWriteInv,
     FailInv DEF Call
<1> QED
  BY <1>1, <1>2, <1>3, <1>4 DEF Next

(* The inductive invariant of the receipts, markers and calls holds of every
   reachable state of invoke under several activations. *)
THEOREM Invariance == Spec => []IInv
  BY InitInv, NextInv, PTL DEF Spec

(* Every variable of the effect protocol stays in its domain. *)
THEOREM TypeCorrect == Spec => []TypeOK
<1>1. IInv => TypeOK
  BY DEF IInv
<1> QED
  BY <1>1, Invariance, PTL

(* No tool call runs twice, for any number of activations that find it in   *)
(* the journal again.                                                       *)
THEOREM RunsAtMostOnce == Spec => []AtMostOnce
<1>1. IInv => AtMostOnce
  BY DEF IInv, DispatchInv, AtMostOnce
<1> QED
  BY <1>1, Invariance, PTL

(* The root budget counts every charged dispatch once and is never exceeded. *)
THEOREM BudgetExact == Spec => []ChargedOnce
<1>1. IInv => ChargedOnce
  BY DEF IInv
<1> QED
  BY <1>1, Invariance, PTL

(* A receipt that denies execution is right for ever, and one that reports  *)
(* an outcome reports a tool that ran.                                      *)
THEOREM Truthful == Spec => []ReceiptsTruthful
<1>1. IInv => ReceiptsTruthful
  BY DEF IInv, DispatchInv, Running, ReceiptInv, ReceiptsTruthful
<1> QED
  BY <1>1, Invariance, PTL

(* No step undoes a dispatch marker or a final receipt. *)
LEMMA StepKeeps ==
  ASSUME IInv, [Next]_vars
  PROVE  \A j \in Key : Keeps(j)
<1>1. CASE effect' = effect
  BY <1>1 DEF Keeps
<1>2. ASSUME NEW a \in Activation, NEW k \in Key,
             PublishChild(a, k) \/ PrepareEffect(a, k)
      PROVE  \A j \in Key : Keeps(j)
  <2>1. effect' = effect \/ (effect[k] = Absent /\ effect' = [effect EXCEPT ![k] = Intent])
    BY <1>2 DEF PublishChild, PrepareEffect, IInv, TypeOK
  <2>2. Absent.started = FALSE /\ Absent.state = "absent"
    BY DEF Absent
  <2> QED
    BY <2>1, <2>2 DEF Keeps, IInv, TypeOK
<1>3. ASSUME NEW a \in Activation, NEW k \in Key, AdmitDispatch(a, k)
      PROVE  \A j \in Key : Keeps(j)
  BY <1>3 DEF AdmitDispatch, Started, Keeps, IInv, TypeOK, Effect
<1>4. ASSUME NEW a \in Activation, NEW k \in Key, BindDomain(a, k)
      PROVE  \A j \in Key : Keeps(j)
  BY <1>4 DEF BindDomain, Keeps, IInv, TypeOK, Effect
<1>5. ASSUME NEW a \in Activation, NEW k \in Key, RecordWrite(a, k)
      PROVE  \A j \in Key : Keeps(j)
  <2>1. /\ effect[k] \in Effect
        /\ effect' = effect
           \/ /\ effect' = [effect EXCEPT ![k] = Receipt(effect[k], goal[a][k])]
              /\ effect[k].state \in {"prepared", "unknown"}
    BY <1>5 DEF RecordWrite, IInv, SnapInv, TypeOK
  <2>2. CASE effect' = effect
    BY <2>2 DEF Keeps
  <2>3. CASE /\ effect' = [effect EXCEPT ![k] = Receipt(effect[k], goal[a][k])]
             /\ effect[k].state \in {"prepared", "unknown"}
    <3>1. effect'[k] = Receipt(effect[k], goal[a][k]) /\ \A j \in Key \ {k} : effect'[j] = effect[j]
      BY <2>3 DEF IInv, TypeOK
    <3>2. effect'[k].rev > effect[k].rev /\ effect'[k].started = effect[k].started
      BY <2>1, <3>1 DEF Receipt, Effect
    <3> QED
      BY <2>3, <3>1, <3>2 DEF Keeps
  <2> QED
    BY <2>1, <2>2, <2>3
<1>6. ASSUME NEW a \in Activation, NEW k \in Key, ResolveWrite(a, k)
      PROVE  \A j \in Key : Keeps(j)
  <2>1. \/ effect' = effect
        \/ /\ effect' = [effect EXCEPT ![k].outcome = "done"]
           /\ Unresolved(k)
    BY <1>6 DEF ResolveWrite, Unresolved, IInv, SnapInv, TypeOK, Effect
  <2>2. CASE effect' = effect
    BY <2>2 DEF Keeps
  <2>3. CASE effect' = [effect EXCEPT ![k].outcome = "done"] /\ Unresolved(k)
    <3>1. /\ effect'[k] = [effect[k] EXCEPT !.outcome = "done"]
          /\ \A j \in Key \ {k} : effect'[j] = effect[j]
      BY <2>3 DEF IInv, TypeOK
    <3>2. effect'[k].state = effect[k].state /\ effect'[k].started = effect[k].started
      BY <3>1 DEF IInv, TypeOK, Effect
    <3> QED
      BY <2>3, <3>1, <3>2 DEF Keeps, Unresolved
  <2> QED
    BY <2>1, <2>2, <2>3
<1>7. CASE UNCHANGED vars
  BY <1>1, <1>7 DEF vars
<1>8. CASE Crash \/ Expire \/ EndWork \/ ResumeWork \/ Boundary
  BY <1>1, <1>8 DEF Crash, Expire, EndWork, ResumeWork, Boundary
<1>9. ASSUME NEW a \in Activation, Acquire(a) \/ Cancel(a) \/ Leave(a)
      PROVE  \A j \in Key : Keeps(j)
  BY <1>1, <1>9 DEF Acquire, Cancel, Leave
<1>10. ASSUME NEW a \in Activation, NEW k \in Key, Call(a, k)
       PROVE  \A j \in Key : Keeps(j)
  <2>1. CASE \/ Invoke(a, k) \/ CloseChild(a, k) \/ ExistingIntent(a, k)
             \/ AdmitRead(a, k) \/ Interrupt(a, k) \/ Run(a, k) \/ Return(a, k)
             \/ RecordRead(a, k) \/ ResolveRead(a, k) \/ Fail(a, k)
    BY <1>1, <2>1 DEF Invoke, CloseChild, ExistingIntent, AdmitRead, Interrupt, Run,
                      Return, RecordRead, ResolveRead, Fail
  <2> QED
    BY <1>2, <1>3, <1>4, <1>5, <1>6, <1>10, <2>1 DEF Call
<1> QED
  BY <1>7, <1>8, <1>9, <1>10 DEF Next

(* Receipts are facts: whatever races, a receipt that is final stays what   *)
(* it is.                                                                   *)
THEOREM Final == Spec => ReceiptsFinal
<1>1. IInv /\ [Next]_vars => [\A k \in Key : Keeps(k)]_vars
  BY StepKeeps
<1> QED
  BY <1>1, Invariance, PTL DEF Spec, ReceiptsFinal
=============================================================================
