------------------------- MODULE WorkLifecycleProofs -------------------------
(***************************************************************************)
(* The invariants of WorkLifecycle for any number of inputs, waits and     *)
(* faults, and the action properties that follow from them.                *)
(*                                                                         *)
(* InputOwned alone is not inductive: dropping the unprepared head of the  *)
(* mailbox exposes what is behind it, and discard_input requeues only a    *)
(* Work parked with reason work_input_preparing.  Parked says that every   *)
(* other waiting Work has no prepared message at all, Engaged that the     *)
(* steps which stage or withdraw inputs meet no waiting Work.  That a kept *)
(* decision is the one being settled needs Copy and Chosen: an activation  *)
(* whose copy is current chose its target from the row's own decision.     *)
(***************************************************************************)
EXTENDS WorkLifecycle, WellFoundedInduction, TLAPS

(* An input that is not prepared is a message that was never staged. *)
Unready ==
    \A i \in Input :
        ~inbox[i].ready => inbox[i].kind = "message" /\ inbox[i].st \in {"pending", "cancelled"}

(* A Work that waits for anything but a preparation has no prepared message.*)
Parked ==
    work.state \in Waiting /\ (work.state = "waiting_external" => work.why # "preparing")
        => \A i \in Business : ~inbox[i].ready

(* The activation has not committed its ending yet. *)
Busy == pc \notin {"none", "release"}

(* A Work under a busy activation neither waits nor is suspended. *)
Engaged == Busy => work.state \notin Waiting \cup {"suspended"}

(* An activation's current copy of the row has the row's decision. *)
Copy == Busy /\ fresh => mine = accepted

(* Completion is chosen by a decision to complete only. *)
Chosen == pc = "committing" /\ target = "completed" => mine.action = "complete"

IInv ==
    /\ TypeOK
    /\ Unready
    /\ Parked
    /\ Engaged
    /\ Copy
    /\ Chosen
    /\ InputOwned
    /\ WaitDecisionLive

-----------------------------------------------------------------------------
(* Having decided nothing is a decision record. *)
LEMMA UndecidedType == Undecided \in Decisions
  BY LifecycleAssumption DEF Undecided, Decision, Decisions

(* Initially the mailbox is empty and nobody holds the lease. *)
LEMMA InitInv == Init => IInv
<1> SUFFICES ASSUME Init PROVE IInv
  OBVIOUS
<1>0. Absent \in Items /\ Absent.st = "absent"
  BY LifecycleAssumption DEF Absent, Item, Items
<1>1. TypeOK
  <2>1. inbox \in [Input -> Items] /\ \A i \in Input : inbox[i].st = "absent" <=> i > last
    BY <1>0, LifecycleAssumption DEF Init, Input
  <2>2. work \in [state : State, why : Why] /\ target \in State
    BY DEF Init, Row, State, Why
  <2>3. last \in 0 .. MaxInputs /\ faults \in 0 .. MaxFaults
    BY LifecycleAssumption DEF Init
  <2> QED
    BY <2>1, <2>2, <2>3, UndecidedType DEF Init, TypeOK, Points, InTurn
<1>2. Unready /\ Parked /\ InputOwned
  BY DEF Init, Unready, Parked, InputOwned, Row, Absent, Item, Waiting, Terminal
<1>3. Engaged /\ Copy /\ Chosen /\ WaitDecisionLive
  BY DEF Init, Engaged, Busy, Copy, Chosen, WaitDecisionLive, Row
<1> QED
  BY <1>1, <1>2, <1>3 DEF IInv

(* The readers of the mailbox depend on the mailbox alone. *)
LEMMA SameMail ==
  ASSUME inbox' = inbox
  PROVE  /\ Business' = Business
         /\ Queue' = Queue
         /\ Pending' = Pending
         /\ HeadReady(Business)' <=> HeadReady(Business)
<1>1. Queue' = Queue
  BY DEF Queue
<1>2. Business' = Business
  BY <1>1 DEF Business
<1>3. Pending' = Pending
  BY DEF Pending
<1>4. HeadReady(Business)' <=> HeadReady(Business)
  BY <1>2 DEF HeadReady
<1> QED
  BY <1>1, <1>2, <1>3, <1>4

(* A step that changes neither the row nor the mailbox keeps what relates   *)
(* the two.                                                                 *)
LEMMA QuietInv ==
  ASSUME IInv, work' = work, inbox' = inbox
  PROVE  Unready' /\ Parked' /\ InputOwned'
<1>1. Unready'
  BY DEF IInv, Unready
<1>2. Parked'
  BY SameMail DEF IInv, Parked
<1>3. InputOwned'
  BY SameMail DEF IInv, InputOwned
<1> QED
  BY <1>1, <1>2, <1>3

(* A handler reads the active binding. *)
LEMMA SeeBindingInv ==
  ASSUME IInv, SeeBinding
  PROVE  IInv'
<1>1. TypeOK'
  BY DEF IInv, SeeBinding, TypeOK, local
<1>2. Unready' /\ Parked' /\ InputOwned'
  BY QuietInv DEF SeeBinding, local
<1>3. Engaged' /\ Copy' /\ Chosen'
  BY DEF IInv, Engaged, Busy, Copy, Chosen, SeeBinding, local
<1>4. WaitDecisionLive'
  BY DEF IInv, Engaged, Busy, Waiting, WaitDecisionLive, Waits, SeeBinding, local
<1> QED
  BY <1>1, <1>2, <1>3, <1>4 DEF IInv

(* Only the wait of a Work that is over is invalidated. *)
LEMMA InvalidateInv ==
  ASSUME IInv, NEW w \in Wait, Invalidate(w)
  PROVE  IInv'
<1>1. TypeOK'
  BY DEF IInv, Invalidate, TypeOK, local, Terminal
<1>2. Unready' /\ Parked' /\ InputOwned'
  BY QuietInv DEF Invalidate, local
<1>3. Engaged' /\ Copy' /\ Chosen'
  BY DEF IInv, Engaged, Busy, Copy, Chosen, Invalidate, local, Terminal
<1>4. WaitDecisionLive'
  BY DEF IInv, Engaged, Busy, Waiting, WaitDecisionLive, Waits, Invalidate, local, Terminal
<1> QED
  BY <1>1, <1>2, <1>3, <1>4 DEF IInv

(* The run finishes. *)
LEMMA FinishRunInv ==
  ASSUME IInv, FinishRun
  PROVE  IInv'
<1>1. TypeOK'
  BY DEF IInv, FinishRun, TypeOK, local
<1>2. Unready' /\ Parked' /\ InputOwned'
  BY QuietInv DEF FinishRun, local
<1>3. Engaged' /\ Copy' /\ Chosen'
  BY DEF IInv, Engaged, Busy, Copy, Chosen, FinishRun, local
<1>4. WaitDecisionLive'
  BY DEF IInv, Engaged, Busy, Waiting, WaitDecisionLive, Waits, FinishRun, local
<1> QED
  BY <1>1, <1>2, <1>3, <1>4 DEF IInv

(* The receipt of a run is blocked. *)
LEMMA BlockCompletionInv ==
  ASSUME IInv, BlockCompletion
  PROVE  IInv'
<1>1. TypeOK'
  BY DEF IInv, BlockCompletion, TypeOK, local, Terminal
<1>2. Unready' /\ Parked' /\ InputOwned'
  BY QuietInv DEF BlockCompletion, local
<1>3. Engaged' /\ Copy' /\ Chosen'
  BY DEF IInv, Engaged, Busy, Copy, Chosen, BlockCompletion, local, Terminal
<1>4. WaitDecisionLive'
  BY DEF IInv, Engaged, Busy, Waiting, WaitDecisionLive, Waits, BlockCompletion, local,
         Terminal
<1> QED
  BY <1>1, <1>2, <1>3, <1>4 DEF IInv

(* A fulfilled wait is retired before the turn. *)
LEMMA StartRetireInv ==
  ASSUME IInv, StartRetire
  PROVE  IInv'
<1>1. TypeOK'
  BY UndecidedType DEF IInv, StartRetire, TypeOK, Points, InTurn, RetireFulfilled,
         SetAccepted
<1>2. Unready' /\ Parked' /\ InputOwned'
  BY QuietInv DEF StartRetire
<1>3. Engaged' /\ Copy' /\ Chosen'
  BY DEF IInv, Engaged, Busy, Copy, Chosen, StartRetire, RetireFulfilled, SetAccepted
<1>4. WaitDecisionLive'
  BY DEF IInv, Engaged, Busy, Waiting, WaitDecisionLive, Waits, StartRetire,
         RetireFulfilled, SetAccepted
<1> QED
  BY <1>1, <1>2, <1>3, <1>4 DEF IInv

(* New input retires an old decision. *)
LEMMA StartAdmitInv ==
  ASSUME IInv, StartAdmit
  PROVE  IInv'
<1>1. TypeOK'
  BY UndecidedType DEF IInv, StartAdmit, TypeOK, Points, InTurn, SetAccepted
<1>2. Unready' /\ Parked' /\ InputOwned'
  BY QuietInv DEF StartAdmit
<1>3. Engaged' /\ Copy' /\ Chosen'
  BY DEF IInv, Engaged, Busy, Copy, Chosen, StartAdmit, SetAccepted
<1>4. WaitDecisionLive'
  BY DEF IInv, Engaged, Busy, Waiting, WaitDecisionLive, Waits, StartAdmit, SetAccepted
<1> QED
  BY <1>1, <1>2, <1>3, <1>4 DEF IInv

(* The turn begins or ends at once. *)
LEMMA BeginInv ==
  ASSUME IInv, Begin
  PROVE  IInv'
<1>1. TypeOK'
  BY DEF IInv, Begin, TypeOK, Points, InTurn, local
<1>2. Unready' /\ Parked' /\ InputOwned'
  BY QuietInv DEF Begin, local
<1>3. Engaged' /\ Copy' /\ Chosen'
  BY DEF IInv, Engaged, Busy, Copy, Chosen, Begin, local
<1>4. WaitDecisionLive'
  BY DEF IInv, Engaged, Busy, Waiting, WaitDecisionLive, Waits, Begin, local
<1> QED
  BY <1>1, <1>2, <1>3, <1>4 DEF IInv

(* The turn meets an unprepared input. *)
LEMMA InputsPreparingInv ==
  ASSUME IInv, InputsPreparing
  PROVE  IInv'
<1>1. TypeOK'
  BY DEF IInv, InputsPreparing, TypeOK, Points, InTurn, Elsewhere
<1>2. Unready' /\ Parked' /\ InputOwned'
  BY QuietInv DEF InputsPreparing, Elsewhere
<1>3. Engaged' /\ Copy' /\ Chosen'
  BY DEF IInv, Engaged, Busy, Copy, Chosen, InputsPreparing, Elsewhere
<1>4. WaitDecisionLive'
  BY DEF IInv, Engaged, Busy, Waiting, WaitDecisionLive, Waits, InputsPreparing, Elsewhere
<1> QED
  BY <1>1, <1>2, <1>3, <1>4 DEF IInv

(* A decision is accepted while the Work is engaged. *)
LEMMA AcceptInv ==
  ASSUME IInv, NEW a \in {"complete", "need_input", "fail", "cancel"}, Accept(a)
  PROVE  IInv'
<1>1. TypeOK'
  BY LifecycleAssumption DEF IInv, Accept, TypeOK, SetAccepted, Decision, Decisions
<1>2. Unready' /\ Parked' /\ InputOwned'
  BY QuietInv DEF Accept
<1>3. Engaged' /\ Copy' /\ Chosen'
  BY DEF IInv, Engaged, Busy, Copy, Chosen, Accept, SetAccepted, Decision, Decisions
<1>4. WaitDecisionLive'
  BY DEF IInv, Engaged, Busy, Waiting, WaitDecisionLive, Waits, Accept, SetAccepted,
         Decision, Decisions
<1> QED
  BY <1>1, <1>2, <1>3, <1>4 DEF IInv

(* A wait is registered while the Work is engaged. *)
LEMMA RegisterWaitInv ==
  ASSUME IInv, NEW w \in Wait, RegisterWait(w)
  PROVE  IInv'
<1>1. TypeOK'
  BY LifecycleAssumption DEF IInv, RegisterWait, TypeOK, SetAccepted, Decision, Decisions,
         Wait, NoneActive
<1>2. Unready' /\ Parked' /\ InputOwned'
  BY QuietInv DEF RegisterWait
<1>3. Engaged' /\ Copy' /\ Chosen'
  BY DEF IInv, Engaged, Busy, Copy, Chosen, RegisterWait, SetAccepted, Decision, Decisions,
         Wait, NoneActive
<1>4. WaitDecisionLive'
  BY DEF IInv, Engaged, Busy, Waiting, WaitDecisionLive, Waits, RegisterWait, SetAccepted,
         Decision, Decisions, Wait, NoneActive
<1> QED
  BY <1>1, <1>2, <1>3, <1>4 DEF IInv

(* A wait is cancelled while the Work is engaged. *)
LEMMA CancelWaitInv ==
  ASSUME IInv, CancelWait
  PROVE  IInv'
<1>1. TypeOK'
  BY DEF IInv, CancelWait, TypeOK, Points, InTurn, local, NoneActive
<1>2. Unready' /\ Parked' /\ InputOwned'
  BY QuietInv DEF CancelWait, local
<1>3. Engaged' /\ Copy' /\ Chosen'
  BY DEF IInv, Engaged, Busy, Copy, Chosen, CancelWait, local, NoneActive
<1>4. WaitDecisionLive'
  BY DEF IInv, Engaged, Busy, Waiting, WaitDecisionLive, Waits, CancelWait, local,
         NoneActive
<1> QED
  BY <1>1, <1>2, <1>3, <1>4 DEF IInv

(* A decision is retired while the Work is engaged. *)
LEMMA RetireInv ==
  ASSUME IInv, Retire
  PROVE  IInv'
<1>1. TypeOK'
  BY UndecidedType DEF IInv, Retire, TypeOK, Points, InTurn, SetAccepted
<1>2. Unready' /\ Parked' /\ InputOwned'
  BY QuietInv DEF Retire
<1>3. Engaged' /\ Copy' /\ Chosen'
  BY DEF IInv, Engaged, Busy, Copy, Chosen, Retire, SetAccepted
<1>4. WaitDecisionLive'
  BY DEF IInv, Engaged, Busy, Waiting, WaitDecisionLive, Waits, Retire, SetAccepted
<1> QED
  BY <1>1, <1>2, <1>3, <1>4 DEF IInv

(* The rest is handed to a new Work. *)
LEMMA HandoffInv ==
  ASSUME IInv, Handoff
  PROVE  IInv'
<1>1. TypeOK'
  BY DEF IInv, Handoff, TypeOK
<1>2. Unready' /\ Parked' /\ InputOwned'
  BY QuietInv DEF Handoff
<1>3. Engaged' /\ Copy' /\ Chosen'
  BY DEF IInv, Engaged, Busy, Copy, Chosen, Handoff
<1>4. WaitDecisionLive'
  BY DEF IInv, Engaged, Busy, Waiting, WaitDecisionLive, Waits, Handoff
<1> QED
  BY <1>1, <1>2, <1>3, <1>4 DEF IInv

(* A run starts. *)
LEMMA StartRunInv ==
  ASSUME IInv, StartRun
  PROVE  IInv'
<1>1. TypeOK'
  BY DEF IInv, StartRun, TypeOK, local
<1>2. Unready' /\ Parked' /\ InputOwned'
  BY QuietInv DEF StartRun, local
<1>3. Engaged' /\ Copy' /\ Chosen'
  BY DEF IInv, Engaged, Busy, Copy, Chosen, StartRun, local
<1>4. WaitDecisionLive'
  BY DEF IInv, Engaged, Busy, Waiting, WaitDecisionLive, Waits, StartRun, local
<1> QED
  BY <1>1, <1>2, <1>3, <1>4 DEF IInv

(* The segment is used up. *)
LEMMA YieldSegmentInv ==
  ASSUME IInv, YieldSegment
  PROVE  IInv'
<1>1. TypeOK'
  BY DEF IInv, YieldSegment, TypeOK, Points, InTurn, Elsewhere
<1>2. Unready' /\ Parked' /\ InputOwned'
  BY QuietInv DEF YieldSegment, Elsewhere
<1>3. Engaged' /\ Copy' /\ Chosen'
  BY DEF IInv, Engaged, Busy, Copy, Chosen, YieldSegment, Elsewhere
<1>4. WaitDecisionLive'
  BY DEF IInv, Engaged, Busy, Waiting, WaitDecisionLive, Waits, YieldSegment, Elsewhere
<1> QED
  BY <1>1, <1>2, <1>3, <1>4 DEF IInv

(* The batch of calls ends. *)
LEMMA EndBatchInv ==
  ASSUME IInv, EndBatch
  PROVE  IInv'
<1>1. TypeOK'
  BY DEF IInv, EndBatch, TypeOK, Points, InTurn, local
<1>2. Unready' /\ Parked' /\ InputOwned'
  BY QuietInv DEF EndBatch, local
<1>3. Engaged' /\ Copy' /\ Chosen'
  BY DEF IInv, Engaged, Busy, Copy, Chosen, EndBatch, local
<1>4. WaitDecisionLive'
  BY DEF IInv, Engaged, Busy, Waiting, WaitDecisionLive, Waits, EndBatch, local
<1> QED
  BY <1>1, <1>2, <1>3, <1>4 DEF IInv

(* The settlement reads the mailbox. *)
LEMMA CloseInv ==
  ASSUME IInv, Close
  PROVE  IInv'
<1>1. TypeOK'
  BY DEF IInv, Close, TypeOK, Points, InTurn, Elsewhere
<1>2. Unready' /\ Parked' /\ InputOwned'
  BY QuietInv DEF Close, Elsewhere
<1>3. Engaged' /\ Copy' /\ Chosen'
  BY DEF IInv, Engaged, Busy, Copy, Chosen, Close, Elsewhere
<1>4. WaitDecisionLive'
  BY DEF IInv, Engaged, Busy, Waiting, WaitDecisionLive, Waits, Close, Elsewhere
<1> QED
  BY <1>1, <1>2, <1>3, <1>4 DEF IInv

(* A fulfilled wait is retired before the settlement. *)
LEMMA SettleRetireInv ==
  ASSUME IInv, SettleRetire
  PROVE  IInv'
<1>1. TypeOK'
  BY UndecidedType DEF IInv, SettleRetire, TypeOK, Points, InTurn, RetireFulfilled,
         SetAccepted
<1>2. Unready' /\ Parked' /\ InputOwned'
  BY QuietInv DEF SettleRetire
<1>3. Engaged' /\ Copy' /\ Chosen'
  BY DEF IInv, Engaged, Busy, Copy, Chosen, SettleRetire, RetireFulfilled, SetAccepted
<1>4. WaitDecisionLive'
  BY DEF IInv, Engaged, Busy, Waiting, WaitDecisionLive, Waits, SettleRetire,
         RetireFulfilled, SetAccepted
<1> QED
  BY <1>1, <1>2, <1>3, <1>4 DEF IInv

(* The activation releases its lease. *)
LEMMA ReleaseInv ==
  ASSUME IInv, Release
  PROVE  IInv'
<1>1. TypeOK'
  BY UndecidedType DEF IInv, Release, TypeOK, Points, InTurn, Elsewhere, Gone, State
<1>2. Unready' /\ Parked' /\ InputOwned'
  BY QuietInv DEF Release, Elsewhere
<1>3. Engaged' /\ Copy' /\ Chosen'
  BY DEF IInv, Engaged, Busy, Copy, Chosen, Release, Elsewhere, Gone, State
<1>4. WaitDecisionLive'
  BY DEF IInv, Engaged, Busy, Waiting, WaitDecisionLive, Waits, Release, Elsewhere, Gone,
         State
<1> QED
  BY <1>1, <1>2, <1>3, <1>4 DEF IInv

(* The activation fails. *)
LEMMA FailInv ==
  ASSUME IInv, Fail
  PROVE  IInv'
<1>1. TypeOK'
  BY LifecycleAssumption DEF IInv, Fail, TypeOK, Points, InTurn, local
<1>2. Unready' /\ Parked' /\ InputOwned'
  BY QuietInv DEF Fail, local
<1>3. Engaged' /\ Copy' /\ Chosen'
  BY DEF IInv, Engaged, Busy, Copy, Chosen, Fail, local, InTurn
<1>4. WaitDecisionLive'
  BY DEF IInv, Engaged, Busy, Waiting, WaitDecisionLive, Waits, Fail, local, InTurn
<1> QED
  BY <1>1, <1>2, <1>3, <1>4 DEF IInv

(* The recovery is left to the scheduler. *)
LEMMA FailDeferredInv ==
  ASSUME IInv, FailDeferred
  PROVE  IInv'
<1>1. TypeOK'
  BY DEF IInv, FailDeferred, TypeOK, Points, InTurn, local, Elsewhere
<1>2. Unready' /\ Parked' /\ InputOwned'
  BY QuietInv DEF FailDeferred, local, Elsewhere
<1>3. Engaged' /\ Copy' /\ Chosen'
  BY DEF IInv, Engaged, Busy, Copy, Chosen, FailDeferred, local, Elsewhere
<1>4. WaitDecisionLive'
  BY DEF IInv, Engaged, Busy, Waiting, WaitDecisionLive, Waits, FailDeferred, local,
         Elsewhere
<1> QED
  BY <1>1, <1>2, <1>3, <1>4 DEF IInv

(* The process dies. *)
LEMMA CrashInv ==
  ASSUME IInv, Crash
  PROVE  IInv'
<1>0. faults' \in 0 .. MaxFaults
  BY LifecycleAssumption DEF IInv, TypeOK, Crash
<1>1. TypeOK'
  BY <1>0, UndecidedType DEF IInv, Crash, TypeOK, Points, InTurn, Gone, State
<1>2. Unready' /\ Parked' /\ InputOwned'
  BY QuietInv DEF Crash
<1>3. Engaged' /\ Copy' /\ Chosen'
  BY DEF IInv, Engaged, Busy, Copy, Chosen, Crash, Gone, State
<1>4. WaitDecisionLive'
  BY DEF IInv, Engaged, Busy, Waiting, WaitDecisionLive, Waits, Crash, Gone, State
<1> QED
  BY <1>1, <1>2, <1>3, <1>4 DEF IInv

(* An abandoned Work is adopted: it is running, so it does not wait. *)
LEMMA AdoptInv ==
  ASSUME IInv, Adopt
  PROVE  IInv'
<1>1. TypeOK'
  BY DEF IInv, Adopt, TypeOK, Points, InTurn, Elsewhere, Waiting
<1>2. Unready' /\ Parked' /\ InputOwned'
  BY QuietInv DEF Adopt, Elsewhere
<1>3. Engaged' /\ Copy' /\ Chosen'
  BY DEF IInv, Engaged, Busy, Copy, Chosen, Adopt, Elsewhere, Waiting
<1>4. WaitDecisionLive'
  BY DEF IInv, Engaged, Busy, Waiting, WaitDecisionLive, Waits, Adopt, Elsewhere
<1> QED
  BY <1>1, <1>2, <1>3, <1>4 DEF IInv

(* The recovery reads the mailbox. *)
LEMMA AdoptReadInv ==
  ASSUME IInv, AdoptRead
  PROVE  IInv'
<1>1. TypeOK'
  BY DEF IInv, AdoptRead, TypeOK, Points, InTurn, local, Elsewhere
<1>2. Unready' /\ Parked' /\ InputOwned'
  BY QuietInv DEF AdoptRead, local, Elsewhere
<1>3. Engaged' /\ Copy' /\ Chosen'
  BY DEF IInv, Engaged, Busy, Copy, Chosen, AdoptRead, local, Elsewhere
<1>4. WaitDecisionLive'
  BY DEF IInv, Engaged, Busy, Waiting, WaitDecisionLive, Waits, AdoptRead, local, Elsewhere
<1> QED
  BY <1>1, <1>2, <1>3, <1>4 DEF IInv

-----------------------------------------------------------------------------
(* The choice of an ending is a state, and is completion only for a         *)
(* decision to complete.                                                    *)
LEMMA ChoiceFacts ==
  ASSUME TypeOK
  PROVE  Choice \in State /\ (Choice = "completed" => mine.action = "complete")
<1>1. \A a : Ending(a) \in State /\ (Ending(a) = "completed" => a = "complete")
  BY DEF Ending, State, Waiting, Terminal
<1>2. Background \in State /\ Background # "completed"
  BY DEF Background, State, Waiting
<1> QED
  BY <1>1, <1>2 DEF Choice, State, Waiting

(* The settlement chooses from its reads. *)
LEMMA ChooseInv ==
  ASSUME IInv, Choose
  PROVE  IInv'
<1>1. TypeOK'
  BY ChoiceFacts DEF IInv, Choose, TypeOK, Points, Elsewhere
<1>2. Unready' /\ Parked' /\ InputOwned'
  BY QuietInv DEF Choose, Elsewhere
<1>3. Engaged' /\ Copy' /\ Chosen'
  BY ChoiceFacts DEF IInv, Engaged, Busy, Copy, Chosen, Choose, Elsewhere
<1>4. WaitDecisionLive'
  BY DEF IInv, WaitDecisionLive, Waits, Choose, Elsewhere
<1> QED
  BY <1>1, <1>2, <1>3, <1>4 DEF IInv

-----------------------------------------------------------------------------
(* Steps that change the mailbox.  What the row promises about it survives   *)
(* when no prepared message is new and none moves to the head.              *)
LEMMA MailInv ==
  ASSUME IInv,
         work'.state \in Waiting \cup Terminal =>
            /\ work' = work
            /\ \A i \in Business' : inbox'[i].ready => i \in Business /\ inbox[i].ready
            /\ Business \subseteq Business' \/ \A i \in Business : ~inbox[i].ready
  PROVE  Parked' /\ InputOwned'
<1>1. ASSUME work'.state \notin Waiting \cup Terminal PROVE Parked' /\ InputOwned'
  BY <1>1 DEF Parked, InputOwned
<1>2. ASSUME work'.state \in Waiting \cup Terminal PROVE Parked' /\ InputOwned'
  <2>1. Parked'
    BY <1>2 DEF IInv, Parked
  <2>2. ASSUME HeadReady(Business)' PROVE HeadReady(Business)
    BY <1>2, <2>2 DEF HeadReady
  <2>3. InputOwned'
    BY <1>2, <2>2 DEF IInv, InputOwned
  <2> QED
    BY <2>1, <2>3
<1> QED
  BY <1>1, <1>2

(* The mailbox after a new input. *)
LEMMA InsertFacts ==
  ASSUME TypeOK, NEW item \in Items, item.st = "pending", Insert(item)
  PROVE  /\ last + 1 \in Input
         /\ last' \in 0 .. MaxInputs
         /\ inbox' \in [Input -> Items]
         /\ \A i \in Input : inbox'[i].st = "absent" <=> i > last'
         /\ inbox'[last + 1] = item
         /\ \A i \in Input : i # last + 1 => inbox'[i] = inbox[i]
         /\ inbox[last + 1].st = "absent"
<1>1. last + 1 \in Input /\ last' \in 0 .. MaxInputs /\ last' = last + 1
  BY LifecycleAssumption DEF TypeOK, Insert, Input
<1>2. inbox' \in [Input -> Items]
  BY <1>1 DEF TypeOK, Insert
<1>3. inbox'[last + 1] = item /\ \A i \in Input : i # last + 1 => inbox'[i] = inbox[i]
  BY <1>1 DEF TypeOK, Insert
<1>4. \A i \in Input : inbox'[i].st = "absent" <=> i > last'
  <2> SUFFICES ASSUME NEW i \in Input PROVE inbox'[i].st = "absent" <=> i > last'
    OBVIOUS
  <2>1. CASE i = last + 1
    BY <1>1, <1>3, <2>1 DEF TypeOK, Input
  <2>2. CASE i # last + 1
    BY <1>1, <1>3, <2>2, LifecycleAssumption DEF TypeOK, Input
  <2> QED
    BY <2>1, <2>2
<1>5. inbox[last + 1].st = "absent"
  BY <1>1, LifecycleAssumption DEF TypeOK, Input
<1> QED
  BY <1>1, <1>2, <1>3, <1>4, <1>5

(* A new input that is prepared and no message, or a message that is not    *)
(* prepared, brings no prepared message.                                    *)
LEMMA InsertMail ==
  ASSUME TypeOK, Unready, NEW item \in Items, item.st = "pending", Insert(item)
  PROVE  /\ (item.ready \/ item.kind = "message") => Unready'
         /\ (item.kind # "message" \/ ~item.ready) =>
                /\ \A i \in Business' : inbox'[i].ready => i \in Business /\ inbox[i].ready
                /\ Business \subseteq Business'
<1>1. \A i \in Input : i # last + 1 => inbox'[i] = inbox[i]
  BY InsertFacts
<1>2. inbox'[last + 1] = item /\ last + 1 \in Input
  BY InsertFacts
<1>3. (item.ready \/ item.kind = "message") => Unready'
  BY <1>1, <1>2 DEF Unready
<1>4. Business \subseteq Business'
  BY <1>1, InsertFacts DEF Business, Queue
<1>5. ASSUME item.kind # "message" \/ ~item.ready, NEW i \in Business', inbox'[i].ready
      PROVE  i \in Business /\ inbox[i].ready
  <2>1. i \in Input /\ i # last + 1
    BY <1>2, <1>5 DEF Business, Queue
  <2> QED
    BY <1>1, <1>5, <2>1 DEF Business, Queue
<1> QED
  BY <1>3, <1>4, <1>5

(* A staged message is not prepared yet. *)
LEMMA StageMessageInv ==
  ASSUME IInv, StageMessage
  PROVE  IInv'
<1> DEFINE item == Item("message", 0, FALSE, "pending")
<1>1. /\ item \in Items /\ item.st = "pending" /\ Insert(item)
      /\ item.ready \/ item.kind = "message"
  BY LifecycleAssumption DEF StageMessage, Item, Items, Wait
<1> HIDE DEF item
<1>2. TypeOK'
  BY <1>1, InsertFacts
     DEF IInv, TypeOK, StageMessage, local, State, Waiting, Terminal, Why, Row
<1>3. Unready'
  BY <1>1, InsertMail DEF IInv
<1>4. Parked' /\ InputOwned'
  <2>1. work'.state \in Waiting \cup Terminal =>
           work' = work /\ (item.kind # "message" \/ ~item.ready)
    BY DEF item, StageMessage, Item, Waiting, Terminal, Row
  <2> QED
    BY <1>1, <2>1, InsertMail, MailInv DEF IInv
<1>5. Engaged' /\ Copy' /\ Chosen'
  BY DEF IInv, Engaged, Busy, Copy, Chosen, StageMessage, local, Waiting, Row
<1>6. WaitDecisionLive'
  BY DEF IInv, TypeOK, WaitDecisionLive, Waits, Waiting, StageMessage, local, Row
<1> QED
  BY <1>2, <1>3, <1>4, <1>5, <1>6 DEF IInv

(* A reply is not prepared yet either. *)
LEMMA StageReplyInv ==
  ASSUME IInv, StageReply
  PROVE  IInv'
<1> DEFINE item == Item("message", 0, FALSE, "pending")
<1>1. /\ item \in Items /\ item.st = "pending" /\ Insert(item)
      /\ item.ready \/ item.kind = "message"
  BY LifecycleAssumption DEF StageReply, Item, Items, Wait
<1> HIDE DEF item
<1>2. TypeOK'
  BY <1>1, InsertFacts
     DEF IInv, TypeOK, StageReply, local, State, Waiting, Terminal, Why, Row
<1>3. Unready'
  BY <1>1, InsertMail DEF IInv
<1>4. Parked' /\ InputOwned'
  <2>1. work'.state \in Waiting \cup Terminal =>
           work' = work /\ (item.kind # "message" \/ ~item.ready)
    BY DEF item, StageReply, Item, Waiting, Terminal, Row
  <2> QED
    BY <1>1, <2>1, InsertMail, MailInv DEF IInv
<1>5. Engaged' /\ Copy' /\ Chosen'
  BY DEF IInv, Engaged, Busy, Copy, Chosen, StageReply, local, Waiting, Row
<1>6. WaitDecisionLive'
  BY DEF IInv, TypeOK, WaitDecisionLive, Waits, Waiting, StageReply, local, Row
<1> QED
  BY <1>2, <1>3, <1>4, <1>5, <1>6 DEF IInv

(* A client's input meets a Work that does not wait. *)
LEMMA ClientInputInv ==
  ASSUME IInv, ClientInput
  PROVE  IInv'
<1> DEFINE item == Item("message", 0, TRUE, "pending")
<1>1. /\ item \in Items /\ item.st = "pending" /\ Insert(item)
      /\ item.ready \/ item.kind = "message"
  BY LifecycleAssumption DEF ClientInput, Item, Items, Wait
<1> HIDE DEF item
<1>2. TypeOK'
  BY <1>1, InsertFacts
     DEF IInv, TypeOK, ClientInput, local, State, Waiting, Terminal, Why, Row
<1>3. Unready'
  BY <1>1, InsertMail DEF IInv
<1>4. Parked' /\ InputOwned'
  <2>1. work'.state \in Waiting \cup Terminal =>
           work' = work /\ (item.kind # "message" \/ ~item.ready)
    BY DEF item, ClientInput, Item, Waiting, Terminal, Row
  <2> QED
    BY <1>1, <2>1, InsertMail, MailInv DEF IInv
<1>5. Engaged' /\ Copy' /\ Chosen'
  BY DEF IInv, Engaged, Busy, Copy, Chosen, ClientInput, local, Waiting, Row
<1>6. WaitDecisionLive'
  BY DEF IInv, TypeOK, WaitDecisionLive, Waits, Waiting, ClientInput, local, Row
<1> QED
  BY <1>2, <1>3, <1>4, <1>5, <1>6 DEF IInv

(* A resuming input queues the Work. *)
LEMMA ResumeWithInputInv ==
  ASSUME IInv, ResumeWithInput
  PROVE  IInv'
<1> DEFINE item == Item("message", 0, TRUE, "pending")
<1>1. /\ item \in Items /\ item.st = "pending" /\ Insert(item)
      /\ item.ready \/ item.kind = "message"
  BY LifecycleAssumption DEF ResumeWithInput, Item, Items, Wait
<1> HIDE DEF item
<1>2. TypeOK'
  BY <1>1, InsertFacts, UndecidedType
     DEF IInv, TypeOK, ResumeWithInput, local, State, Waiting, Terminal, Why, Row, NoneActive
<1>3. Unready'
  BY <1>1, InsertMail DEF IInv
<1>4. Parked' /\ InputOwned'
  <2>1. work'.state \in Waiting \cup Terminal =>
           work' = work /\ (item.kind # "message" \/ ~item.ready)
    BY DEF item, ResumeWithInput, Item, Waiting, Terminal, Row, NoneActive
  <2> QED
    BY <1>1, <2>1, InsertMail, MailInv DEF IInv
<1>5. Engaged' /\ Copy' /\ Chosen'
  BY DEF IInv, Engaged, Busy, Copy, Chosen, ResumeWithInput, local, Waiting, Row, NoneActive
<1>6. WaitDecisionLive'
  BY DEF IInv, TypeOK, WaitDecisionLive, Waits, Waiting, ResumeWithInput, local, Row,
         NoneActive
<1> QED
  BY <1>2, <1>3, <1>4, <1>5, <1>6 DEF IInv

(* A signal is no message, and wakes the Work that waits. *)
LEMMA DeliverInv ==
  ASSUME IInv, NEW w \in Wait, Deliver(w)
  PROVE  IInv'
<1> DEFINE item == Item("signal", w, TRUE, "pending")
<1>1. /\ item \in Items /\ item.st = "pending" /\ Insert(item)
      /\ item.ready \/ item.kind = "message"
  BY LifecycleAssumption DEF Deliver, Item, Items, Wait
<1> HIDE DEF item
<1>2. TypeOK'
  BY <1>1, InsertFacts
     DEF IInv, TypeOK, Deliver, local, State, Waiting, Terminal, Why, Row, Woken
<1>3. Unready'
  BY <1>1, InsertMail DEF IInv
<1>4. Parked' /\ InputOwned'
  <2>1. work'.state \in Waiting \cup Terminal =>
           work' = work /\ (item.kind # "message" \/ ~item.ready)
    BY DEF item, Deliver, Item, Waiting, Terminal, Row, Woken
  <2> QED
    BY <1>1, <2>1, InsertMail, MailInv DEF IInv
<1>5. Engaged' /\ Copy' /\ Chosen'
  BY DEF IInv, Engaged, Busy, Copy, Chosen, Deliver, local, Waiting, Row, Woken
<1>6. WaitDecisionLive'
  BY DEF IInv, TypeOK, WaitDecisionLive, Waits, Waiting, Deliver, local, Row, Woken
<1> QED
  BY <1>2, <1>3, <1>4, <1>5, <1>6 DEF IInv

(* A completion is no message. *)
LEMMA RouteCompletionInv ==
  ASSUME IInv, RouteCompletion
  PROVE  IInv'
<1> DEFINE item == Item("completion", 0, TRUE, "pending")
<1>1. /\ item \in Items /\ item.st = "pending" /\ Insert(item)
      /\ item.ready \/ item.kind = "message"
  BY LifecycleAssumption DEF RouteCompletion, Item, Items, Wait
<1> HIDE DEF item
<1>2. TypeOK'
  BY <1>1, InsertFacts
     DEF IInv, TypeOK, RouteCompletion, local, State, Waiting, Terminal, Why, Row
<1>3. Unready'
  BY <1>1, InsertMail DEF IInv
<1>4. Parked' /\ InputOwned'
  <2>1. work'.state \in Waiting \cup Terminal =>
           work' = work /\ (item.kind # "message" \/ ~item.ready)
    BY DEF item, RouteCompletion, Item, Waiting, Terminal, Row
  <2> QED
    BY <1>1, <2>1, InsertMail, MailInv DEF IInv
<1>5. Engaged' /\ Copy' /\ Chosen'
  BY DEF IInv, Engaged, Busy, Copy, Chosen, RouteCompletion, local, Waiting, Row
<1>6. WaitDecisionLive'
  BY DEF IInv, TypeOK, WaitDecisionLive, Waits, Waiting, RouteCompletion, local, Row
<1> QED
  BY <1>2, <1>3, <1>4, <1>5, <1>6 DEF IInv

(* The input is prepared, and the Work that waits is queued. *)
LEMMA PrepareInputInv ==
  ASSUME IInv, NEW i \in Input, PrepareInput(i)
  PROVE  IInv'
<1> DEFINE item == Item(inbox[i].kind, inbox[i].wait, TRUE, "pending")
<1>1. item \in Items /\ item.ready /\ item.st = "pending" /\ inbox[i].st = "pending"
  BY DEF IInv, TypeOK, PrepareInput, Unprepared, Item, Items
<1>2. inbox' = [inbox EXCEPT ![i] = item]
  BY DEF PrepareInput
<1> HIDE DEF item
<1>3. work' \in [state : State, why : Why] /\ work'.state \notin Waiting \cup Terminal
  BY DEF IInv, TypeOK, PrepareInput, Woken, Row, State, Waiting, Terminal, Why
<1>4. TypeOK'
  <2>1. inbox' \in [Input -> Items] /\ \A j \in Input : inbox'[j].st = "absent" <=> j > last
    BY <1>1, <1>2 DEF IInv, TypeOK
  <2> QED
    BY <1>3, <2>1 DEF IInv, TypeOK, PrepareInput, local
<1>5. Unready'
  BY <1>1, <1>2 DEF IInv, TypeOK, Unready
<1>6. Parked' /\ InputOwned'
  BY <1>3, MailInv
<1>7. Engaged' /\ Copy' /\ Chosen' /\ WaitDecisionLive'
  BY <1>3 DEF IInv, TypeOK, Engaged, Busy, Copy, Chosen, WaitDecisionLive, PrepareInput,
         local, 
              Woken, Row, Waiting
<1> QED
  BY <1>4, <1>5, <1>6, <1>7 DEF IInv

(* The input is dropped.  A Work parked for its preparation is queued; any  *)
(* other waiting Work has no prepared message behind it.                    *)
LEMMA DiscardInputInv ==
  ASSUME IInv, NEW i \in Input, DiscardInput(i)
  PROVE  IInv'
<1> DEFINE item == Marked(i, "cancelled")
<1>1. item \in Items /\ item.kind = inbox[i].kind /\ item.st = "cancelled" /\ inbox[i].st = "pending"
  BY DEF IInv, TypeOK, DiscardInput, Unprepared, Marked, Item, Items
<1>2. inbox' = [inbox EXCEPT ![i] = item] /\ ~inbox[i].ready
  BY DEF DiscardInput, Unprepared
<1> HIDE DEF item
<1>3. /\ work' \in [state : State, why : Why]
      /\ work' = work \/ work' = Row("queued", "other")
      /\ work.state = "waiting_external" /\ work.why = "preparing" => work'.state = "queued"
  BY DEF IInv, TypeOK, DiscardInput, Woken, Row, State, Why
<1>4. TypeOK'
  <2>1. inbox' \in [Input -> Items] /\ \A j \in Input : inbox'[j].st = "absent" <=> j > last
    BY <1>1, <1>2 DEF IInv, TypeOK
  <2> QED
    BY <1>3, <2>1 DEF IInv, TypeOK, DiscardInput, local
<1>5. Unready'
  BY <1>1, <1>2 DEF IInv, TypeOK, Unready
<1>6. Parked' /\ InputOwned'
  <2>1. \A j \in Business' : j \in Business /\ inbox'[j] = inbox[j]
    BY <1>1, <1>2 DEF IInv, TypeOK, Business, Queue
  <2>2. work'.state \in Waiting \cup Terminal => \A j \in Business : ~inbox[j].ready
    BY <1>3 DEF IInv, Parked, InputOwned, Waiting, Terminal, Row
  <2>3. work'.state \in Waiting \cup Terminal => work' = work
    BY <1>3 DEF Row, Waiting, Terminal
  <2> QED
    BY <2>1, <2>2, <2>3, MailInv
<1>7. Engaged' /\ Copy' /\ Chosen' /\ WaitDecisionLive'
  BY <1>3 DEF IInv, TypeOK, Engaged, Busy, Copy, Chosen, WaitDecisionLive, Waits,
         DiscardInput, 
              local, Row, Waiting
<1> QED
  BY <1>4, <1>5, <1>6, <1>7 DEF IInv

(* Under a busy activation inputs are only moved along: a prepared input    *)
(* that is in the mailbox afterwards was in it before.                      *)
LEMMA MovedMail ==
  ASSUME IInv, Busy, work' = work, last' = last,
         NEW S, S \subseteq Input,
         \A i \in S : inbox[i].ready /\ inbox[i].st \in {"pending", "staged"},
         NEW st \in [S -> {"pending", "staged", "consumed", "cancelled"}],
         inbox' = [i \in Input |-> IF i \in S THEN Marked(i, st[i]) ELSE inbox[i]]
  PROVE  /\ inbox' \in [Input -> Items]
         /\ \A i \in Input : inbox'[i].st = "absent" <=> i > last'
         /\ Unready' /\ Parked' /\ InputOwned'
<1>1. \A i \in S : /\ inbox'[i].kind = inbox[i].kind /\ inbox'[i].ready = inbox[i].ready
                   /\ inbox'[i].st = st[i] /\ inbox'[i] \in Items
  BY DEF IInv, TypeOK, Marked, Item, Items
<1>2. \A i \in Input \ S : inbox'[i] = inbox[i]
  OBVIOUS
<1>3. inbox' \in [Input -> Items] /\ \A i \in Input : inbox'[i].st = "absent" <=> i > last'
  BY <1>1, <1>2 DEF IInv, TypeOK
<1>4. Unready'
  BY <1>1, <1>2 DEF IInv, Unready
<1>5. \A i \in Business' : inbox'[i].ready => i \in Business /\ inbox[i].ready
  BY <1>1, <1>2 DEF Business, Queue
<1>6. work'.state \in Waiting \cup Terminal => \A i \in Business : ~inbox[i].ready
  BY DEF IInv, Engaged, InputOwned
<1> QED
  BY <1>3, <1>4, <1>5, <1>6, MailInv

(* Staged inputs go back to the mailbox or are consumed. *)
LEMMA RestoreInv ==
  ASSUME IInv, NEW S \in SUBSET Input, Restore(S)
  PROVE  IInv'
<1> DEFINE st == [i \in Staged |-> IF i \in S THEN "consumed" ELSE "pending"]
<1>1. Staged \subseteq Input /\ \A i \in Staged : inbox[i].ready /\ inbox[i].st = "staged"
  BY DEF IInv, TypeOK, Unready, Staged
<1>2. st \in [Staged -> {"pending", "staged", "consumed", "cancelled"}]
  OBVIOUS
<1>3. inbox' = [i \in Input |-> IF i \in Staged THEN Marked(i, st[i]) ELSE inbox[i]]
  BY DEF Restore
<1>4. Busy /\ work' = work /\ last' = last
  BY DEF Restore, Busy
<1>5. /\ inbox' \in [Input -> Items]
      /\ \A i \in Input : inbox'[i].st = "absent" <=> i > last'
      /\ Unready' /\ Parked' /\ InputOwned'
  <2> HIDE DEF st
  <2> QED
    BY <1>1, <1>2, <1>3, <1>4, MovedMail
<1>6. TypeOK'
  BY <1>5 DEF IInv, TypeOK, Restore, Points, InTurn
<1>7. Engaged' /\ Copy' /\ Chosen' /\ WaitDecisionLive'
  BY DEF IInv, Engaged, Busy, Copy, Chosen, WaitDecisionLive, Waits, Waiting, Restore
<1> QED
  BY <1>5, <1>6, <1>7 DEF IInv

(* A batch is staged: all of it is prepared. *)
LEMMA TakeInputsInv ==
  ASSUME IInv, NEW S \in SUBSET Input, TakeInputs(S)
  PROVE  IInv'
<1> DEFINE st == [i \in S |-> "staged"]
<1>1. \A i \in S : inbox[i].ready /\ inbox[i].st \in {"pending", "staged"}
  BY DEF TakeInputs, Batch, Pending
<1>2. st \in [S -> {"pending", "staged", "consumed", "cancelled"}]
  OBVIOUS
<1>3. inbox' = [i \in Input |-> IF i \in S THEN Marked(i, st[i]) ELSE inbox[i]]
  BY DEF TakeInputs
<1>4. Busy /\ work' = work /\ last' = last
  BY DEF TakeInputs, Busy
<1>5. /\ inbox' \in [Input -> Items]
      /\ \A i \in Input : inbox'[i].st = "absent" <=> i > last'
      /\ Unready' /\ Parked' /\ InputOwned'
  <2> HIDE DEF st
  <2> QED
    BY <1>1, <1>2, <1>3, <1>4, MovedMail
<1>6. TypeOK'
  BY <1>5 DEF IInv, TypeOK, TakeInputs, local, Points, InTurn
<1>7. Engaged' /\ Copy' /\ Chosen' /\ WaitDecisionLive'
  BY DEF IInv, Engaged, Busy, Copy, Chosen, WaitDecisionLive, Waits, Waiting, TakeInputs,
         local
<1> QED
  BY <1>5, <1>6, <1>7 DEF IInv

(* The staged inputs were shown to the model. *)
LEMMA RespondInv ==
  ASSUME IInv, Respond
  PROVE  IInv'
<1> DEFINE st == [i \in Staged |-> "consumed"]
<1>1. Staged \subseteq Input /\ \A i \in Staged : inbox[i].ready /\ inbox[i].st = "staged"
  BY DEF IInv, TypeOK, Unready, Staged
<1>2. st \in [Staged -> {"pending", "staged", "consumed", "cancelled"}]
  OBVIOUS
<1>3. inbox' = [i \in Input |-> IF i \in Staged THEN Marked(i, st[i]) ELSE inbox[i]]
  BY DEF Respond
<1>4. Busy /\ work' = work /\ last' = last
  BY DEF Respond, Busy
<1>5. /\ inbox' \in [Input -> Items]
      /\ \A i \in Input : inbox'[i].st = "absent" <=> i > last'
      /\ Unready' /\ Parked' /\ InputOwned'
  <2> HIDE DEF st
  <2> QED
    BY <1>1, <1>2, <1>3, <1>4, MovedMail
<1>6. TypeOK'
  BY <1>5 DEF IInv, TypeOK, Respond, local, Points, InTurn
<1>7. Engaged' /\ Copy' /\ Chosen' /\ WaitDecisionLive'
  BY DEF IInv, Engaged, Busy, Copy, Chosen, WaitDecisionLive, Waits, Waiting, Respond, local
<1> QED
  BY <1>5, <1>6, <1>7 DEF IInv

(* Only completions, which are no messages, are withdrawn. *)
LEMMA ConfirmCompletionInv ==
  ASSUME IInv, ConfirmCompletion
  PROVE  IInv'
<1> DEFINE C == {i \in Pending : inbox[i].kind = "completion"}
           st == [i \in C |-> "cancelled"]
<1>1. C \subseteq Input /\ \A i \in C : inbox[i].ready /\ inbox[i].st = "pending"
  BY DEF IInv, TypeOK, Unready, Pending
<1>2. st \in [C -> {"pending", "staged", "consumed", "cancelled"}]
  OBVIOUS
<1>3. inbox' = [i \in Input |-> IF i \in C THEN Marked(i, st[i]) ELSE inbox[i]]
  BY DEF ConfirmCompletion
<1>4. Busy /\ work' = work /\ last' = last
  BY DEF ConfirmCompletion, Busy
<1>5. /\ inbox' \in [Input -> Items]
      /\ \A i \in Input : inbox'[i].st = "absent" <=> i > last'
      /\ Unready' /\ Parked' /\ InputOwned'
  <2> HIDE DEF st, C
  <2> QED
    BY <1>1, <1>2, <1>3, <1>4, MovedMail
<1>6. TypeOK'
  BY <1>5 DEF IInv, TypeOK, ConfirmCompletion, local, Points, InTurn
<1>7. Engaged' /\ Copy' /\ Chosen' /\ WaitDecisionLive'
  BY DEF IInv, Engaged, Busy, Copy, Chosen, WaitDecisionLive, Waits, Waiting,
         ConfirmCompletion, local
<1> QED
  BY <1>5, <1>6, <1>7 DEF IInv

-----------------------------------------------------------------------------
(* The mailbox after a stop is empty. *)
LEMMA WithdrawnFacts ==
  ASSUME TypeOK, Unready, last' = last, inbox' = Withdrawn
  PROVE  /\ inbox' \in [Input -> Items]
         /\ \A i \in Input : inbox'[i].st = "absent" <=> i > last'
         /\ Unready'
         /\ Business' = {}
<1>1. \A i \in Queue : /\ inbox'[i].kind = inbox[i].kind /\ inbox'[i].ready = inbox[i].ready
                       /\ inbox'[i].st = "cancelled" /\ inbox'[i] \in Items
  BY DEF TypeOK, Withdrawn, Marked, Item, Items, Queue
<1>2. \A i \in Input \ Queue : inbox'[i] = inbox[i]
  BY DEF Withdrawn
<1>3. inbox' \in [Input -> Items] /\ \A i \in Input : inbox'[i].st = "absent" <=> i > last'
  BY <1>1, <1>2 DEF TypeOK, Withdrawn, Queue
<1>4. Unready'
  BY <1>1, <1>2 DEF Unready
<1>5. Business' = {}
  BY <1>1, <1>2 DEF Business, Queue
<1> QED
  BY <1>3, <1>4, <1>5

(* The operator's stop. *)
LEMMA ManageStopInv ==
  ASSUME IInv, NEW s \in {"cancelled", "failed"}, ManageStop(s)
  PROVE  IInv'
<1>1. /\ inbox' \in [Input -> Items]
      /\ \A i \in Input : inbox'[i].st = "absent" <=> i > last'
      /\ Unready' /\ Business' = {}
  BY WithdrawnFacts DEF IInv, ManageStop
<1>2. work' \in [state : State, why : Why] /\ work'.state \in Terminal
  BY DEF ManageStop, Row, State, Terminal, Why
<1>3. TypeOK'
  BY <1>1, <1>2, UndecidedType DEF IInv, TypeOK, ManageStop, Stale, NoneActive
<1>4. Parked' /\ InputOwned'
  BY <1>1, <1>2 DEF Parked, InputOwned, Waiting, Terminal
<1>5. Engaged' /\ Copy' /\ Chosen' /\ WaitDecisionLive'
  BY <1>2 DEF IInv, Engaged, Busy, Copy, Chosen, WaitDecisionLive, Waiting, Terminal,
         ManageStop, Stale
<1> QED
  BY <1>1, <1>3, <1>4, <1>5 DEF IInv

(* The operator's resumption. *)
LEMMA ManageResumeInv ==
  ASSUME IInv, ManageResume
  PROVE  IInv'
<1>1. work' \in [state : State, why : Why] /\ work'.state = "queued"
  BY DEF ManageResume, Row, State, Why
<1>2. TypeOK'
  BY <1>1, UndecidedType DEF IInv, TypeOK, ManageResume, Stale, NoneActive
<1>3. Unready' /\ Parked' /\ InputOwned'
  BY <1>1 DEF IInv, Unready, Parked, InputOwned, Waiting, Terminal, ManageResume
<1>4. Engaged' /\ Copy' /\ Chosen' /\ WaitDecisionLive'
  BY <1>1 DEF IInv, Engaged, Busy, Copy, Chosen, WaitDecisionLive, Waiting, ManageResume,
         Stale
<1> QED
  BY <1>2, <1>3, <1>4 DEF IInv

(* A hard boundary ends the Work and its activation. *)
LEMMA HardBoundaryInv ==
  ASSUME IInv, HardBoundary
  PROVE  IInv'
<1>1. /\ inbox' \in [Input -> Items]
      /\ \A i \in Input : inbox'[i].st = "absent" <=> i > last'
      /\ Unready' /\ Business' = {}
  BY WithdrawnFacts DEF IInv, HardBoundary
<1>2. work' \in [state : State, why : Why] /\ work'.state \in Terminal
  BY DEF HardBoundary, Row, State, Terminal, Why
<1>3. TypeOK'
  BY <1>1, <1>2, UndecidedType DEF IInv, TypeOK, HardBoundary, Gone, Points, State
<1>4. Parked' /\ InputOwned'
  BY <1>1, <1>2 DEF Parked, InputOwned, Waiting, Terminal
<1>5. Engaged' /\ Copy' /\ Chosen' /\ WaitDecisionLive'
  BY <1>2 DEF IInv, Engaged, Busy, Copy, Chosen, WaitDecisionLive, Waiting, Terminal,
         HardBoundary, Gone
<1> QED
  BY <1>1, <1>3, <1>4, <1>5 DEF IInv

(* A new goal keeps the Work running. *)
LEMMA UpdateGoalInv ==
  ASSUME IInv, UpdateGoal
  PROVE  IInv'
<1>1. work' \in [state : State, why : Why] /\ work'.state = "running"
  BY DEF UpdateGoal, Row, State, Why
<1>2. TypeOK'
  BY <1>1 DEF IInv, TypeOK, UpdateGoal, NoneActive, local, Points, InTurn
<1>3. Unready' /\ Parked' /\ InputOwned'
  BY <1>1 DEF IInv, Unready, Parked, InputOwned, Waiting, Terminal, UpdateGoal
<1>4. Engaged' /\ Copy' /\ Chosen' /\ WaitDecisionLive'
  BY <1>1 DEF IInv, Engaged, Busy, Copy, Chosen, WaitDecisionLive, Waiting, UpdateGoal,
         local
<1> QED
  BY <1>2, <1>3, <1>4 DEF IInv

(* A queued Work is run. *)
LEMMA ActivateInv ==
  ASSUME IInv, Activate
  PROVE  IInv'
<1>1. work' \in [state : State, why : Why] /\ work'.state = "running"
  BY DEF Activate, Row, State, Why
<1>2. TypeOK'
  BY <1>1 DEF IInv, TypeOK, Activate, Points, InTurn
<1>3. Unready' /\ Parked' /\ InputOwned'
  BY <1>1 DEF IInv, Unready, Parked, InputOwned, Waiting, Terminal, Activate
<1>4. Engaged' /\ Copy' /\ Chosen' /\ WaitDecisionLive'
  BY <1>1 DEF IInv, Engaged, Busy, Copy, Chosen, WaitDecisionLive, Waiting, Activate
<1> QED
  BY <1>2, <1>3, <1>4 DEF IInv

-----------------------------------------------------------------------------
(* commit_state *)

(* A set of input ids has an oldest one. *)
LEMMA Oldest ==
  ASSUME NEW S, S \subseteq Nat, S # {}
  PROVE  \E m \in S : \A n \in S : m <= n
<1> DEFINE R == {p \in Nat \X Nat : p[1] < p[2]}
<1>1. IsWellFoundedOn(R, Nat)
  BY NatLessThanWellFounded DEF OpToRel
<1>2. PICK m \in S : \A n \in S : ~ (<<n, m>> \in R)
  <2> HIDE DEF R
  <2> QED
    BY <1>1, WFMin
<1>3. \A n \in S : n \in Nat /\ m \in Nat /\ ~(n < m)
  BY <1>2
<1> QED
  BY <1>3

(* When the oldest input of the mailbox is not prepared, it is the oldest   *)
(* message too.                                                             *)
LEMMA UnreadyHead ==
  ASSUME TypeOK, Unready, ~HeadReady(Queue)
  PROVE  ~HeadReady(Business)
<1> SUFFICES ASSUME NEW i \in Business, inbox[i].ready, \A j \in Business : i <= j
             PROVE  FALSE
  BY DEF HeadReady
<1>1. Queue \subseteq Nat /\ i \in Queue /\ Queue \subseteq Input
  BY LifecycleAssumption DEF Business, Queue, Input
<1>2. PICK m \in Queue : \A n \in Queue : m <= n
  BY <1>1, Oldest
<1>3. ~inbox[m].ready
  BY <1>2 DEF HeadReady
<1>4. m \in Business
  BY <1>1, <1>3 DEF Unready, Business
<1>5. m = i
  BY <1>1, <1>2, <1>4
<1> QED
  BY <1>3, <1>5

(* The state that commit_state settles on before it looks at owned work. *)
LEMMA SettledFacts ==
  ASSUME TypeOK, Unready, NEW s \in State, NEW y \in Why, y # "draining"
  PROVE  /\ Settled(s, y) \in [state : State, why : Why]
         /\ Settled(s, y).why # "draining"
         /\ Arrived(s, y) => \/ Settled(s, y) = Row("queued", "other")
                             \/ /\ Settled(s, y) = Row("waiting_external", "preparing")
                                /\ ~HeadReady(Business)
         /\ ~Arrived(s, y) => \/ Settled(s, y) = Row("queued", "other")
                              \/ /\ Settled(s, y) = Row(s, y)
                                 /\ s = "waiting_external" => y # "preparing"
                                 /\ s \in Waiting \cup {"completed", "failed"} => Business = {}
<1>1. /\ Row(s, y) \in [state : State, why : Why] /\ Row(s, y).why = y
      /\ Row("queued", "other") \in [state : State, why : Why]
      /\ Row("queued", "other").why = "other"
      /\ Row("waiting_external", "preparing") \in [state : State, why : Why]
      /\ Row("waiting_external", "preparing").why = "preparing"
  BY DEF Row, State, Waiting, Why
<1>2. Business \subseteq Queue
  BY DEF Business
<1>3. ~Arrived(s, y) /\ s \in Waiting \cup {"completed", "failed"} => Business = {}
  BY <1>2 DEF Arrived, Mailbox
<1>4. ~HeadReady(Mailbox(y)) => ~HeadReady(Business)
  BY UnreadyHead DEF Mailbox
<1>5. CASE Arrived(s, y)
  BY <1>1, <1>4, <1>5 DEF Settled
<1>6. CASE ~Arrived(s, y)
  BY <1>1, <1>3, <1>6 DEF Settled
<1> QED
  BY <1>5, <1>6

(* What a commit leaves behind in each state. *)
LEMMA OutcomeFacts ==
  ASSUME TypeOK, Unready, NEW s \in State, NEW y \in Why, y # "draining"
  PROVE  LET f == Outcome(s, y)
         IN  /\ f \in [state : State, why : Why]
             /\ f.state = "completed" => s = "completed" /\ Business = {} /\ ~Owned
             /\ f.state = "failed" => Business = {}
             /\ f.state \in Waiting => ~HeadReady(Business)
             /\ f.state \in Waiting /\ (f.state = "waiting_external" => f.why # "preparing")
                   => Business = {}
             /\ f.why = "draining" => s = "completed"
             /\ f.state = "waiting_external" /\ f.why \notin {"draining", "preparing"}
                   => ~Arrived(s, y)
<1> DEFINE g == Settled(s, y)
           f == Outcome(s, y)
<1>1. /\ g \in [state : State, why : Why] /\ g.why # "draining"
      /\ Arrived(s, y) => \/ g.state = "queued" /\ g.why = "other"
                          \/ /\ g.state = "waiting_external" /\ g.why = "preparing"
                             /\ ~HeadReady(Business)
      /\ ~Arrived(s, y) => \/ g.state = "queued" /\ g.why = "other"
                           \/ /\ g.state = s /\ g.why = y
                              /\ s = "waiting_external" => y # "preparing"
                              /\ s \in Waiting \cup {"completed", "failed"} => Business = {}
  BY SettledFacts DEF Row
<1>2. Business = {} => ~HeadReady(Business)
  BY DEF HeadReady
<1>3. \/ /\ f.state = "waiting_external" /\ f.why = "draining" /\ f \in [state : State, why : Why]
         /\ g.state = "completed"
      \/ f.state = "queued" /\ f.why = "other" /\ f \in [state : State, why : Why]
      \/ f = g /\ (g.state = "completed" => ~Owned)
  BY DEF Outcome, Row, State, Waiting, Why
<1>4. f \in [state : State, why : Why]
  BY <1>1, <1>3
<1> HIDE DEF f, g
<1>5. /\ f.state = "completed" => s = "completed" /\ Business = {} /\ ~Owned
      /\ f.state = "failed" => Business = {}
      /\ f.why = "draining" => s = "completed"
  BY <1>1, <1>3 DEF Waiting
<1>6. f.state \in Waiting => ~HeadReady(Business)
  BY <1>1, <1>2, <1>3 DEF Waiting
<1>7. f.state \in Waiting /\ (f.state = "waiting_external" => f.why # "preparing") => Business = {}
  BY <1>1, <1>3 DEF Waiting
<1>8. f.state = "waiting_external" /\ f.why \notin {"draining", "preparing"} => ~Arrived(s, y)
  BY <1>1, <1>3
<1> QED
  BY <1>4, <1>5, <1>6, <1>7, <1>8 DEF f

(* An ending: a commit of a Work that is not over, or a refused one. *)
Ends ==
    \/ UNCHANGED <<work, accepted, inbox, waits>>
    \/ \E s \in State, y \in Why \ {"draining"}, segment \in BOOLEAN :
          /\ Writable
          /\ s = "completed" => accepted.action = "complete"
          /\ CommitState(s, y, segment)

EndingCommit ==
    \/ SettleCommit \/ AdoptDispatched \/ AdoptCommit \/ InterruptedCommit
    \/ \E kind \in {"retry", "segment", "budget", "failed"} : FailCommit(kind)

(* Every recovery commits a state, and completion only as decided. *)
LEMMA RecoveredFacts ==
  ASSUME TypeOK, NEW kind \in {"retry", "segment", "budget", "failed"}
  PROVE  /\ Recovered(kind) \in State
         /\ Recovered(kind) = "completed" => accepted.action = "complete"
<1>1. \A a : Ending(a) \in State /\ (Ending(a) = "completed" => a = "complete")
  BY DEF Ending, State, Waiting, Terminal
<1>2. FailureState(kind) \in State /\ FailureState(kind) # "completed"
  BY DEF FailureState, State, Terminal
<1> QED
  BY <1>1, <1>2 DEF Recovered

(* The five commits end an activation. *)
LEMMA EndingSteps ==
  ASSUME IInv, EndingCommit
  PROVE  /\ Busy /\ Ends /\ pc' = "release"
         /\ UNCHANGED <<handed, last, run, ingress, local, faults>>
<1>1. CASE SettleCommit
  <2>1. Reason \in Why \ {"draining"}
    BY DEF Reason, Why
  <2>2. target \in State /\ (ending = "segment" /\ target = "queued") \in BOOLEAN
    BY DEF IInv, TypeOK
  <2>3. fresh /\ target = "completed" => accepted.action = "complete"
    BY <1>1 DEF IInv, Copy, Chosen, Busy, SettleCommit
  <2>4. Ends
    BY <1>1, <2>1, <2>2, <2>3 DEF Ends, SettleCommit
  <2> QED
    BY <1>1, <2>4 DEF SettleCommit, Busy
<1>2. CASE AdoptDispatched
  <2>1. Ends
    BY <1>2, RecoveredFacts DEF IInv, Ends, AdoptDispatched, Why
  <2> QED
    BY <1>2, <2>1 DEF AdoptDispatched, Busy
<1>3. CASE AdoptCommit
  <2>1. Ends
    BY <1>3 DEF Ends, AdoptCommit, Why, State, Waiting
  <2> QED
    BY <1>3, <2>1 DEF AdoptCommit, Busy
<1>4. CASE InterruptedCommit
  <2>1. work.state = "running" => Writable
    BY DEF Writable, Terminal
  <2>2. Ends
    BY <1>4, <2>1, RecoveredFacts DEF IInv, Ends, InterruptedCommit, Why
  <2> QED
    BY <1>4, <2>2 DEF InterruptedCommit, Busy
<1>5. ASSUME NEW kind \in {"retry", "segment", "budget", "failed"}, FailCommit(kind)
      PROVE  /\ Busy /\ Ends /\ pc' = "release"
             /\ UNCHANGED <<handed, last, run, ingress, local, faults>>
  <2>1. (kind = "segment" /\ ~Overrides(kind)) \in BOOLEAN
    OBVIOUS
  <2>2. Ends
    BY <1>5, <2>1, RecoveredFacts DEF IInv, Ends, FailCommit, Why
  <2> QED
    BY <1>5, <2>2 DEF FailCommit, Busy
<1> QED
  BY <1>1, <1>2, <1>3, <1>4, <1>5 DEF EndingCommit

(* The single state writer keeps the invariant. *)
LEMMA EndingInv ==
  ASSUME IInv, EndingCommit
  PROVE  IInv'
<1>1. /\ pc' = "release"
      /\ UNCHANGED <<handed, last, run, ingress, local, faults>>
  BY EndingSteps
<1>2. Engaged' /\ Copy' /\ Chosen'
  BY <1>1 DEF Engaged, Busy, Copy, Chosen
<1>3. CASE UNCHANGED <<work, accepted, inbox, waits>>
  <2>1. TypeOK'
    BY <1>1, <1>3 DEF IInv, TypeOK, local, Points
  <2>2. Unready' /\ Parked' /\ InputOwned'
    BY <1>3, QuietInv
  <2>3. WaitDecisionLive'
    BY <1>3 DEF IInv, WaitDecisionLive, Waits
  <2> QED
    BY <1>2, <2>1, <2>2, <2>3 DEF IInv
<1>4. ASSUME NEW s \in State, NEW y \in Why \ {"draining"}, NEW segment \in BOOLEAN,
             s = "completed" => accepted.action = "complete", CommitState(s, y, segment)
      PROVE  IInv'
  <2> DEFINE f == Outcome(s, y)
  <2>1. /\ f \in [state : State, why : Why]
        /\ f.state = "completed" => Business = {}
        /\ f.state \in Waiting => ~HeadReady(Business)
        /\ f.state \in Waiting /\ (f.state = "waiting_external" => f.why # "preparing")
              => Business = {}
        /\ f.why = "draining" => s = "completed"
        /\ f.state = "waiting_external" /\ f.why \notin {"draining", "preparing"}
              => ~Arrived(s, y)
    BY OutcomeFacts DEF IInv
  <2>2. /\ work' = f
        /\ accepted' = IF Keeps(f, Arrived(s, y), segment) THEN accepted ELSE Undecided
        /\ inbox' = IF f.state \in {"failed", "cancelled"} THEN Withdrawn ELSE inbox
        /\ waits' = IF f.state \in Terminal THEN NoneActive ELSE waits
    BY <1>4 DEF CommitState
  <2> HIDE DEF f
  <2>3. last' = last
    BY <1>1
  <2>4. /\ inbox' \in [Input -> Items]
        /\ \A i \in Input : inbox'[i].st = "absent" <=> i > last'
        /\ Unready'
        /\ f.state \in {"failed", "cancelled"} => Business' = {}
        /\ f.state \notin {"failed", "cancelled"} => inbox' = inbox
    <3>1. CASE f.state \in {"failed", "cancelled"}
      BY <2>2, <2>3, <3>1, WithdrawnFacts DEF IInv
    <3>2. CASE f.state \notin {"failed", "cancelled"}
      BY <2>2, <2>3, <3>2 DEF IInv, TypeOK, Unready
    <3> QED
      BY <3>1, <3>2
  <2>5. TypeOK'
    <3>1. accepted' \in Decisions
      BY <2>2, UndecidedType DEF IInv, TypeOK
    <3>2. waits' \in [Wait -> {"none", "active", "delivered", "cancelled", "invalidated"}]
      BY <2>2 DEF IInv, TypeOK, NoneActive
    <3> QED
      BY <1>1, <2>1, <2>2, <2>4, <3>1, <3>2 DEF IInv, TypeOK, local, Points
  <2>6. Parked' /\ InputOwned'
    <3>1. f.state \in Waiting \cup {"completed"} => Business' = Business /\
             (HeadReady(Business)' <=> HeadReady(Business))
      BY <2>4, SameMail DEF Waiting
    <3>2. Parked'
      BY <2>1, <2>2, <3>1 DEF Parked
    <3>3. InputOwned'
      BY <2>1, <2>2, <2>4, <3>1 DEF InputOwned, Terminal
    <3> QED
      BY <3>2, <3>3
  <2>7. WaitDecisionLive'
    <3> SUFFICES ASSUME f.state = "waiting_external", f.why # "preparing", Waits(accepted')
                 PROVE  waits'[accepted'.wait] = "active"
      BY <2>2 DEF WaitDecisionLive, Waits
    <3>1. ~Waits(Undecided)
      BY DEF Waits, Undecided, Decision
    <3>2. accepted' = accepted /\ Keeps(f, Arrived(s, y), segment)
      BY <2>2, <3>1
    <3>3. f.why # "draining"
      BY <1>4, <2>1, <3>2 DEF Waits
    <3>4. waits[accepted.wait] = "active"
      BY <3>2, <3>3 DEF Keeps
    <3> QED
      BY <2>2, <3>2, <3>4 DEF Terminal
  <2> QED
    BY <1>2, <2>4, <2>5, <2>6, <2>7 DEF IInv
<1> QED
  BY <1>3, <1>4, EndingSteps DEF Ends

-----------------------------------------------------------------------------
(* Every step preserves the inductive invariant. *)
LEMMA NextInv == IInv /\ [Next]_vars => IInv'
<1> SUFFICES ASSUME IInv, [Next]_vars PROVE IInv'
  OBVIOUS
<1>1. CASE UNCHANGED vars
  <2>1. TypeOK'
    BY <1>1 DEF IInv, TypeOK, vars, local
  <2>2. Unready' /\ Parked' /\ InputOwned'
    BY <1>1, QuietInv DEF vars
  <2>3. Engaged' /\ Copy' /\ Chosen' /\ WaitDecisionLive'
    BY <1>1 DEF IInv, Engaged, Busy, Copy, Chosen, WaitDecisionLive, Waits, vars, local
  <2> QED
    BY <2>1, <2>2, <2>3 DEF IInv
<1>2. CASE Mail
  BY <1>2, SeeBindingInv, StageMessageInv, StageReplyInv, ClientInputInv,
         ResumeWithInputInv,
     PrepareInputInv, DiscardInputInv DEF Mail
<1>3. CASE Outside
  BY <1>3, DeliverInv, InvalidateInv, FinishRunInv, RouteCompletionInv, BlockCompletionInv,
     ManageStopInv, ManageResumeInv, HardBoundaryInv DEF Outside
<1>4. CASE Tools
  BY <1>4, AcceptInv, RegisterWaitInv, CancelWaitInv, UpdateGoalInv, HandoffInv,
         StartRunInv,
     ConfirmCompletionInv DEF Tools
<1>5. CASE Turn
  BY <1>5, ActivateInv, RestoreInv, StartRetireInv, StartAdmitInv, BeginInv,
         InputsPreparingInv,
     TakeInputsInv, RespondInv, RetireInv, YieldSegmentInv, EndBatchInv DEF Turn
<1>6. CASE Settle
  BY <1>6, CloseInv, SettleRetireInv, ChooseInv, EndingInv, ReleaseInv DEF Settle,
         EndingCommit
<1>7. CASE Recover
  BY <1>7, EndingInv, FailDeferredInv, AdoptInv, AdoptReadInv DEF Recover, EndingCommit
<1> QED
  BY <1>1, <1>2, <1>3, <1>4, <1>5, <1>6, <1>7, FailInv, CrashInv DEF Next

(* The inductive invariant holds in every reachable state of a Work. *)
THEOREM Invariance == Spec => []IInv
  BY InitInv, NextInv, PTL DEF Spec

(* The row, the mailbox, the waits and the activation of a Work keep their   *)
(* types, and input ids stay dense in arrival order.                        *)
THEOREM TypeCorrect == Spec => []TypeOK
<1>1. IInv => TypeOK
  BY DEF IInv
<1> QED
  BY <1>1, Invariance, PTL

(* However many inputs, waits and failures there are, no Work waits in front *)
(* of a prepared message and none is over with one in its mailbox.          *)
THEOREM MailboxOwned == Spec => []InputOwned
<1>1. IInv => InputOwned
  BY DEF IInv
<1> QED
  BY <1>1, Invariance, PTL

(* The decision that a settled Work keeps refers to an active wait. *)
THEOREM KeptWaitActive == Spec => []WaitDecisionLive
<1>1. IInv => WaitDecisionLive
  BY DEF IInv
<1> QED
  BY <1>1, Invariance, PTL

-----------------------------------------------------------------------------
(* Action properties *)

(* What every step but the five commits does to a Work. *)
Mild ==
    /\ \/ work' = work
       \/ Writable /\ work'.state # "completed"
       \/ work.state = "failed" /\ work' = Row("queued", "other") /\ accepted' = Undecided
    /\ \/ work'.state # "failed"
       \/ pc' = pc
       \/ \A i \in Business : inbox'[i].st # "cancelled"

(* A step that keeps the mailbox withdraws nothing. *)
LEMMA KeptMail ==
  ASSUME inbox' = inbox
  PROVE  \A i \in Business : inbox'[i].st # "cancelled"
  BY DEF Business, Queue

(* Arrivals, signals, runs and the operator keep the activation where it     *)
(* is, except for the boundary, which cancels.                              *)
LEMMA OutsideMild ==
  ASSUME IInv, Mail \/ Outside
  PROVE  Mild
<1>1. CASE HardBoundary
  BY <1>1 DEF HardBoundary, Mild, Writable, Row
<1>2. CASE ResumeWithInput
  <2>1. Writable \/ work.state = "failed"
    BY <1>2 DEF ResumeWithInput, Writable, Terminal
  <2> QED
    BY <1>2, <2>1 DEF ResumeWithInput, Mild, Row
<1>3. CASE ManageResume
  <2>1. Writable \/ work.state = "failed"
    BY <1>3 DEF ManageResume, Writable, Terminal, Waiting
  <2> QED
    BY <1>3, <2>1 DEF ManageResume, Mild, Row
<1>4. CASE ManageStop("cancelled") \/ ManageStop("failed")
  BY <1>4 DEF ManageStop, Mild, Writable, Row
<1>5. CASE SeeBinding \/ StageMessage \/ StageReply \/ ClientInput
  BY <1>5 DEF SeeBinding, StageMessage, StageReply, ClientInput, Mild
<1>6. Woken(Waiting) = work \/ (Writable /\ Woken(Waiting).state = "queued")
  BY DEF Woken, Writable, Terminal, Waiting, Row
<1>7. Woken({"waiting_external"}) = work \/ (Writable /\ Woken({"waiting_external"}).state = "queued")
  BY DEF Woken, Writable, Terminal, Row
<1>8. ASSUME NEW i \in Input, PrepareInput(i) \/ DiscardInput(i) PROVE Mild
  <2>1. work' = work \/ (Writable /\ work'.state = "queued")
    <3>1. \/ work' = Woken(Waiting) \/ work' = work
          \/ work' = Woken({"waiting_external"})
      BY <1>8, Zenon DEF PrepareInput, DiscardInput
    <3> QED
      BY <1>6, <1>7, <3>1
  <2> QED
    BY <1>8, <2>1 DEF PrepareInput, DiscardInput, Mild
<1>9. ASSUME NEW w \in Wait, Deliver(w) \/ Invalidate(w) PROVE Mild
  <2>1. work' = work \/ (Writable /\ work'.state = "queued")
    BY <1>6, <1>9 DEF Deliver, Invalidate
  <2> QED
    BY <1>9, <2>1 DEF Deliver, Invalidate, Mild
<1>10. CASE FinishRun \/ RouteCompletion \/ BlockCompletion
  <2>1. work' = work \/ (Writable /\ work'.state = "queued")
    <3>1. CASE RouteCompletion
      BY <3>1 DEF RouteCompletion, Writable, Row
    <3>2. CASE FinishRun \/ BlockCompletion
      BY <3>2 DEF FinishRun, BlockCompletion
    <3> QED
      BY <1>10, <3>1, <3>2
  <2> QED
    BY <1>10, <2>1 DEF FinishRun, RouteCompletion, BlockCompletion, Mild
<1> QED
  BY <1>1, <1>2, <1>3, <1>4, <1>5, <1>6, <1>7, <1>8, <1>9, <1>10 DEF Mail, Outside

(* The tools of a response withdraw completions only. *)
LEMMA ToolsMild ==
  ASSUME IInv, Tools
  PROVE  Mild
<1>1. pc' = pc \/ inbox' = inbox
  BY DEF Tools, Accept, RegisterWait, CancelWait, UpdateGoal, Handoff, StartRun,
         ConfirmCompletion
<1>2. work' = work \/ (Writable /\ work'.state # "completed")
  BY DEF Tools, Accept, RegisterWait, CancelWait, UpdateGoal, Handoff, StartRun, 
         ConfirmCompletion, Row
<1> QED
  BY <1>1, <1>2, KeptMail DEF Mild

(* Staging and consuming inputs withdraws none. *)
LEMMA TurnMild ==
  ASSUME IInv, Turn
  PROVE  Mild
<1>1. CASE Activate
  BY <1>1 DEF Activate, Mild, Writable, Terminal, Row
<1>2. ASSUME NEW S \in SUBSET Input, Restore(S) PROVE Mild
  BY <1>2 DEF Restore, Mild, Marked, Item, Business, Queue
<1>3. ASSUME NEW S \in SUBSET Input, TakeInputs(S) PROVE Mild
  BY <1>3 DEF TakeInputs, Mild, Marked, Item, Business, Queue
<1>4. CASE Respond
  BY <1>4 DEF Respond, Mild, Marked, Item, Business, Queue
<1>5. CASE StartRetire \/ StartAdmit \/ Begin \/ Retire \/ EndBatch
  BY <1>5, KeptMail DEF StartRetire, StartAdmit, Begin, Retire, EndBatch, Mild
<1>6. CASE InputsPreparing \/ YieldSegment
  BY <1>6, KeptMail DEF InputsPreparing, YieldSegment, Elsewhere, Mild
<1> QED
  BY <1>1, <1>2, <1>3, <1>4, <1>5, <1>6 DEF Turn

(* The steps around the commits change neither the row nor the mailbox. *)
LEMMA AroundMild ==
  ASSUME \/ Close \/ SettleRetire \/ Choose \/ Release
         \/ FailDeferred \/ Adopt \/ AdoptRead \/ Fail \/ Crash
         \/ UNCHANGED vars
  PROVE  Mild
<1>1. work' = work /\ inbox' = inbox
  BY DEF Close, SettleRetire, Choose, Release, FailDeferred, Adopt, AdoptRead, Fail, Crash, 
         Elsewhere, vars
<1> QED
  BY <1>1, KeptMail DEF Mild

(* What a commit does to a Work. *)
LEMMA EndingClean ==
  ASSUME IInv, EndingCommit
  PROVE  \/ work' = work /\ inbox' = inbox
         \/ /\ Writable
            /\ work'.state = "completed" => accepted.action = "complete" /\ Business = {} /\ ~Owned
            /\ work'.state = "failed" => Business = {}
<1>1. CASE UNCHANGED <<work, accepted, inbox, waits>>
  BY <1>1
<1>2. ASSUME NEW s \in State, NEW y \in Why \ {"draining"}, NEW segment \in BOOLEAN, Writable,
             s = "completed" => accepted.action = "complete", CommitState(s, y, segment)
      PROVE  /\ Writable
             /\ work'.state = "completed" => accepted.action = "complete" /\ Business = {} /\ ~Owned
             /\ work'.state = "failed" => Business = {}
  <2>1. work' = Outcome(s, y)
    BY <1>2 DEF CommitState
  <2> QED
    BY <1>2, <2>1, OutcomeFacts DEF IInv
<1> QED
  BY <1>1, <1>2, EndingSteps DEF Ends

(* Every step is mild or a commit. *)
LEMMA StepKinds ==
  ASSUME IInv, [Next]_vars
  PROVE  Mild \/ EndingCommit
<1>1. CASE Mail \/ Outside
  BY <1>1, OutsideMild
<1>2. CASE Tools
  BY <1>2, ToolsMild
<1>3. CASE Turn
  BY <1>3, TurnMild
<1>4. CASE Settle
  BY <1>4, AroundMild DEF Settle, EndingCommit
<1>5. CASE Recover
  BY <1>5, AroundMild DEF Recover, EndingCommit
<1>6. CASE Fail \/ Crash \/ UNCHANGED vars
  BY <1>6, AroundMild
<1> QED
  BY <1>1, <1>2, <1>3, <1>4, <1>5, <1>6 DEF Next

(* No settlement or recovery that fails a Work withdraws a message it had    *)
(* admitted.                                                                *)
THEOREM FailureLosesNothing == Spec => FailureKeepsInput
<1>1. ASSUME IInv, [Next]_vars, NEW i \in Business, work'.state = "failed",
             inbox'[i].st = "cancelled"
      PROVE  pc' = pc
  <2>1. CASE Mild
    BY <1>1, <2>1 DEF Mild
  <2>2. CASE EndingCommit
    BY <1>1, <2>2, EndingClean, KeptMail
  <2> QED
    BY <1>1, <2>1, <2>2, StepKinds
<1> DEFINE Step == \A i \in Business :
                      work'.state = "failed" /\ inbox'[i].st = "cancelled" => pc' = pc
<1>2. IInv /\ [Next]_vars => [Step]_vars
  BY <1>1
<1> QED
  BY <1>2, Invariance, PTL DEF Spec, FailureKeepsInput

(* A Work completes only by the decision to complete that is in its row,     *)
(* with an empty mailbox and no run of its own.                             *)
THEOREM CleanCompletion == Spec => CompletesClean
<1>1. ASSUME IInv, [Next]_vars, Finishes
      PROVE  accepted.action = "complete" /\ Business = {} /\ ~Owned
  <2>1. CASE Mild
    BY <1>1, <2>1 DEF Mild, Finishes, Row
  <2>2. CASE EndingCommit
    BY <1>1, <2>2, EndingClean DEF Finishes
  <2> QED
    BY <1>1, <2>1, <2>2, StepKinds
<1>2. IInv /\ [Next]_vars =>
        [Finishes => accepted.action = "complete" /\ Business = {} /\ ~Owned]_vars
  BY <1>1
<1> QED
  BY <1>2, Invariance, PTL DEF Spec, CompletesClean

(* Nothing revives a completed or cancelled Work, and a failed one returns   *)
(* only queued and undecided.                                               *)
THEOREM NoResurrection == Spec => OverIsOver
<1> DEFINE Step == /\ work.state \in {"completed", "cancelled"} => work'.state = work.state
                   /\ work.state = "failed" /\ work' # work
                        => work' = Row("queued", "other") /\ accepted' = Undecided
<1>1. ASSUME IInv, [Next]_vars PROVE Step
  <2>1. CASE Mild
    BY <2>1 DEF Mild, Writable, Terminal
  <2>2. CASE EndingCommit
    BY <1>1, <2>2, EndingClean DEF Writable, Terminal
  <2> QED
    BY <1>1, <2>1, <2>2, StepKinds
<1>2. IInv /\ [Next]_vars => [Step]_vars
  BY <1>1
<1> QED
  BY <1>2, Invariance, PTL DEF Spec, OverIsOver

-----------------------------------------------------------------------------
(* A draining Work                                                         *)

Draining == work.state = "waiting_external" /\ work.why = "draining"

(* What would have woken a draining Work is still there.                   *)
SourceKept == run' = run /\ waits' = waits

(* Only the completion of a Work that owns an execution drains.            *)
LEMMA DrainsOwned ==
  ASSUME IInv, NEW s \in State, NEW y \in Why \ {"draining"}, Outcome(s, y).why = "draining"
  PROVE  Owned
<1> DEFINE g == Settled(s, y)
<1>1. g.why # "draining"
  BY SettledFacts DEF IInv
<1> HIDE DEF g
<1>2. Outcome(s, y) = g \/ Outcome(s, y) = Row("queued", "other") \/ Owned
  BY DEF Outcome, g
<1> QED
  BY <1>1, <1>2 DEF Row

(* Arrivals, signals, runs and the operator: what they do to a Work that is *)
(* draining afterwards.                                                     *)
LEMMA OutsideDrain ==
  ASSUME IInv, Mail \/ Outside, Draining'
  PROVE  /\ work' = work
         /\ SourceKept \/ run' \in {"done", "cancelled"} \/ (waits' = waits /\ Active # {})
<1>1. ~(ResumeWithInput \/ ManageResume \/ HardBoundary
          \/ ManageStop("cancelled") \/ ManageStop("failed"))
  <2>1. work'.state = "waiting_external"
    BY DEF Draining
  <2>2. \A x \in {"queued", "cancelled", "failed"} : work' # Row(x, "other")
    BY <2>1 DEF Row
  <2>3. ~ResumeWithInput /\ ~ManageResume /\ ~HardBoundary
    BY <2>2 DEF ResumeWithInput, ManageResume, HardBoundary
  <2>4. ~ManageStop("cancelled") /\ ~ManageStop("failed")
    BY <2>2 DEF ManageStop
  <2> QED
    BY <2>3, <2>4
<1>2. CASE SeeBinding \/ StageMessage \/ StageReply \/ ClientInput
  BY <1>2 DEF SeeBinding, StageMessage, StageReply, ClientInput, SourceKept
<1>3. ASSUME NEW i \in Input, PrepareInput(i) \/ DiscardInput(i)
      PROVE  work' = work /\ SourceKept
  <2>1. \/ work' = Woken(Waiting) \/ work' = work
        \/ work' = Woken({"waiting_external"})
    BY <1>3, Zenon DEF PrepareInput, DiscardInput
  <2>2. work' = work
    BY <2>1 DEF Woken, Row, Draining
  <2> QED
    BY <1>3, <2>2 DEF PrepareInput, DiscardInput, SourceKept
<1>4. ASSUME NEW w \in Wait, Deliver(w)
      PROVE  FALSE
  <2>1. work' = Woken(Waiting)
    BY <1>4 DEF Deliver
  <2> QED
    BY <2>1 DEF Woken, Row, Draining, Waiting
<1>5. ASSUME NEW w \in Wait, Invalidate(w)
      PROVE  FALSE
  BY <1>5 DEF Invalidate, Terminal, Draining
<1>6. CASE FinishRun
  BY <1>6 DEF FinishRun
<1>7. CASE RouteCompletion
  BY <1>7 DEF RouteCompletion, Row, Draining
<1>8. CASE BlockCompletion
  BY <1>8 DEF BlockCompletion, Terminal, Draining
<1> QED
  BY <1>1, <1>2, <1>3, <1>4, <1>5, <1>6, <1>7, <1>8 DEF Mail, Outside

(* A Work under a busy activation is not draining, so its tools and its     *)
(* turn take no source from it.                                             *)
LEMMA ActiveDrain ==
  ASSUME IInv, Draining',
         \/ Tools \/ Turn \/ Fail \/ Crash \/ UNCHANGED vars
         \/ Close \/ SettleRetire \/ Choose \/ Release
         \/ FailDeferred \/ Adopt \/ AdoptRead
  PROVE  work' = work /\ SourceKept
<1>1. CASE Tools
  <2>1. pc = "tools"
    BY <1>1 DEF Tools, Accept, RegisterWait, CancelWait, UpdateGoal, Handoff, StartRun,
            ConfirmCompletion
  <2>2. work.state # "waiting_external"
    BY <2>1 DEF IInv, Engaged, Busy, Waiting
  <2>3. work' = work \/ work' = Row("running", "other")
    BY <1>1 DEF Tools, Accept, RegisterWait, CancelWait, UpdateGoal, Handoff, StartRun,
            ConfirmCompletion
  <2> QED
    BY <2>2, <2>3 DEF Row, Draining
<1>2. CASE Turn
  <2>1. ~Activate
    BY DEF Activate, Row, Draining
  <2>2. work' = work /\ SourceKept
    BY <1>2, <2>1 DEF Turn, Restore, StartRetire, StartAdmit, Begin, InputsPreparing, TakeInputs,
       Respond, Retire, YieldSegment, EndBatch, Elsewhere, SourceKept
  <2> QED
    BY <2>2
<1>3. CASE Fail \/ Crash \/ UNCHANGED vars
  BY <1>3 DEF Fail, Crash, vars, SourceKept
<1>4. CASE \/ Close \/ SettleRetire \/ Choose \/ Release
           \/ FailDeferred \/ Adopt \/ AdoptRead
  BY <1>4 DEF Close, SettleRetire, Choose, Release, FailDeferred, Adopt, AdoptRead, Elsewhere,
     SourceKept
<1> QED
  BY <1>1, <1>2, <1>3, <1>4

(* A commit makes a Work drain only while it owns an execution.             *)
LEMMA EndingDrain ==
  ASSUME IInv, EndingCommit, Draining'
  PROVE  run' = run /\ (Owned \/ (work' = work /\ waits' = waits))
<1>1. run' = run /\ Ends
  BY EndingSteps
<1>2. CASE UNCHANGED <<work, accepted, inbox, waits>>
  BY <1>1, <1>2
<1>3. ASSUME NEW s \in State, NEW y \in Why \ {"draining"}, NEW segment \in BOOLEAN,
             CommitState(s, y, segment)
      PROVE  Owned
  <2>1. Outcome(s, y).why = "draining"
    BY <1>3 DEF CommitState, Draining
  <2> QED
    BY <2>1, DrainsOwned
<1> QED
  BY <1>1, <1>2, <1>3 DEF Ends

LEMMA DrainStep ==
  ASSUME IInv, DrainedBehindWait, [Next]_vars
  PROVE  DrainedBehindWait'
<1> SUFFICES ASSUME Draining', ~Owned'
             PROVE  run' \in {"done", "cancelled"} \/ Active' # {}
  BY DEF DrainedBehindWait, Draining
<1>1. waits' = waits => Active' = Active
  BY DEF Active
<1>2. CASE Mail \/ Outside
  <2>1. work' = work /\ (SourceKept \/ run' \in {"done", "cancelled"} \/ (waits' = waits /\ Active # {}))
    BY <1>2, OutsideDrain
  <2> QED
    BY <1>1, <2>1 DEF SourceKept, DrainedBehindWait, Draining, Owned
<1>3. CASE EndingCommit
  <2>1. run' = run /\ (Owned \/ (work' = work /\ waits' = waits))
    BY <1>3, EndingDrain
  <2> QED
    BY <1>1, <2>1 DEF DrainedBehindWait, Draining, Owned
<1>4. CASE \/ Tools \/ Turn \/ Fail \/ Crash \/ UNCHANGED vars
           \/ Close \/ SettleRetire \/ Choose \/ Release
           \/ FailDeferred \/ Adopt \/ AdoptRead
  <2>1. work' = work /\ SourceKept
    BY <1>4, ActiveDrain
  <2> QED
    BY <1>1, <2>1 DEF SourceKept, DrainedBehindWait, Draining, Owned
<1> QED
  BY <1>2, <1>3, <1>4 DEF Next, Settle, Recover, EndingCommit

(* A Work that decided to complete and only drains what it started has the   *)
(* completion of that execution to wake it, unless a wait of an earlier     *)
(* decision is still active.                                                *)
THEOREM DrainsToItsEnd == Spec => []DrainedBehindWait
<1>1. Init => DrainedBehindWait
  BY DEF Init, DrainedBehindWait, Row
<1>2. IInv /\ DrainedBehindWait /\ [Next]_vars => DrainedBehindWait'
  BY DrainStep
<1> QED
  BY <1>1, <1>2, Invariance, PTL DEF Spec

=============================================================================
