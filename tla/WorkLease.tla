------------------------------ MODULE WorkLease ------------------------------
(***************************************************************************)
(* The scope lease of one conversation (runtime/work_repository.py), its   *)
(* heartbeat (runtime/lease_heartbeat.py) and the activation bracket that  *)
(* owns both (runtime/work_activation.py).                                 *)
(*                                                                         *)
(* `row' is the conversation's row of runtime_work_scopes, `canon' its     *)
(* canonical generation, both as committed.  A writer transaction is two   *)
(* steps: an ...Exec action runs its SQL after BEGIN IMMEDIATE and leaves  *)
(* the uncommitted result in `txn', then it commits or rolls back.  Time   *)
(* passes, readers read and the process may die in between; no other       *)
(* writer runs, because txn is not free.                                   *)
(***************************************************************************)
EXTENDS Naturals

CONSTANTS
    Activation,     \* activations; each has its own owner uuid
    NoOwner,        \* SQL NULL in the owner column
    Seconds,        \* the lease duration
    MaxTime,        \* bound on the clock
    MaxGeneration   \* bound on the canonical generation

ASSUME LeaseAssumption ==
    /\ NoOwner \notin Activation
    /\ Seconds \in Nat \ {0}
    /\ MaxTime \in Nat
    /\ MaxGeneration \in Nat \ {0}

VARIABLES
    now,        \* the host clock, which SQLite's julianday('now') also reads
    canon,      \* canonical generation; 0 once a private conversation is deleted
    row,        \* the committed scope row; NoRow when there is none
    txn,        \* the open IMMEDIATE transaction, or NoTxn
    data,       \* the activation whose fenced write was committed last
    pc,         \* control state of an activation
    want,       \* the generation an acquire was called with
    lease,      \* the WorkLease an activation was given
    hb,         \* control state of its heartbeat task
    started,    \* the heartbeat's clock sample before its renew call
    deadline    \* the heartbeat's last confirmed expiry

vars == <<now, canon, row, txn, data, pc, want, lease, hb, started, deadline>>

Owner == Activation \cup {NoOwner}

Row == [gen : Nat, epoch : Nat, fence : Nat, owner : Owner, until : Nat]

NoRow == [gen |-> 0, epoch |-> 0, fence |-> 0, owner |-> NoOwner, until |-> 0]

Lease == [gen : Nat, epoch : Nat, fence : Nat, owner : Owner]

NoLease == [gen |-> 0, epoch |-> 0, fence |-> 0, owner |-> NoOwner]

TxnKind == {"none", "acquire", "renew", "write", "release", "boundary"}

NoTxn == [kind |-> "none", who |-> NoOwner, row |-> NoRow, canon |-> 0]

Free == txn.kind = "none"

Open(kind, a, newRow, newCanon) ==
    txn' = [kind |-> kind, who |-> a, row |-> newRow, canon |-> newCanon]

-----------------------------------------------------------------------------
Init ==
    /\ now = 0
    /\ canon = 1
    /\ row = NoRow
    /\ txn = NoTxn
    /\ data = NoOwner
    /\ pc = [a \in Activation |-> "idle"]
    /\ want = [a \in Activation |-> 0]
    /\ lease = [a \in Activation |-> NoLease]
    /\ hb = [a \in Activation |-> "off"]
    /\ started = [a \in Activation |-> 0]
    /\ deadline = [a \in Activation |-> 0]

Tick ==
    /\ now < MaxTime
    /\ now' = now + 1
    /\ UNCHANGED <<canon, row, txn, data, pc, want, lease, hb, started, deadline>>

(***************************************************************************)
(* _fence: the row still names this lease, and SQL time is before expiry.  *)
(***************************************************************************)
Fenced(l) ==
    /\ row.gen = l.gen
    /\ row.epoch = l.epoch
    /\ row.fence = l.fence
    /\ row.owner = l.owner
    /\ row.until > now

-----------------------------------------------------------------------------
(* acquire *)

(* Mutant: only a released scope can be acquired, a lapsed lease never is.  *)
AcquireReadReleased(a) ==
    /\ pc[a] = "idle"
    /\ canon # 0
    /\ row = NoRow \/ (row.gen = canon /\ row.owner = NoOwner)
    /\ want' = [want EXCEPT ![a] = canon]
    /\ pc' = [pc EXCEPT ![a] = "acquiring"]
    /\ UNCHANGED <<now, canon, row, txn, data, lease, hb, started, deadline>>

(* The read-only rejection fast path; passing it permits nothing yet. *)
AcquireRead(a) ==
    /\ pc[a] = "idle"
    /\ canon # 0
    /\ row = NoRow \/ (row.gen = canon /\ row.until <= now)
    /\ want' = [want EXCEPT ![a] = canon]
    /\ pc' = [pc EXCEPT ![a] = "acquiring"]
    /\ UNCHANGED <<now, canon, row, txn, data, lease, hb, started, deadline>>

(* The conflict branch of the upsert: same generation, lease lapsed. *)
Acquirable(g) == row.gen = g /\ row.until <= now

Granted(a, g) ==
    IF row = NoRow
      THEN [gen |-> g, epoch |-> 0, fence |-> 1, owner |-> a, until |-> now + Seconds]
      ELSE [row EXCEPT !.owner = a, !.until = now + Seconds, !.fence = @ + 1]

AcquireExec(a) ==
    /\ pc[a] = "acquiring" /\ Free
    /\ canon = want[a]
    /\ row = NoRow \/ Acquirable(want[a])
    /\ Open("acquire", a, Granted(a, want[a]), canon)
    /\ UNCHANGED <<now, canon, row, data, pc, want, lease, hb, started, deadline>>

(* The upsert returned no row: acquire returns None and may be tried again. *)
AcquireMiss(a) ==
    /\ pc[a] = "acquiring" /\ Free
    /\ ~ (canon = want[a] /\ (row = NoRow \/ Acquirable(want[a])))
    /\ pc' = [pc EXCEPT ![a] = "idle"]
    /\ want' = [want EXCEPT ![a] = 0]
    /\ UNCHANGED <<now, canon, row, txn, data, lease, hb, started, deadline>>

(* The lease is either returned to the caller, or the caller was cancelled  *)
(* while the commit completed and the granted lease has nobody to release it.*)
AcquireCommit(a) ==
    /\ txn.kind = "acquire" /\ txn.who = a
    /\ row' = txn.row
    /\ txn' = NoTxn
    /\ lease' = [lease EXCEPT ![a] = [gen |-> txn.row.gen, epoch |-> txn.row.epoch,
                                      fence |-> txn.row.fence, owner |-> a]]
    /\ \/ /\ pc' = [pc EXCEPT ![a] = "run"]
          /\ hb' = [hb EXCEPT ![a] = "start"]
       \/ /\ pc' = [pc EXCEPT ![a] = "dead"]
          /\ UNCHANGED hb
    /\ want' = [want EXCEPT ![a] = 0]
    /\ UNCHANGED <<now, canon, data, started, deadline>>

-----------------------------------------------------------------------------
(* lease_heartbeat *)

(* The heartbeat task raises; its local clock values end with it. *)
HbFail(a) ==
    /\ hb' = [hb EXCEPT ![a] = "failed"]
    /\ started' = [started EXCEPT ![a] = 0]
    /\ deadline' = [deadline EXCEPT ![a] = 0]

(* deadline = await expiry() *)
HbExpiry(a) ==
    /\ hb[a] = "start"
    /\ IF Fenced(lease[a])
         THEN /\ deadline' = [deadline EXCEPT ![a] = row.until]
              /\ hb' = [hb EXCEPT ![a] = "sleep"]
              /\ UNCHANGED started
         ELSE HbFail(a)
    /\ UNCHANGED <<now, canon, row, txn, data, pc, want, lease>>

(* Sample the clock, give up past the deadline, then renew's valid() read. *)
HbWake(a) ==
    /\ hb[a] = "sleep"
    /\ IF now < deadline[a] /\ Fenced(lease[a])
         THEN /\ started' = [started EXCEPT ![a] = now]
              /\ hb' = [hb EXCEPT ![a] = "renewing"]
              /\ UNCHANGED deadline
         ELSE HbFail(a)
    /\ UNCHANGED <<now, canon, row, txn, data, pc, want, lease>>

(* asyncio.timeout(remaining) fires while renew waits for the writer. *)
HbTimeout(a) ==
    /\ hb[a] = "renewing"
    /\ now >= deadline[a]
    /\ HbFail(a)
    /\ UNCHANGED <<now, canon, row, txn, data, pc, want, lease>>

(* The fenced UPDATE of renew; it touches no row once the fence is gone. *)
RenewExec(a) ==
    /\ hb[a] = "renewing" /\ Free
    /\ IF Fenced(lease[a])
         THEN /\ Open("renew", a, [row EXCEPT !.until = now + Seconds], canon)
              /\ hb' = [hb EXCEPT ![a] = "txn"]
              /\ UNCHANGED <<started, deadline>>
         ELSE HbFail(a) /\ UNCHANGED txn
    /\ UNCHANGED <<now, canon, row, data, pc, want, lease>>

(* Mutant: the clock is sampled after the renewal was committed. *)
RenewCommitLateSample(a) ==
    /\ txn.kind = "renew" /\ txn.who = a
    /\ row' = txn.row
    /\ txn' = NoTxn
    /\ \/ /\ deadline' = [deadline EXCEPT ![a] = now + Seconds]
          /\ hb' = [hb EXCEPT ![a] = "sleep"]
          /\ started' = [started EXCEPT ![a] = 0]
       \/ now >= deadline[a] /\ HbFail(a)
    /\ UNCHANGED <<now, canon, data, pc, want, lease>>

(* deadline = started + seconds, unless the timeout fired while the commit  *)
(* completed or the activation already cancelled its heartbeat.             *)
RenewCommit(a) ==
    /\ txn.kind = "renew" /\ txn.who = a
    /\ row' = txn.row
    /\ txn' = NoTxn
    /\ \/ /\ deadline' = [deadline EXCEPT ![a] = started[a] + Seconds]
          /\ hb' = [hb EXCEPT ![a] = "sleep"]
          /\ started' = [started EXCEPT ![a] = 0]
       \/ now >= deadline[a] /\ HbFail(a)
    /\ UNCHANGED <<now, canon, data, pc, want, lease>>

-----------------------------------------------------------------------------
(* The activation *)

(* A session of the activation itself is open; its coroutine waits for it. *)
Writing(a) == ~Free /\ txn.who = a /\ txn.kind # "renew"

(* Mutant: the lease was checked before the transaction, not inside it. *)
WriteExecUnchecked(a) ==
    /\ pc[a] \in {"run", "closing"} /\ Free
    /\ Open("write", a, row, canon)
    /\ UNCHANGED <<now, canon, row, data, pc, want, lease, hb, started, deadline>>

(* Any mutation of the repository: _assert_lease inside its own writer      *)
(* transaction.  A refusal is WorkConflict and ends the activation.         *)
WriteExec(a) ==
    /\ pc[a] \in {"run", "closing"} /\ Free
    /\ IF Fenced(lease[a])
         THEN Open("write", a, row, canon) /\ UNCHANGED pc
         ELSE pc' = [pc EXCEPT ![a] = "closing"] /\ UNCHANGED txn
    /\ UNCHANGED <<now, canon, row, data, want, lease, hb, started, deadline>>

WriteCommit(a) ==
    /\ txn.kind = "write" /\ txn.who = a
    /\ data' = a
    /\ txn' = NoTxn
    /\ UNCHANGED <<now, canon, row, pc, want, lease, hb, started, deadline>>

(* The body of the bracket ends: it finished, failed, or its heartbeat      *)
(* failed and cancelled it.                                                 *)
EndRun(a) ==
    /\ pc[a] = "run" /\ ~Writing(a)
    /\ pc' = [pc EXCEPT ![a] = "closing"]
    /\ UNCHANGED <<now, canon, row, txn, data, want, lease, hb, started, deadline>>

(* supervise_lease joins the heartbeat before the bracket may release.      *)
HbJoin(a) ==
    /\ pc[a] = "closing" /\ hb[a] \notin {"off", "txn"}
    /\ hb' = [hb EXCEPT ![a] = "off"]
    /\ started' = [started EXCEPT ![a] = 0]
    /\ deadline' = [deadline EXCEPT ![a] = 0]
    /\ UNCHANGED <<now, canon, row, txn, data, pc, want, lease>>

(* release: nothing to do for a lease that is no longer valid. *)
ReleaseRead(a) ==
    /\ pc[a] = "closing" /\ hb[a] = "off" /\ ~Writing(a)
    /\ pc' = [pc EXCEPT ![a] = IF Fenced(lease[a]) THEN "releasing" ELSE "done"]
    /\ UNCHANGED <<now, canon, row, txn, data, want, lease, hb, started, deadline>>

Released ==
    [gen |-> row.gen, epoch |-> row.epoch, fence |-> row.fence,
     owner |-> NoOwner, until |-> 0]

ReleaseExec(a) ==
    /\ pc[a] = "releasing" /\ Free
    /\ IF Fenced(lease[a])
         THEN /\ Open("release", a, Released, canon)
              /\ UNCHANGED pc
         ELSE pc' = [pc EXCEPT ![a] = "done"] /\ UNCHANGED txn
    /\ UNCHANGED <<now, canon, row, data, want, lease, hb, started, deadline>>

ReleaseCommit(a) ==
    /\ txn.kind = "release" /\ txn.who = a
    /\ row' = txn.row
    /\ txn' = NoTxn
    /\ pc' = [pc EXCEPT ![a] = "done"]
    /\ UNCHANGED <<now, canon, data, want, lease, hb, started, deadline>>

-----------------------------------------------------------------------------
(* Hard boundaries, by other callers *)

(* cancel_in_session on the conversation's scope row, if it has one. *)
Cancelled(g) ==
    IF row = NoRow THEN NoRow
    ELSE [gen |-> g, epoch |-> row.epoch + 1, fence |-> row.fence + 1,
          owner |-> NoOwner, until |-> 0]

(* bump_canonical_generation *)
BumpExec ==
    /\ Free /\ canon \in 1 .. (MaxGeneration - 1)
    /\ Open("boundary", NoOwner, Cancelled(canon + 1), canon + 1)
    /\ UNCHANGED <<now, canon, row, data, pc, want, lease, hb, started, deadline>>

(* Mutant: the purge keeps the shared conversation in its generation. *)
PurgeExecSameGeneration ==
    /\ Free /\ canon # 0
    /\ Open("boundary", NoOwner, NoRow, canon)
    /\ UNCHANGED <<now, canon, row, data, pc, want, lease, hb, started, deadline>>

(* A privacy purge deletes the scope row; a shared conversation continues   *)
(* in its next generation, a private one is deleted.                        *)
PurgeExec ==
    /\ Free /\ canon # 0
    /\ \/ canon < MaxGeneration /\ Open("boundary", NoOwner, NoRow, canon + 1)
       \/ Open("boundary", NoOwner, NoRow, 0)
    /\ UNCHANGED <<now, canon, row, data, pc, want, lease, hb, started, deadline>>

BoundaryCommit ==
    /\ txn.kind = "boundary"
    /\ row' = txn.row
    /\ canon' = txn.canon
    /\ txn' = NoTxn
    /\ UNCHANGED <<now, data, pc, want, lease, hb, started, deadline>>

-----------------------------------------------------------------------------
(* A transaction fails and rolls back.  An acquire may be tried again, a    *)
(* release is left to expiry, a renewal retries SQLITE_BUSY or gives up.    *)
Rollback ==
    /\ ~Free
    /\ txn' = NoTxn
    /\ pc' = [a \in Activation |->
                IF a # txn.who THEN pc[a]
                ELSE CASE txn.kind = "acquire" -> "idle"
                       [] txn.kind = "release" -> "done"
                       [] OTHER -> pc[a]]
    /\ want' = [a \in Activation |-> IF a = txn.who THEN 0 ELSE want[a]]
    /\ IF txn.kind = "renew"
         THEN \/ /\ hb' = [hb EXCEPT ![txn.who] = "sleep"]
                 /\ started' = [started EXCEPT ![txn.who] = 0]
                 /\ UNCHANGED deadline
              \/ HbFail(txn.who)
         ELSE UNCHANGED <<hb, started, deadline>>
    /\ UNCHANGED <<now, canon, row, data, lease>>

(* The process dies: every activation in it is gone, its lease stays behind.*)
(* An acquire that had not committed left nothing; the next process retries. *)
Crash ==
    /\ \E a \in Activation : pc[a] \in {"acquiring", "run", "closing", "releasing"}
    /\ txn' = NoTxn
    /\ pc' = [a \in Activation |->
                CASE pc[a] \in {"idle", "acquiring"} -> "idle"
                  [] pc[a] = "done" -> "done"
                  [] OTHER -> "dead"]
    /\ hb' = [a \in Activation |-> "off"]
    /\ want' = [a \in Activation |-> 0]
    /\ started' = [a \in Activation |-> 0]
    /\ deadline' = [a \in Activation |-> 0]
    /\ UNCHANGED <<now, canon, row, data, lease>>

Heartbeat(a) ==
    HbExpiry(a) \/ HbWake(a) \/ HbTimeout(a) \/ RenewExec(a) \/ RenewCommit(a)

Activate(a) ==
    \/ AcquireRead(a) \/ AcquireExec(a) \/ AcquireMiss(a) \/ AcquireCommit(a)
    \/ WriteExec(a) \/ WriteCommit(a) \/ EndRun(a) \/ HbJoin(a)
    \/ ReleaseRead(a) \/ ReleaseExec(a) \/ ReleaseCommit(a)

Boundary == BumpExec \/ PurgeExec \/ BoundaryCommit

Next ==
    \/ Tick \/ Boundary \/ Rollback \/ Crash
    \/ \E a \in Activation : Heartbeat(a) \/ Activate(a)

Spec == Init /\ [][Next]_vars

-----------------------------------------------------------------------------
(* Properties *)

(* Every variable stays in its domain. *)
TypeOK ==
    /\ now \in Nat
    /\ canon \in Nat
    /\ row \in Row
    /\ txn \in [kind : TxnKind, who : Owner, row : Row, canon : Nat]
    /\ data \in Owner
    /\ pc \in [Activation -> {"idle", "acquiring", "run", "closing", "releasing",
                              "done", "dead"}]
    /\ want \in [Activation -> Nat]
    /\ lease \in [Activation -> Lease]
    /\ hb \in [Activation -> {"off", "start", "sleep", "renewing", "txn", "failed"}]
    /\ started \in [Activation -> Nat]
    /\ deadline \in [Activation -> Nat]

HasLease(a) == lease[a] # NoLease

(* A heartbeat that has confirmed a deadline which has not passed: the      *)
(* activation believes that the conversation is its own.                    *)
Believes(a) ==
    /\ pc[a] = "run"
    /\ hb[a] \in {"sleep", "renewing", "txn"}
    /\ now < deadline[a]

(* A hard boundary has taken the lease away. *)
Severed(a) ==
    lease[a].gen # row.gen \/ lease[a].epoch # row.epoch

(* Two activations that a hard boundary has not severed never both believe  *)
(* that they own the conversation: the deadline that lease_heartbeat        *)
(* computes from its own clock sample never outlives the committed          *)
(* lease_until that acquire compares, whatever the writer queue delays.     *)
ExclusiveExecution ==
    \A a, b \in Activation :
        Believes(a) /\ Believes(b) /\ a # b => Severed(a) \/ Severed(b)

(* No two grants of a conversation carry the same (generation, fence),      *)
(* although a privacy purge restarts the fence at 1: a fencing token that a *)
(* receipt or an effect carries names one activation for ever.              *)
TokensUnique ==
    \A a, b \in Activation :
        HasLease(a) /\ HasLease(b) /\ a # b
            => <<lease[a].gen, lease[a].fence>> # <<lease[b].gen, lease[b].fence>>

(* The holder of the scope, as any reader of the committed row sees it. *)
Holder == row.owner

Retired == {a \in Activation : HasLease(a) /\ row.owner # a}

FL == INSTANCE FencedLease WITH holder <- Holder, retired <- Retired

(* The scope row, its fence and the writer lock implement FencedLease: only *)
(* the holder's writes are committed, and an activation that lost the scope *)
(* to expiry, a boundary or a purge never writes again, even when it        *)
(* entered its transaction just before.                                     *)
Implements == FL!Spec

-----------------------------------------------------------------------------
(* Time passes; transactions that are not refused commit in the end; a      *)
(* scheduler that finds the scope free tries to acquire it.                 *)
Fairness ==
    /\ WF_vars(Tick)
    /\ SF_vars(BoundaryCommit)
    /\ \A a \in Activation :
        /\ WF_vars(AcquireRead(a)) /\ SF_vars(AcquireExec(a))
        /\ WF_vars(AcquireMiss(a)) /\ SF_vars(AcquireCommit(a))
        /\ WF_vars(RenewCommit(a)) /\ WF_vars(WriteCommit(a))
        /\ WF_vars(ReleaseCommit(a))

LiveSpec == Spec /\ Fairness

(* A lease that its process left behind does not block the conversation:    *)
(* with an activation to spare and the lease's time to run out, the scope   *)
(* passes on.  The bound on the clock is why the premise mentions MaxTime.  *)
AbandonedLeaseReclaimed ==
    \A a \in Activation :
        (/\ pc[a] = "dead" /\ row.owner = a
         /\ now + Seconds <= MaxTime
         /\ \E b \in Activation : pc[b] = "idle")
        ~> (row.owner # a)
=============================================================================
