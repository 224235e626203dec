--------------------------- MODULE WorkLeaseProofs ---------------------------
(***************************************************************************)
(* Proofs about WorkLease for any number of activations, any lease         *)
(* duration and any bounds: type correctness, ExclusiveExecution,          *)
(* TokensUnique, and that WorkLease implements FencedLease.                *)
(*                                                                         *)
(* None of the three is inductive.  IInv adds what an open transaction     *)
(* knows about the committed row (TxnInv), how granted tokens are ordered  *)
(* before the row's (TokenInv), and how a heartbeat's deadline relates to  *)
(* lease_until (HeartbeatInv).                                             *)
(***************************************************************************)
EXTENDS WorkLease, TLAPS

Clocked(a) == hb[a] \in {"sleep", "renewing", "txn"}

(* The row, when there is one, is of the canonical generation. *)
RowInv ==
    /\ row = NoRow \/ (row.gen = canon /\ row.fence # 0 /\ canon # 0)
    /\ row.until <= now + Seconds
    /\ row.owner # NoOwner => /\ lease[row.owner].gen = row.gen
                              /\ lease[row.owner].epoch = row.epoch
                              /\ lease[row.owner].fence = row.fence
                              /\ lease[row.owner].owner = row.owner

(* A granted lease names its activation, and never a token ahead of the row.*)
TokenInv ==
    \A a \in Activation :
        lease[a] = NoLease \/
        /\ lease[a].owner = a
        /\ lease[a].gen # 0
        /\ \/ canon = 0
           \/ lease[a].gen < canon
           \/ /\ lease[a].gen = canon
              /\ row # NoRow
              /\ lease[a].fence <= row.fence
              /\ lease[a].epoch <= row.epoch

ControlInv ==
    \A a \in Activation :
        /\ pc[a] \in {"idle", "acquiring"} <=> lease[a] = NoLease
        /\ pc[a] = "acquiring" => want[a] # 0
        /\ hb[a] # "off" => pc[a] \in {"run", "closing"}
        /\ hb[a] = "txn" <=> txn.kind = "renew" /\ txn.who = a

(* What the open transaction read is still so when it commits. *)
TxnInv ==
    /\ txn.kind = "none" => txn = NoTxn
    /\ txn.kind = "acquire" =>
        /\ txn.who \in Activation
        /\ pc[txn.who] = "acquiring"
        /\ canon # 0 /\ row.until <= now
        /\ txn.row.owner = txn.who /\ txn.row.gen = canon
        /\ txn.row.epoch = row.epoch /\ txn.row.fence = row.fence + 1
        /\ txn.row.until <= now + Seconds
    /\ txn.kind = "renew" =>
        /\ txn.who \in Activation /\ row.owner = txn.who
        /\ txn.row = [row EXCEPT !.until = txn.row.until]
        /\ txn.row.until <= now + Seconds
        /\ row.until <= txn.row.until
        /\ started[txn.who] + Seconds <= txn.row.until
    /\ txn.kind = "write" => txn.who \in Activation /\ row.owner = txn.who
    /\ txn.kind = "release" =>
        /\ txn.who \in Activation /\ row.owner = txn.who
        /\ pc[txn.who] = "releasing"
        /\ txn.row = Released
    /\ txn.kind = "boundary" =>
        /\ canon # 0 /\ txn.who = NoOwner
        /\ \/ txn.row = NoRow /\ txn.canon \in {0, canon + 1}
           \/ /\ row # NoRow /\ txn.canon = canon + 1
              /\ txn.row = [gen |-> canon + 1, epoch |-> row.epoch + 1,
                            fence |-> row.fence + 1, owner |-> NoOwner, until |-> 0]

(* A deadline is covered by the row while the activation owns it, and has   *)
(* passed when it lost the row to anything but a hard boundary.             *)
HeartbeatInv ==
    \A a \in Activation :
        /\ hb[a] \in {"renewing", "txn"} => started[a] <= now
        /\ Clocked(a) /\ row.owner = a => deadline[a] <= row.until
        /\ Clocked(a) /\ row.owner # a => Severed(a) \/ deadline[a] <= now

IInv ==
    /\ TypeOK
    /\ RowInv
    /\ TokenInv
    /\ TokensUnique
    /\ ControlInv
    /\ TxnInv
    /\ HeartbeatInv

-----------------------------------------------------------------------------
USE LeaseAssumption

(* The initial state satisfies the inductive invariant. *)
LEMMA InitInv == Init => IInv
  BY DEF Init, IInv, TypeOK, RowInv, TokenInv, TokensUnique, ControlInv, TxnInv,
         HeartbeatInv, Clocked, HasLease, Severed, Owner, Row, NoRow, Lease, NoLease,
         TxnKind, NoTxn

(* The upsert's row, whichever of its branches wrote it. *)
LEMMA GrantedRow ==
  ASSUME TypeOK, NEW a \in Activation, NEW g \in Nat, row = NoRow \/ row.gen = g
  PROVE  /\ Granted(a, g) \in Row
         /\ Granted(a, g).gen = g /\ Granted(a, g).owner = a
         /\ Granted(a, g).epoch = row.epoch
         /\ Granted(a, g).fence = row.fence + 1
         /\ Granted(a, g).until = now + Seconds
<1>1. CASE row = NoRow
  BY <1>1 DEF Granted, TypeOK, Row, Owner, NoRow
<1>2. CASE row # NoRow
  <2>1. Granted(a, g) = [gen |-> row.gen, epoch |-> row.epoch, fence |-> row.fence + 1,
                         owner |-> a, until |-> now + Seconds]
    BY <1>2 DEF Granted, TypeOK, Row
  <2> QED
    BY <1>2, <2>1 DEF TypeOK, Row, Owner
<1> QED
  BY <1>1, <1>2

(* The fence lets only the row's owner through, and only once it was granted.*)
LEMMA FencedOwner ==
  ASSUME IInv, NEW a \in Activation, pc[a] \notin {"idle", "acquiring"},
         Fenced(lease[a])
  PROVE  row.owner = a
  BY DEF IInv, TokenInv, ControlInv, Fenced

(* The rows that renew and release write differ from the row in few columns.*)
LEMMA UpdatedRow ==
  ASSUME TypeOK
  PROVE  [row EXCEPT !.until = now + Seconds] \in Row /\ Released \in Row
<1>1. [row EXCEPT !.until = now + Seconds]
        = [gen |-> row.gen, epoch |-> row.epoch, fence |-> row.fence,
           owner |-> row.owner, until |-> now + Seconds]
  BY DEF TypeOK, Row
<1> QED
  BY <1>1 DEF Released, TypeOK, Row, Owner

(* The clock: deadlines and lease_until only come closer. *)
LEMMA TickInv ==
  ASSUME IInv, Tick
  PROVE  IInv'
<1>1. TypeOK'
  BY DEF Tick, IInv, TypeOK, Owner, Row, Lease, TxnKind
<1>2. RowInv'
  BY DEF Tick, IInv, RowInv, NoRow, TypeOK, Owner, Row, Lease, TxnKind
<1>3. TxnInv'
  BY DEF Tick, IInv, TxnInv, NoTxn, Released, ControlInv, RowInv, NoRow,
        TypeOK, Owner, Row, Lease, TxnKind
<1>4. HeartbeatInv'
  BY DEF Tick, IInv, HeartbeatInv, Clocked, Severed, TypeOK, Owner, Row,
        Lease, TxnKind
<1>5. TokenInv' /\ TokensUnique' /\ ControlInv'
  BY DEF Tick, IInv, TokenInv, NoRow, NoLease, TokensUnique, HasLease,
        ControlInv
<1> QED
  BY <1>1, <1>2, <1>3, <1>4, <1>5 DEF IInv

(* The fast path of acquire reads, and decides nothing. *)
LEMMA AcquireReadInv ==
  ASSUME IInv, NEW a \in Activation, AcquireRead(a)
  PROVE  IInv'
<1>1. TypeOK'
  BY DEF AcquireRead, IInv, TypeOK, Owner, Row, Lease, TxnKind
<1>2. ControlInv'
  BY DEF AcquireRead, IInv, ControlInv, NoLease, NoTxn, TypeOK, Owner, Row,
        Lease, TxnKind
<1>3. TxnInv'
  BY DEF AcquireRead, IInv, TxnInv, NoTxn, Released, ControlInv, RowInv,
        NoRow, TypeOK, Owner, Row, Lease, TxnKind
<1>4. RowInv' /\ TokenInv' /\ TokensUnique' /\ HeartbeatInv'
  BY DEF AcquireRead, IInv, RowInv, NoRow, TokenInv, NoLease, TokensUnique,
        HasLease, HeartbeatInv, Clocked, Severed
<1> QED
  BY <1>1, <1>2, <1>3, <1>4 DEF IInv

(* The upsert of acquire finds the lease lapsed and takes the next fence. *)
LEMMA AcquireExecInv ==
  ASSUME IInv, NEW a \in Activation, AcquireExec(a)
  PROVE  IInv'
<1>1. TypeOK'
  <2>1. Granted(a, want[a]) \in Row
    BY GrantedRow DEF AcquireExec, Acquirable, IInv, TypeOK
  <2> QED
    BY <2>1 DEF AcquireExec, Open, IInv, TypeOK, TxnKind, Owner
<1>2. ControlInv'
  BY DEF AcquireExec, IInv, ControlInv, NoLease, NoTxn, Free, Open, Granted,
        Acquirable, TypeOK, Owner, Row, Lease, TxnKind
<1>3. TxnInv'
  <2> DEFINE r == Granted(a, want[a])
  <2>1. /\ r.gen = want[a] /\ r.owner = a /\ r.epoch = row.epoch
        /\ r.fence = row.fence + 1 /\ r.until = now + Seconds
    BY GrantedRow DEF AcquireExec, Acquirable, IInv, TypeOK
  <2>2. row.until <= now /\ canon # 0
    BY DEF AcquireExec, Acquirable, NoRow, IInv, TypeOK, ControlInv
  <2>3. txn' = [kind |-> "acquire", who |-> a, row |-> r, canon |-> canon]
    BY DEF AcquireExec, Open
  <2> HIDE DEF r
  <2> QED
    BY <2>1, <2>2, <2>3 DEF AcquireExec, TxnInv, IInv, TypeOK
<1>4. RowInv' /\ TokenInv' /\ TokensUnique' /\ HeartbeatInv'
  BY DEF AcquireExec, IInv, RowInv, NoRow, TokenInv, NoLease, TokensUnique,
        HasLease, HeartbeatInv, Clocked, Severed
<1> QED
  BY <1>1, <1>2, <1>3, <1>4 DEF IInv

(* The upsert of acquire that matches no row. *)
LEMMA AcquireMissInv ==
  ASSUME IInv, NEW a \in Activation, AcquireMiss(a)
  PROVE  IInv'
<1>1. TypeOK'
  BY DEF AcquireMiss, IInv, TypeOK, Owner, Row, Lease, TxnKind, Free,
        Acquirable
<1>2. ControlInv'
  BY DEF AcquireMiss, IInv, ControlInv, NoLease, NoTxn, Free, Acquirable,
        TypeOK, Owner, Row, Lease, TxnKind
<1>3. TxnInv'
  BY DEF AcquireMiss, IInv, TxnInv, NoTxn, Released, ControlInv, Free,
        Acquirable, RowInv, NoRow, TypeOK, Owner, Row, Lease, TxnKind
<1>4. RowInv' /\ TokenInv' /\ TokensUnique' /\ HeartbeatInv'
  BY DEF AcquireMiss, IInv, RowInv, NoRow, TokenInv, NoLease, TokensUnique,
        HasLease, HeartbeatInv, Clocked, Severed
<1> QED
  BY <1>1, <1>2, <1>3, <1>4 DEF IInv

(* The grant: whoever held the row before has outlived its deadline. *)
LEMMA AcquireCommitInv ==
  ASSUME IInv, NEW a \in Activation, AcquireCommit(a)
  PROVE  IInv'
<1>1. TypeOK'
  BY DEF AcquireCommit, IInv, TypeOK, Owner, Row, Lease, TxnKind, NoTxn,
        NoRow, TxnInv
<1>2. RowInv'
  BY DEF AcquireCommit, IInv, RowInv, NoRow, NoTxn, TxnInv, ControlInv,
        TokenInv, NoLease, TypeOK, Owner, Row, Lease, TxnKind
<1>3. TokenInv'
  BY DEF AcquireCommit, IInv, TokenInv, NoRow, NoLease, NoTxn, TxnInv, RowInv,
        ControlInv, TypeOK, Owner, Row, Lease, TxnKind
<1>4. TokensUnique'
  BY DEF AcquireCommit, IInv, TokensUnique, HasLease, NoTxn, TxnInv, RowInv,
        ControlInv, TokenInv, NoLease, NoRow, TypeOK, Owner, Row, Lease,
        TxnKind
<1>5. ControlInv'
  BY DEF AcquireCommit, IInv, ControlInv, NoLease, NoTxn, TxnInv, RowInv,
        TokenInv, NoRow, TypeOK, Owner, Row, Lease, TxnKind
<1>6. TxnInv'
  BY DEF AcquireCommit, IInv, TxnInv, NoTxn, Released, ControlInv, RowInv,
        TokenInv, NoLease, NoRow, TypeOK, Owner, Row, Lease, TxnKind
<1>7. HeartbeatInv'
  BY DEF AcquireCommit, IInv, HeartbeatInv, Clocked, Severed, NoTxn, TxnInv,
        RowInv, ControlInv, TokenInv, NoLease, NoRow, TypeOK, Owner, Row,
        Lease, TxnKind
<1> QED
  BY <1>1, <1>2, <1>3, <1>4, <1>5, <1>6, <1>7 DEF IInv

(* lease_expiry confirms the first deadline. *)
LEMMA HbExpiryInv ==
  ASSUME IInv, NEW a \in Activation, HbExpiry(a)
  PROVE  IInv'
<1>1. TypeOK'
  BY DEF HbExpiry, IInv, TypeOK, Owner, Row, Lease, TxnKind, HbFail, Fenced
<1>2. ControlInv'
  BY DEF HbExpiry, IInv, ControlInv, NoLease, NoTxn, HbFail, Fenced, TypeOK,
        Owner, Row, Lease, TxnKind
<1>3. TxnInv'
  BY DEF HbExpiry, IInv, TxnInv, NoTxn, Released, ControlInv, HbFail, Fenced,
        RowInv, NoRow, TypeOK, Owner, Row, Lease, TxnKind
<1>4. HeartbeatInv'
  <2>1. Fenced(lease[a]) => row.owner = a
    BY FencedOwner DEF HbExpiry, IInv, ControlInv
  <2> QED
    BY <2>1 DEF HbExpiry, IInv, HeartbeatInv, Clocked, Severed, HbFail, TypeOK, Row
<1>5. RowInv' /\ TokenInv' /\ TokensUnique'
  BY DEF HbExpiry, IInv, RowInv, NoRow, TokenInv, NoLease, TokensUnique,
        HasLease
<1> QED
  BY <1>1, <1>2, <1>3, <1>4, <1>5 DEF IInv

(* The clock sample and the valid() read of renew. *)
LEMMA HbWakeInv ==
  ASSUME IInv, NEW a \in Activation, HbWake(a)
  PROVE  IInv'
<1>1. TypeOK'
  BY DEF HbWake, IInv, TypeOK, Owner, Row, Lease, TxnKind, HbFail, Fenced
<1>2. ControlInv'
  BY DEF HbWake, IInv, ControlInv, NoLease, NoTxn, HbFail, Fenced, TypeOK,
        Owner, Row, Lease, TxnKind
<1>3. TxnInv'
  BY DEF HbWake, IInv, TxnInv, NoTxn, Released, ControlInv, HbFail, Fenced,
        RowInv, NoRow, TypeOK, Owner, Row, Lease, TxnKind
<1>4. HeartbeatInv'
  BY DEF HbWake, IInv, HeartbeatInv, Clocked, Severed, HbFail, Fenced, TypeOK,
        Owner, Row, Lease, TxnKind
<1>5. RowInv' /\ TokenInv' /\ TokensUnique'
  BY DEF HbWake, IInv, RowInv, NoRow, TokenInv, NoLease, TokensUnique,
        HasLease
<1> QED
  BY <1>1, <1>2, <1>3, <1>4, <1>5 DEF IInv

(* The renewal that its timeout cancels. *)
LEMMA HbTimeoutInv ==
  ASSUME IInv, NEW a \in Activation, HbTimeout(a)
  PROVE  IInv'
<1>1. TypeOK'
  BY DEF HbTimeout, IInv, TypeOK, Owner, Row, Lease, TxnKind, HbFail
<1>2. ControlInv'
  BY DEF HbTimeout, IInv, ControlInv, NoLease, NoTxn, HbFail, TypeOK, Owner,
        Row, Lease, TxnKind
<1>3. TxnInv'
  BY DEF HbTimeout, IInv, TxnInv, NoTxn, Released, ControlInv, HbFail, RowInv,
        NoRow, TypeOK, Owner, Row, Lease, TxnKind
<1>4. HeartbeatInv'
  BY DEF HbTimeout, IInv, HeartbeatInv, Clocked, Severed, HbFail, TypeOK,
        Owner, Row, Lease, TxnKind
<1>5. RowInv' /\ TokenInv' /\ TokensUnique'
  BY DEF HbTimeout, IInv, RowInv, NoRow, TokenInv, NoLease, TokensUnique,
        HasLease
<1> QED
  BY <1>1, <1>2, <1>3, <1>4, <1>5 DEF IInv

(* The fenced UPDATE of renew runs after the clock sample. *)
LEMMA RenewExecInv ==
  ASSUME IInv, NEW a \in Activation, RenewExec(a)
  PROVE  IInv'
<1>1. TypeOK'
  <2>1. [row EXCEPT !.until = now + Seconds] \in Row
    BY UpdatedRow DEF IInv
  <2> QED
    BY <2>1 DEF RenewExec, Open, HbFail, IInv, TypeOK, TxnKind, Owner
<1>2. ControlInv'
  BY DEF RenewExec, IInv, ControlInv, NoLease, NoTxn, HbFail, Fenced, Free,
        Open, TypeOK, Owner, Row, Lease, TxnKind
<1>3. TxnInv'
  <2>1. Fenced(lease[a]) => row.owner = a
    BY FencedOwner DEF RenewExec, IInv, ControlInv
  <2>2. CASE Fenced(lease[a])
    <3> DEFINE r == [row EXCEPT !.until = now + Seconds]
    <3>1. r = [row EXCEPT !.until = r.until] /\ r.until = now + Seconds
      BY DEF IInv, TypeOK, Row
    <3>2. txn' = [kind |-> "renew", who |-> a, row |-> r, canon |-> canon]
      BY <2>2 DEF RenewExec, Open
    <3>3. started[a] <= now /\ row.until <= now + Seconds
      BY DEF RenewExec, IInv, HeartbeatInv, RowInv
    <3> HIDE DEF r
    <3> QED
      BY <2>1, <2>2, <3>1, <3>2, <3>3 DEF RenewExec, TxnInv, IInv, TypeOK, Row
  <2>3. CASE ~Fenced(lease[a])
    BY <2>3 DEF RenewExec, HbFail, Free, IInv, TxnInv, TypeOK, NoTxn
  <2> QED
    BY <2>2, <2>3
<1>4. HeartbeatInv'
  BY DEF RenewExec, IInv, HeartbeatInv, Clocked, Severed, HbFail, Fenced,
        Free, Open, TypeOK, Owner, Row, Lease, TxnKind
<1>5. RowInv' /\ TokenInv' /\ TokensUnique'
  BY DEF RenewExec, IInv, RowInv, NoRow, TokenInv, NoLease, TokensUnique,
        HasLease
<1> QED
  BY <1>1, <1>2, <1>3, <1>4, <1>5 DEF IInv

(* The renewed lease_until covers the new deadline. *)
LEMMA RenewCommitInv ==
  ASSUME IInv, NEW a \in Activation, RenewCommit(a)
  PROVE  IInv'
<1>1. TypeOK'
  BY DEF RenewCommit, IInv, TypeOK, Owner, Row, Lease, TxnKind, HbFail, NoTxn,
        NoRow, TxnInv
<1>2. RowInv'
  BY DEF RenewCommit, IInv, RowInv, NoRow, HbFail, NoTxn, TxnInv, ControlInv,
        TokenInv, NoLease, TypeOK, Owner, Row, Lease, TxnKind
<1>3. TokenInv'
  BY DEF RenewCommit, IInv, TokenInv, NoRow, NoLease, HbFail, NoTxn, TxnInv,
        RowInv, ControlInv, TypeOK, Owner, Row, Lease, TxnKind
<1>4. ControlInv'
  BY DEF RenewCommit, IInv, ControlInv, NoLease, NoTxn, HbFail, TxnInv,
        RowInv, TokenInv, NoRow, TypeOK, Owner, Row, Lease, TxnKind
<1>5. TxnInv'
  BY DEF RenewCommit, IInv, TxnInv, NoTxn, Released, ControlInv, HbFail,
        RowInv, TokenInv, NoLease, NoRow, TypeOK, Owner, Row, Lease, TxnKind
<1>6. HeartbeatInv'
  BY DEF RenewCommit, IInv, HeartbeatInv, Clocked, Severed, HbFail, NoTxn,
        TxnInv, RowInv, ControlInv, TokenInv, NoLease, NoRow, TypeOK, Owner,
        Row, Lease, TxnKind
<1>7. TokensUnique'
  BY DEF RenewCommit, IInv, TokensUnique, HasLease
<1> QED
  BY <1>1, <1>2, <1>3, <1>4, <1>5, <1>6, <1>7 DEF IInv

(* _assert_lease inside the transaction. *)
LEMMA WriteExecInv ==
  ASSUME IInv, NEW a \in Activation, WriteExec(a)
  PROVE  IInv'
<1>1. TypeOK'
  BY DEF WriteExec, IInv, TypeOK, Owner, Row, Lease, TxnKind, Free, Open,
        Fenced
<1>2. ControlInv'
  BY DEF WriteExec, IInv, ControlInv, NoLease, NoTxn, Free, Open, Fenced,
        TypeOK, Owner, Row, Lease, TxnKind
<1>3. TxnInv'
  <2>1. Fenced(lease[a]) => row.owner = a
    BY FencedOwner DEF WriteExec
  <2> QED
    BY <2>1 DEF WriteExec, Open, Free, IInv, TxnInv, NoTxn, TypeOK
<1>4. RowInv' /\ TokenInv' /\ TokensUnique' /\ HeartbeatInv'
  BY DEF WriteExec, IInv, RowInv, NoRow, TokenInv, NoLease, TokensUnique,
        HasLease, HeartbeatInv, Clocked, Severed
<1> QED
  BY <1>1, <1>2, <1>3, <1>4 DEF IInv

(* A fenced write leaves the scope row alone. *)
LEMMA WriteCommitInv ==
  ASSUME IInv, NEW a \in Activation, WriteCommit(a)
  PROVE  IInv'
<1>1. TypeOK'
  BY DEF WriteCommit, IInv, TypeOK, Owner, Row, Lease, TxnKind, NoTxn, NoRow,
        TxnInv
<1>2. ControlInv'
  BY DEF WriteCommit, IInv, ControlInv, NoLease, NoTxn, TxnInv, RowInv,
        TokenInv, NoRow, TypeOK, Owner, Row, Lease, TxnKind
<1>3. TxnInv'
  BY DEF WriteCommit, IInv, TxnInv, NoTxn, Released, ControlInv, RowInv,
        TokenInv, NoLease, NoRow, TypeOK, Owner, Row, Lease, TxnKind
<1>4. RowInv' /\ TokenInv' /\ TokensUnique' /\ HeartbeatInv'
  BY DEF WriteCommit, IInv, RowInv, NoRow, TokenInv, NoLease, TokensUnique,
        HasLease, HeartbeatInv, Clocked, Severed
<1> QED
  BY <1>1, <1>2, <1>3, <1>4 DEF IInv

(* The activation leaves its body. *)
LEMMA EndRunInv ==
  ASSUME IInv, NEW a \in Activation, EndRun(a)
  PROVE  IInv'
<1>1. TypeOK'
  BY DEF EndRun, IInv, TypeOK, Owner, Row, Lease, TxnKind, Writing, Free
<1>2. ControlInv'
  BY DEF EndRun, IInv, ControlInv, NoLease, NoTxn, Writing, Free, TypeOK,
        Owner, Row, Lease, TxnKind
<1>3. TxnInv'
  BY DEF EndRun, IInv, TxnInv, NoTxn, Released, ControlInv, Writing, Free,
        RowInv, NoRow, TypeOK, Owner, Row, Lease, TxnKind
<1>4. RowInv' /\ TokenInv' /\ TokensUnique' /\ HeartbeatInv'
  BY DEF EndRun, IInv, RowInv, NoRow, TokenInv, NoLease, TokensUnique,
        HasLease, HeartbeatInv, Clocked, Severed
<1> QED
  BY <1>1, <1>2, <1>3, <1>4 DEF IInv

(* The heartbeat is joined. *)
LEMMA HbJoinInv ==
  ASSUME IInv, NEW a \in Activation, HbJoin(a)
  PROVE  IInv'
<1>1. TypeOK'
  BY DEF HbJoin, IInv, TypeOK, Owner, Row, Lease, TxnKind
<1>2. ControlInv'
  BY DEF HbJoin, IInv, ControlInv, NoLease, NoTxn, TypeOK, Owner, Row, Lease,
        TxnKind
<1>3. TxnInv'
  BY DEF HbJoin, IInv, TxnInv, NoTxn, Released, ControlInv, RowInv, NoRow,
        TypeOK, Owner, Row, Lease, TxnKind
<1>4. HeartbeatInv'
  BY DEF HbJoin, IInv, HeartbeatInv, Clocked, Severed, TypeOK, Owner, Row,
        Lease, TxnKind
<1>5. RowInv' /\ TokenInv' /\ TokensUnique'
  BY DEF HbJoin, IInv, RowInv, NoRow, TokenInv, NoLease, TokensUnique,
        HasLease
<1> QED
  BY <1>1, <1>2, <1>3, <1>4, <1>5 DEF IInv

(* The valid() read of release. *)
LEMMA ReleaseReadInv ==
  ASSUME IInv, NEW a \in Activation, ReleaseRead(a)
  PROVE  IInv'
<1>1. TypeOK'
  BY DEF ReleaseRead, IInv, TypeOK, Owner, Row, Lease, TxnKind, Fenced,
        Writing, Free
<1>2. ControlInv'
  BY DEF ReleaseRead, IInv, ControlInv, NoLease, NoTxn, Fenced, Writing, Free,
        TypeOK, Owner, Row, Lease, TxnKind
<1>3. TxnInv'
  BY DEF ReleaseRead, IInv, TxnInv, NoTxn, Released, ControlInv, Fenced,
        Writing, Free, RowInv, NoRow, TypeOK, Owner, Row, Lease, TxnKind
<1>4. RowInv' /\ TokenInv' /\ TokensUnique' /\ HeartbeatInv'
  BY DEF ReleaseRead, IInv, RowInv, NoRow, TokenInv, NoLease, TokensUnique,
        HasLease, HeartbeatInv, Clocked, Severed
<1> QED
  BY <1>1, <1>2, <1>3, <1>4 DEF IInv

(* The fenced UPDATE of release. *)
LEMMA ReleaseExecInv ==
  ASSUME IInv, NEW a \in Activation, ReleaseExec(a)
  PROVE  IInv'
<1>1. TypeOK'
  <2>1. Released \in Row
    BY UpdatedRow DEF IInv
  <2> QED
    BY <2>1 DEF ReleaseExec, Open, HbFail, IInv, TypeOK, TxnKind, Owner
<1>2. ControlInv'
  BY DEF ReleaseExec, IInv, ControlInv, NoLease, NoTxn, Free, Open, Fenced,
        TypeOK, Owner, Row, Lease, TxnKind
<1>3. TxnInv'
  <2>1. Fenced(lease[a]) => row.owner = a
    BY FencedOwner DEF ReleaseExec
  <2> QED
    BY <2>1 DEF ReleaseExec, Open, Free, Released, IInv, TxnInv, NoTxn, TypeOK
<1>4. RowInv' /\ TokenInv' /\ TokensUnique' /\ HeartbeatInv'
  BY DEF ReleaseExec, IInv, RowInv, NoRow, TokenInv, NoLease, TokensUnique,
        HasLease, HeartbeatInv, Clocked, Severed
<1> QED
  BY <1>1, <1>2, <1>3, <1>4 DEF IInv

(* The released row keeps its fence, so the next grant moves on. *)
LEMMA ReleaseCommitInv ==
  ASSUME IInv, NEW a \in Activation, ReleaseCommit(a)
  PROVE  IInv'
<1>1. TypeOK'
  BY DEF ReleaseCommit, IInv, TypeOK, Owner, Row, Lease, TxnKind, NoTxn,
        NoRow, TxnInv
<1>2. RowInv'
  <2>1. /\ row'.gen = row.gen /\ row'.epoch = row.epoch /\ row'.fence = row.fence
        /\ row'.owner = NoOwner /\ row'.until = 0
    BY DEF ReleaseCommit, Released, IInv, TxnInv
  <2> QED
    BY <2>1 DEF ReleaseCommit, IInv, TxnInv, ControlInv, RowInv, RowInv, NoRow, TypeOK, Row, NoRow
<1>3. TokenInv'
  <2>1. /\ row'.gen = row.gen /\ row'.epoch = row.epoch /\ row'.fence = row.fence
        /\ row'.owner = NoOwner /\ row'.until = 0
    BY DEF ReleaseCommit, Released, IInv, TxnInv
  <2> QED
    BY <2>1 DEF ReleaseCommit, IInv, TxnInv, ControlInv, RowInv, TokenInv, NoRow, NoLease, TypeOK, Row, NoRow
<1>4. ControlInv'
  BY DEF ReleaseCommit, IInv, ControlInv, NoLease, NoTxn, TxnInv, RowInv,
        TokenInv, NoRow, TypeOK, Owner, Row, Lease, TxnKind
<1>5. TxnInv'
  BY DEF ReleaseCommit, IInv, TxnInv, NoTxn, Released, ControlInv, RowInv,
        TokenInv, NoLease, NoRow, TypeOK, Owner, Row, Lease, TxnKind
<1>6. HeartbeatInv'
  <2>1. /\ row'.gen = row.gen /\ row'.epoch = row.epoch /\ row'.fence = row.fence
        /\ row'.owner = NoOwner /\ row'.until = 0
    BY DEF ReleaseCommit, Released, IInv, TxnInv
  <2> QED
    BY <2>1 DEF ReleaseCommit, IInv, TxnInv, ControlInv, RowInv, HeartbeatInv, Clocked, Severed, TypeOK, Row, NoRow
<1>7. TokensUnique'
  BY DEF ReleaseCommit, IInv, TokensUnique, HasLease
<1> QED
  BY <1>1, <1>2, <1>3, <1>4, <1>5, <1>6, <1>7 DEF IInv

(* A generation bump stages a row of the next generation. *)
LEMMA BumpExecInv ==
  ASSUME IInv, BumpExec
  PROVE  IInv'
<1>1. TypeOK'
  BY DEF BumpExec, IInv, TypeOK, Owner, Row, Lease, TxnKind, Free, Open,
        Cancelled, NoRow
<1>2. ControlInv'
  BY DEF BumpExec, IInv, ControlInv, NoLease, NoTxn, Free, Open, Cancelled,
        TypeOK, Owner, Row, Lease, TxnKind
<1>3. TxnInv'
  BY DEF BumpExec, IInv, TxnInv, NoTxn, Released, ControlInv, Free, Open,
        Cancelled, RowInv, NoRow, TypeOK, Owner, Row, Lease, TxnKind
<1>4. RowInv' /\ TokenInv' /\ TokensUnique' /\ HeartbeatInv'
  BY DEF BumpExec, IInv, RowInv, NoRow, TokenInv, NoLease, TokensUnique,
        HasLease, HeartbeatInv, Clocked, Severed
<1> QED
  BY <1>1, <1>2, <1>3, <1>4 DEF IInv

(* A purge stages the deletion of the row. *)
LEMMA PurgeExecInv ==
  ASSUME IInv, PurgeExec
  PROVE  IInv'
<1>1. TypeOK'
  BY DEF PurgeExec, IInv, TypeOK, Owner, Row, Lease, TxnKind, Free, Open,
        NoRow
<1>2. ControlInv'
  BY DEF PurgeExec, IInv, ControlInv, NoLease, NoTxn, Free, Open, TypeOK,
        Owner, Row, Lease, TxnKind
<1>3. TxnInv'
  BY DEF PurgeExec, IInv, TxnInv, NoTxn, Released, ControlInv, Free, Open,
        RowInv, NoRow, TypeOK, Owner, Row, Lease, TxnKind
<1>4. RowInv' /\ TokenInv' /\ TokensUnique' /\ HeartbeatInv'
  BY DEF PurgeExec, IInv, RowInv, NoRow, TokenInv, NoLease, TokensUnique,
        HasLease, HeartbeatInv, Clocked, Severed
<1> QED
  BY <1>1, <1>2, <1>3, <1>4 DEF IInv

(* A hard boundary severs every lease granted before it. *)
LEMMA BoundaryCommitInv ==
  ASSUME IInv, BoundaryCommit
  PROVE  IInv'
<1>1. TypeOK'
  BY DEF BoundaryCommit, IInv, TypeOK, Owner, Row, Lease, TxnKind, NoTxn,
        NoRow, TxnInv
<1>2. RowInv'
  BY DEF BoundaryCommit, IInv, RowInv, NoRow, NoTxn, TxnInv, ControlInv,
        TokenInv, NoLease, TypeOK, Owner, Row, Lease, TxnKind
<1>3. TokenInv'
  BY DEF BoundaryCommit, IInv, TokenInv, NoRow, NoLease, NoTxn, TxnInv,
        RowInv, ControlInv, TypeOK, Owner, Row, Lease, TxnKind
<1>4. ControlInv'
  BY DEF BoundaryCommit, IInv, ControlInv, NoLease, NoTxn, TxnInv, RowInv,
        TokenInv, NoRow, TypeOK, Owner, Row, Lease, TxnKind
<1>5. TxnInv'
  BY DEF BoundaryCommit, IInv, TxnInv, NoTxn, Released, ControlInv, RowInv,
        TokenInv, NoLease, NoRow, TypeOK, Owner, Row, Lease, TxnKind
<1>6. HeartbeatInv'
  BY DEF BoundaryCommit, IInv, HeartbeatInv, Clocked, Severed, NoTxn, TxnInv,
        RowInv, ControlInv, TokenInv, NoLease, NoRow, TypeOK, Owner, Row,
        Lease, TxnKind
<1>7. TokensUnique'
  BY DEF BoundaryCommit, IInv, TokensUnique, HasLease
<1> QED
  BY <1>1, <1>2, <1>3, <1>4, <1>5, <1>6, <1>7 DEF IInv

(* A transaction that fails leaves only control state behind. *)
LEMMA RollbackInv ==
  ASSUME IInv, Rollback
  PROVE  IInv'
<1>1. TypeOK'
  BY DEF Rollback, IInv, TypeOK, Owner, Row, Lease, TxnKind, Free, HbFail,
        NoTxn, NoRow
<1>2. ControlInv'
  <2>1. \A b \in Activation : pc'[b] \in {"idle", "acquiring"} <=> lease[b] = NoLease
    BY DEF Rollback, Free, IInv, ControlInv, TxnInv, TypeOK, Owner
  <2>2. \A b \in Activation : hb'[b] # "txn"
    BY DEF Rollback, Free, HbFail, IInv, ControlInv, TypeOK, TxnKind, Owner
  <2>3. \A b \in Activation : hb'[b] # "off" => pc'[b] \in {"run", "closing"}
    BY DEF Rollback, Free, HbFail, IInv, ControlInv, TxnInv, TypeOK, TxnKind, Owner
  <2>4. ASSUME NEW b \in Activation, b = txn.who, txn.kind # "acquire"
        PROVE  pc[b] # "acquiring"
    <3>1. CASE txn.kind = "renew"
      BY <2>4, <3>1 DEF IInv, ControlInv
    <3>2. CASE txn.kind = "write" \/ txn.kind = "release"
      BY <2>4, <3>2 DEF IInv, ControlInv, TxnInv, RowInv, NoLease
    <3> QED
      BY <2>4, <3>1, <3>2 DEF IInv, ControlInv, TypeOK, TxnKind, Rollback, Free, TxnInv
  <2>5. \A b \in Activation : pc'[b] = "acquiring" => want'[b] # 0
    BY <2>4 DEF Rollback, IInv, ControlInv, TypeOK
  <2> QED
    BY <2>1, <2>2, <2>3, <2>5 DEF Rollback, ControlInv, NoTxn
<1>3. TxnInv'
  BY DEF Rollback, IInv, TxnInv, NoTxn, Released, ControlInv, Free, HbFail,
        RowInv, NoRow, TypeOK, Owner, Row, Lease, TxnKind
<1>4. HeartbeatInv'
  BY DEF Rollback, Free, HbFail, IInv, HeartbeatInv, ControlInv, TxnInv, Clocked, Severed,
         TypeOK, Owner
<1>5. RowInv' /\ TokenInv' /\ TokensUnique'
  BY DEF Rollback, IInv, RowInv, NoRow, TokenInv, NoLease, TokensUnique,
        HasLease
<1> QED
  BY <1>1, <1>2, <1>3, <1>4, <1>5 DEF IInv

(* A crash leaves the committed rows behind. *)
LEMMA CrashInv ==
  ASSUME IInv, Crash
  PROVE  IInv'
<1>1. TypeOK'
  BY DEF Crash, IInv, TypeOK, Owner, Row, Lease, TxnKind, NoTxn, NoRow
<1>2. ControlInv'
  BY DEF Crash, IInv, ControlInv, NoLease, NoTxn, TypeOK, Owner, Row, Lease,
        TxnKind
<1>3. TxnInv'
  BY DEF Crash, IInv, TxnInv, NoTxn, Released, ControlInv, RowInv, NoRow,
        TypeOK, Owner, Row, Lease, TxnKind
<1>4. HeartbeatInv'
  BY DEF Crash, IInv, HeartbeatInv, Clocked, Severed, NoTxn, TypeOK, Owner,
        Row, Lease, TxnKind
<1>5. RowInv' /\ TokenInv' /\ TokensUnique'
  BY DEF Crash, IInv, RowInv, NoRow, TokenInv, NoLease, TokensUnique, HasLease
<1> QED
  BY <1>1, <1>2, <1>3, <1>4, <1>5 DEF IInv

(* A step that changes nothing. *)
LEMMA StutterInv ==
  ASSUME IInv, UNCHANGED vars
  PROVE  IInv'
  BY DEF vars, IInv, TypeOK, RowInv, TokenInv, TokensUnique, ControlInv, TxnInv,
         HeartbeatInv, Clocked, HasLease, Severed, Released

(* Every step of the specification preserves the invariant. *)
LEMMA NextInv == IInv /\ [Next]_vars => IInv'
  BY TickInv, AcquireReadInv, AcquireExecInv, AcquireMissInv,
      AcquireCommitInv, HbExpiryInv, HbWakeInv, HbTimeoutInv, RenewExecInv,
      RenewCommitInv, WriteExecInv, WriteCommitInv, EndRunInv, HbJoinInv,
      ReleaseReadInv, ReleaseExecInv, ReleaseCommitInv, BumpExecInv,
      PurgeExecInv, BoundaryCommitInv, RollbackInv, CrashInv, StutterInv
     DEF Next, Heartbeat, Activate, Boundary

(* The inductive invariant holds in every reachable state. *)
THEOREM Invariance == Spec => []IInv
  BY InitInv, NextInv, PTL DEF Spec

(* Every variable of the lease protocol stays in its domain. *)
THEOREM TypeCorrect == Spec => []TypeOK
<1>1. IInv => TypeOK
  BY DEF IInv
<1> QED
  BY <1>1, Invariance, PTL

(* Fencing tokens are never reused, for any number of activations, across  *)
(* expiry, generation bumps and purges that delete the scope row.          *)
THEOREM TokensNeverReused == Spec => []TokensUnique
<1>1. IInv => TokensUnique
  BY DEF IInv
<1> QED
  BY <1>1, Invariance, PTL

(* Two activations that no hard boundary severed never both run inside      *)
(* their confirmed deadlines.                                               *)
THEOREM Exclusive == Spec => []ExclusiveExecution
<1>1. IInv => ExclusiveExecution
  <2> SUFFICES ASSUME IInv, NEW a \in Activation, NEW b \in Activation,
                      Believes(a), Believes(b), a # b, ~Severed(a), ~Severed(b)
               PROVE  FALSE
    BY DEF ExclusiveExecution
  <2>1. row.owner = a
    BY DEF Believes, IInv, HeartbeatInv, Clocked, TypeOK
  <2>2. row.owner = b
    BY DEF Believes, IInv, HeartbeatInv, Clocked, TypeOK
  <2> QED
    BY <2>1, <2>2
<1> QED
  BY <1>1, Invariance, PTL

-----------------------------------------------------------------------------
(* The refinement.  Steps that leave the committed row's owner, the granted *)
(* leases and the data alone are stutters of FencedLease.                   *)
LEMMA Stutters ==
  ASSUME row'.owner = row.owner, lease' = lease, data' = data
  PROVE  UNCHANGED FL!vars
  BY DEF FL!vars, Holder, Retired, HasLease

(* A committed acquire is a grant, and it retires the holder before it. *)
LEMMA AcquireImplements ==
  ASSUME IInv, NEW a \in Activation, AcquireCommit(a)
  PROVE  FL!Grant(a)
<1>1. lease[a] = NoLease /\ row'.owner = a /\ data' = data
  BY DEF AcquireCommit, IInv, TxnInv, ControlInv
<1>2. row.owner # NoOwner => row.owner \in Activation /\ HasLease(row.owner)
  BY DEF IInv, RowInv, TypeOK, Row, Owner, HasLease, NoLease
<1>3. \A b \in Activation : HasLease(b)' <=> (HasLease(b) \/ b = a)
  BY DEF AcquireCommit, HasLease, IInv, TypeOK, NoLease
<1>4. ~HasLease(a) /\ Holder # a /\ a \notin Retired
  BY <1>1, <1>2 DEF Holder, Retired, HasLease
<1>5. Retired' = Retired \cup ({Holder} \ {NoOwner})
  BY <1>1, <1>2, <1>3, <1>4 DEF Retired, Holder
<1> QED
  BY <1>1, <1>4, <1>5 DEF FL!Grant, FL!Retire, Holder

(* A release or a hard boundary of a held scope is a revocation. *)
LEMMA RevokeImplements ==
  ASSUME IInv, row.owner # NoOwner, row'.owner = NoOwner, lease' = lease, data' = data
  PROVE  FL!Revoke
<1>1. row.owner \in Activation /\ HasLease(row.owner)
  BY DEF IInv, RowInv, TypeOK, Row, Owner, HasLease, NoLease
<1>2. Retired' = Retired \cup ({Holder} \ {NoOwner})
  BY <1>1 DEF Retired, Holder, HasLease
<1> QED
  BY <1>1, <1>2 DEF FL!Revoke, FL!Retire, Holder

(* A committed write is the holder's. *)
LEMMA WriteImplements ==
  ASSUME IInv, NEW a \in Activation, WriteCommit(a)
  PROVE  FL!Write(a)
  BY DEF WriteCommit, IInv, TxnInv, FL!Write, Holder, Retired, HasLease

(* Every step is a step of FencedLease or a stutter. *)
LEMMA StepImplements == IInv /\ [Next]_vars => [FL!Next]_FL!vars
<1> SUFFICES ASSUME IInv, [Next]_vars
             PROVE  [FL!Next]_FL!vars
  OBVIOUS
<1>1. ASSUME NEW a \in Activation, AcquireCommit(a)
      PROVE  FL!Next
  BY <1>1, AcquireImplements DEF FL!Next
<1>2. ASSUME NEW a \in Activation, WriteCommit(a)
      PROVE  FL!Next
  BY <1>2, WriteImplements DEF FL!Next
<1>3. ASSUME NEW a \in Activation, ReleaseCommit(a)
      PROVE  FL!Next
  <2>1. row.owner # NoOwner /\ row'.owner = NoOwner
    BY <1>3 DEF ReleaseCommit, Released, IInv, TxnInv
  <2> QED
    BY <1>3, <2>1, RevokeImplements DEF ReleaseCommit, FL!Next
<1>4. ASSUME NEW a \in Activation, RenewCommit(a)
      PROVE  UNCHANGED FL!vars
  <2>1. row'.owner = row.owner
    BY <1>4 DEF RenewCommit, IInv, TxnInv, TypeOK, Row
  <2> QED
    BY <1>4, <2>1, Stutters DEF RenewCommit
<1>5. CASE BoundaryCommit
  <2>1. row'.owner = NoOwner
    BY <1>5 DEF BoundaryCommit, IInv, TxnInv, NoRow
  <2>2. lease' = lease /\ data' = data
    BY <1>5 DEF BoundaryCommit
  <2>3. CASE row.owner = NoOwner
    BY <2>1, <2>2, <2>3, Stutters
  <2>4. CASE row.owner # NoOwner
    BY <2>1, <2>2, <2>4, RevokeImplements DEF FL!Next
  <2> QED
    BY <2>3, <2>4
<1>6. CASE Tick \/ BumpExec \/ PurgeExec \/ Rollback \/ Crash \/ UNCHANGED vars
  BY <1>6, Stutters DEF Tick, BumpExec, PurgeExec, Rollback, Crash, vars
<1>7. ASSUME NEW a \in Activation,
             HbExpiry(a) \/ HbWake(a) \/ HbTimeout(a) \/ RenewExec(a)
      PROVE  UNCHANGED FL!vars
  BY <1>7, Stutters DEF HbExpiry, HbWake, HbTimeout, RenewExec
<1>8. ASSUME NEW a \in Activation,
             \/ AcquireRead(a) \/ AcquireExec(a) \/ AcquireMiss(a) \/ WriteExec(a)
             \/ EndRun(a) \/ HbJoin(a) \/ ReleaseRead(a) \/ ReleaseExec(a)
      PROVE  UNCHANGED FL!vars
  BY <1>8, Stutters DEF AcquireRead, AcquireExec, AcquireMiss, WriteExec, EndRun, HbJoin,
                        ReleaseRead, ReleaseExec
<1> QED
  BY <1>1, <1>2, <1>3, <1>4, <1>5, <1>6, <1>7, <1>8
     DEF Next, Heartbeat, Activate, Boundary

(* The detailed lease implements the abstract one: only the holder's writes *)
(* are committed, and whoever lost the scope never writes or holds again.   *)
THEOREM Refinement == Spec => Implements
<1>1. Init => FL!Init
  BY DEF Init, FL!Init, Holder, Retired, HasLease, NoRow
<1>2. IInv /\ [Next]_vars => [FL!Next]_FL!vars
  BY StepImplements
<1> QED
  BY <1>1, <1>2, Invariance, PTL DEF Spec, FL!Spec, Implements
=============================================================================
